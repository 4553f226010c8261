------------------------------ MODULE Sessions ------------------------------
(***************************************************************************)
(* What the TCP server promises its peers: each connection is served as if *)
(* it were alone.  It waits in a queue, its requests are read and answered *)
(* one at a time, it ends when its peer has left and not before, and its   *)
(* thread is over then.  There are no descriptors here; Network shows that *)
(* a number given out between the two closes of a connection is all that   *)
(* breaks the promise, which is broken for good then.                      *)
(***************************************************************************)
CONSTANTS
  Conn,      \* the connections peers make
  Requests   \* the requests they send

VARIABLES
  link,    \* each connection, seen from its peer
  text,    \* the request sent on it and not yet read
  stage,   \* what the program does with it
  astray,  \* the connections whose replies another peer got
  broken   \* is the promise broken?

sessions == << link, text, stage, astray >>
vars     == << sessions, broken >>

Init ==
  /\ link = [c \in Conn |-> "away"]
  /\ text = [c \in Conn |-> "none"]
  /\ stage = [c \in Conn |-> "queued"]
  /\ astray = {}
  /\ broken = FALSE

Enter(c, next) == stage' = [stage EXCEPT ![c] = next]

-----------------------------------------------------------------------------
(***************************************************************************)
(* The peer.                                                               *)
(***************************************************************************)
Connect(c) ==
  /\ link[c] = "away" \/ (stage[c] = "over" /\ link[c] = "left")
  /\ link' = [link EXCEPT ![c] = "open"]
  /\ text' = [text EXCEPT ![c] = "none"]
  /\ Enter(c, "queued")
  /\ UNCHANGED astray

Ask(c) ==
  /\ link[c] = "open" /\ text[c] = "none" /\ stage[c] # "answering"
  /\ \E r \in Requests : text' = [text EXCEPT ![c] = r]
  /\ UNCHANGED << link, stage, astray >>

Leave(c) ==
  /\ link[c] = "open"
  /\ link' = [link EXCEPT ![c] = "left"]
  /\ UNCHANGED << text, stage, astray >>

-----------------------------------------------------------------------------
(***************************************************************************)
(* The program.                                                            *)
(***************************************************************************)
Accept(c) ==
  /\ stage[c] = "queued" /\ link[c] \in {"open", "left"}
  /\ Enter(c, "reading")
  /\ UNCHANGED << link, text, astray >>

\* A connection may be given up in the queue, but only by its peer.
GiveUp(c) ==
  /\ stage[c] = "queued" /\ link[c] = "left"
  /\ Enter(c, "over")
  /\ UNCHANGED << link, text, astray >>

Take(c) ==
  /\ stage[c] = "reading" /\ text[c] \in Requests
  /\ text' = [text EXCEPT ![c] = "none"]
  /\ \/ Enter(c, "reading")
     \/ text[c] # "ignored" /\ Enter(c, "answering")
  /\ UNCHANGED << link, astray >>

\* The reply goes to the peer that asked, if it goes to anyone.
Answer(c) ==
  /\ stage[c] = "answering"
  /\ Enter(c, "reading")
  /\ UNCHANGED << link, text, astray >>

\* A request not read before its peer has left need not be.
End(c) ==
  /\ stage[c] = "reading" /\ link[c] = "left"
  /\ text' = [text EXCEPT ![c] = "none"]
  /\ Enter(c, "ending")
  /\ UNCHANGED << link, astray >>

Finish(c) ==
  /\ stage[c] = "ending"
  /\ Enter(c, "over")
  /\ UNCHANGED << link, text, astray >>

\* A reply to a peer that has left may end the process, nothing else does.
Die ==
  /\ \E c \in Conn : stage[c] = "answering" /\ link[c] # "open"
  /\ link' = [c \in Conn |-> "away"]
  /\ stage' = [c \in Conn |-> "queued"]
  /\ UNCHANGED << text, astray >>

Serve(c) == \/ Connect(c) \/ Ask(c) \/ Leave(c)
            \/ Accept(c) \/ GiveUp(c) \/ Take(c) \/ Answer(c) \/ End(c)
            \/ Finish(c)

Next == \/ broken'
        \/ ~broken' /\ ((\E c \in Conn : Serve(c)) \/ Die)

Spec == Init /\ [][Next]_vars
=============================================================================
