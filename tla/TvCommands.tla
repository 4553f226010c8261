----------------------------- MODULE TvCommands -----------------------------
(***************************************************************************)
(* What RemoteControl promises its caller: the commands of successive      *)
(* requests go out one after the other, each one whole, in the order of    *)
(* the requests.  A command is the power key if the request changes the    *)
(* power state, followed by the keys of the channel if it changes the      *)
(* selection.  Only a restart of the process cuts a command short.         *)
(* RemoteControlSerial shows that actionPerformed implements this as long  *)
(* as it has one caller at a time.                                         *)
(***************************************************************************)
EXTENDS Integers, Sequences

CONSTANTS
  Brightness,  \* the brightness values of requests, bytes
  KeysOf       \* the keys that dial the channel of a brightness above 0

VARIABLES
  power,    \* the power state of the last request
  dialled,  \* the last brightness above 0 a request carried
  current,  \* what remains to be sent of the command of the last request
  sent      \* the keys sent so far

vars == << power, dialled, current, sent >>

Command(state, value) ==
  (IF state # power THEN << "on/off" >> ELSE << >>)
    \o (IF value > 0 /\ value # dialled THEN KeysOf[value] ELSE << >>)

Init ==
  /\ power = FALSE
  /\ dialled = 255
  /\ current = << >>
  /\ sent = << >>

(***************************************************************************)
(* A request is accepted once the previous command is out.                 *)
(***************************************************************************)
Perform(state, value) ==
  /\ current = << >>
  /\ current' = Command(state, value)
  /\ power' = state
  /\ dialled' = IF value > 0 THEN value ELSE dialled
  /\ UNCHANGED sent

Transmit ==
  /\ current # << >>
  /\ sent' = Append(sent, Head(current))
  /\ current' = Tail(current)
  /\ UNCHANGED << power, dialled >>

Restart ==
  /\ power' = FALSE
  /\ dialled' = 255
  /\ current' = << >>
  /\ UNCHANGED sent

Next ==
  \/ \E state \in BOOLEAN, value \in Brightness : Perform(state, value)
  \/ Transmit
  \/ Restart

Spec == Init /\ [][Next]_vars

FairSpec == Spec /\ WF_vars(Transmit)
=============================================================================
