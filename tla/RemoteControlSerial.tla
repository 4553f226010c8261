------------------------ MODULE RemoteControlSerial ------------------------
(***************************************************************************)
(* RemoteControl with a single caller: one connection at a time.  Then     *)
(* actionPerformed implements TvCommands, a call taking effect at once     *)
(* and leaving its keys to be transmitted.                                 *)
(***************************************************************************)
EXTENDS RemoteControl

CONSTANT Caller   \* the thread of the one connection

ASSUME OneCaller == Thread = {Caller}

Requested == arg[Caller].value

Selection == IF Requested > 0 /\ Requested # lastValue THEN KeysOf[Requested] ELSE << >>

(***************************************************************************)
(* The keys the call in progress has yet to send.                          *)
(***************************************************************************)
Pending ==
  CASE pc[Caller] = "idle"               -> << >>
    [] pc[Caller] = "compare"            ->
         (IF arg[Caller].state # lastState THEN << "on/off" >> ELSE << >>)
           \o Selection
    [] pc[Caller] = "toggle"             -> << "on/off" >> \o Selection
    [] pc[Caller] \in {"store", "select"} -> Selection
    [] pc[Caller] = "remember"           -> KeysOf[Requested]
    [] pc[Caller] = "dial"               -> todo[Caller]

(***************************************************************************)
(* The state and selection the call in progress will leave behind.         *)
(***************************************************************************)
FinalState ==
  IF pc[Caller] \in {"compare", "toggle", "store"} THEN arg[Caller].state
  ELSE lastState

FinalValue ==
  IF /\ pc[Caller] \in {"compare", "toggle", "store", "select", "remember"}
     /\ Requested > 0
  THEN Requested ELSE lastValue

Commands == INSTANCE TvCommands
              WITH power   <- FinalState,
                   dialled <- FinalValue,
                   current <- Pending,
                   sent    <- wire

(***************************************************************************)
(* One caller at a time: the keys on the wire are whole commands in the    *)
(* order of the requests, and a command once begun is sent to its end      *)
(* unless the process is restarted.                                        *)
(***************************************************************************)
CommandsInOrder == Commands!Spec

CommandsDelivered == Commands!FairSpec
=============================================================================
