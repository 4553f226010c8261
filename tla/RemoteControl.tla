--------------------------- MODULE RemoteControl ---------------------------
(***************************************************************************)
(* The infrared remote control of src/remote_control.cpp.  Its one entry,  *)
(* actionPerformed, is the callback of the light emulation and runs on the *)
(* receive thread of the connection a request came in on, so as many calls *)
(* may be in progress as there are connections.  No lock protects          *)
(* _last_state and _last_value; every access to them and every frame put   *)
(* on the serial line is a step of its own here.                           *)
(*                                                                         *)
(* The television is outside the repository.  All that is assumed of it is *)
(* that the power key switches it between on and off, that a frame may be  *)
(* missed, and that its own remote control may be used as well.            *)
(***************************************************************************)
EXTENDS Integers, Sequences

CONSTANTS
  Thread,      \* the threads that may call actionPerformed
  DeviceName,  \* the names of the devices the calls are about
  Brightness,  \* the brightness values they carry
  KeysOf,      \* the keys that dial the channel of a brightness above 0
  Keys,        \* the keys of _remote_control
  MaxWire      \* no call starts once this many keys have been sent

ASSUME BrightnessAssumption == Brightness \subseteq 0 .. 255

ASSUME KeysAssumption ==
  /\ "on/off" \in Keys
  /\ KeysOf \in [Brightness \ {0} -> Seq(Keys)]

ASSUME MaxWireAssumption == MaxWire \in Nat

VARIABLES
  lastState,  \* _last_state
  lastValue,  \* _last_value
  wire,       \* the keys whose frames were put on the serial line
  pc,         \* where each thread is in actionPerformed
  arg,        \* the state and value each thread was called with
  todo,       \* the digits each thread still has to dial
  tvOn,       \* is the television on?
  drift       \* has it been switched, or not, behind the program's back?

memory == << lastState, lastValue >>
tv     == << tvOn, drift >>
vars   == << lastState, lastValue, wire, pc, arg, todo, tvOn, drift >>

Control == {"idle", "compare", "toggle", "store", "select", "remember", "dial"}

Goto(t, label) == pc' = [pc EXCEPT ![t] = label]

(***************************************************************************)
(* The constructor takes the television to be off and the selection to be  *)
(* the one of a device that was only ever switched on.                     *)
(***************************************************************************)
NoCalls ==
  [ pc   |-> [t \in Thread |-> "idle"],
    arg  |-> [t \in Thread |-> [state |-> FALSE, value |-> 0]],
    todo |-> [t \in Thread |-> << >>] ]

Init ==
  /\ lastState = FALSE
  /\ lastValue = 255
  /\ pc = NoCalls.pc
  /\ arg = NoCalls.arg
  /\ todo = NoCalls.todo
  /\ wire = << >>
  /\ tvOn \in BOOLEAN
  /\ drift = tvOn

(***************************************************************************)
(* The television gets the power key, or misses it.                        *)
(***************************************************************************)
TvPowerKey ==
  \E missed \in BOOLEAN :
    /\ tvOn' = IF missed THEN tvOn ELSE ~tvOn
    /\ drift' = IF missed THEN ~drift ELSE drift

(***************************************************************************)
(* sendBytes: one frame on the serial line, if the key is in the table.    *)
(***************************************************************************)
sendBytes(key) ==
  wire' = IF key \in Keys THEN Append(wire, key) ELSE wire

-----------------------------------------------------------------------------
(***************************************************************************)
(* actionPerformed, step by step.                                          *)
(***************************************************************************)

\* Only the television is controlled; a call for any other device returns.
Call(t, name, state, value) ==
  /\ pc[t] = "idle"
  /\ Len(wire) < MaxWire
  /\ arg' = [arg EXCEPT ![t] = [state |-> state, value |-> value]]
  /\ Goto(t, IF name = "fernseher" THEN "compare" ELSE "idle")
  /\ UNCHANGED << memory, wire, todo, tv >>

\* if (state != _last_state), under if (_remote_control.count("on/off"))
Compare(t) ==
  /\ pc[t] = "compare"
  /\ Goto(t, IF "on/off" \in Keys /\ arg[t].state # lastState
             THEN "toggle" ELSE "select")
  /\ UNCHANGED << memory, wire, arg, todo, tv >>

Toggle(t) ==
  /\ pc[t] = "toggle"
  /\ sendBytes("on/off")
  /\ TvPowerKey
  /\ Goto(t, "store")
  /\ UNCHANGED << memory, arg, todo >>

\* Mutant: the state is not stored.
StoreNothing(t) ==
  /\ pc[t] = "store"
  /\ Goto(t, "select")
  /\ UNCHANGED << memory, wire, arg, todo, tv >>

Store(t) ==
  /\ pc[t] = "store"
  /\ lastState' = arg[t].state
  /\ Goto(t, "select")
  /\ UNCHANGED << lastValue, wire, arg, todo, tv >>

\* Mutant: value > 0 is not asked.
SelectZero(t) ==
  /\ pc[t] = "select"
  /\ Goto(t, IF arg[t].value # lastValue THEN "remember" ELSE "idle")
  /\ UNCHANGED << memory, wire, arg, todo, tv >>

\* if (value > 0 && (value != _last_value))
Select(t) ==
  /\ pc[t] = "select"
  /\ Goto(t, IF arg[t].value > 0 /\ arg[t].value # lastValue
             THEN "remember" ELSE "idle")
  /\ UNCHANGED << memory, wire, arg, todo, tv >>

\* Mutant: the selection is not stored.
RememberNothing(t) ==
  /\ pc[t] = "remember"
  /\ todo' = [todo EXCEPT ![t] = KeysOf[arg[t].value]]
  /\ Goto(t, "dial")
  /\ UNCHANGED << memory, wire, arg, tv >>

Remember(t) ==
  /\ pc[t] = "remember"
  /\ lastValue' = arg[t].value
  /\ todo' = [todo EXCEPT ![t] = KeysOf[arg[t].value]]
  /\ Goto(t, "dial")
  /\ UNCHANGED << lastState, wire, arg, tv >>

\* Mutant: the least significant digit first.
DialBackwards(t) ==
  /\ pc[t] = "dial"
  /\ todo[t] # << >>
  /\ sendBytes(todo[t][Len(todo[t])])
  /\ todo' = [todo EXCEPT ![t] = SubSeq(@, 1, Len(@) - 1)]
  /\ UNCHANGED << memory, pc, arg, tv >>

\* One digit; the thread then sleeps 100 ms and others run.
Dial(t) ==
  /\ pc[t] = "dial"
  /\ todo[t] # << >>
  /\ sendBytes(Head(todo[t]))
  /\ todo' = [todo EXCEPT ![t] = Tail(@)]
  /\ UNCHANGED << memory, pc, arg, tv >>

Return(t) ==
  /\ pc[t] = "dial"
  /\ todo[t] = << >>
  /\ Goto(t, "idle")
  /\ UNCHANGED << memory, wire, arg, todo, tv >>

Step(t) ==
  \/ Compare(t)
  \/ Toggle(t)
  \/ Store(t)
  \/ Select(t)
  \/ Remember(t)
  \/ Dial(t)
  \/ Return(t)

-----------------------------------------------------------------------------
\* The process ends at any point, by an interrupt or because write_some
\* throws on a receive thread, and is started again.
Restart ==
  /\ lastState' = FALSE
  /\ lastValue' = 255
  /\ pc' = NoCalls.pc
  /\ arg' = NoCalls.arg
  /\ todo' = NoCalls.todo
  /\ drift' = tvOn
  /\ UNCHANGED << wire, tvOn >>

\* Somebody uses the television's own remote control.
ManualPower ==
  /\ tvOn' = ~tvOn
  /\ drift' = ~drift
  /\ UNCHANGED << memory, wire, pc, arg, todo >>

Next ==
  \/ \E t \in Thread, name \in DeviceName, state \in BOOLEAN,
        value \in Brightness : Call(t, name, state, value)
  \/ \E t \in Thread : Step(t)
  \/ Restart
  \/ ManualPower

Spec == Init /\ [][Next]_vars

\* A thread that is inside actionPerformed is never blocked for good.
FairSpec == Spec /\ \A t \in Thread : WF_vars(Step(t))
-----------------------------------------------------------------------------
TypeOK ==
  /\ lastState \in BOOLEAN
  /\ lastValue \in 1 .. 255
  /\ wire \in Seq(Keys)
  /\ pc \in [Thread -> Control]
  /\ arg \in [Thread -> [state : BOOLEAN, value : Brightness \cup {0}]]
  /\ todo \in [Thread -> Seq(Keys)]
  /\ tvOn \in BOOLEAN
  /\ drift \in BOOLEAN
  /\ \A t \in Thread : pc[t] = "remember" => arg[t].value \in Brightness \ {0}

Quiet == \A t \in Thread : pc[t] = "idle"

(***************************************************************************)
(* _last_state and the television: whenever no call is in progress the two *)
(* differ exactly if the television was switched by something else, missed *)
(* a frame, or was on when the process started.  No sequence of requests   *)
(* makes them part, and none brings them together again.                   *)
(***************************************************************************)
PowerTracksState == Quiet => ((tvOn # lastState) <=> drift)

(***************************************************************************)
(* The comparison of _last_state, the power key and the store are not      *)
(* atomic.  That is the only way the two ever part by themselves: as long  *)
(* as no two threads have decided to toggle and not yet stored, any number *)
(* of concurrent calls, restarts and missed frames keeps them in step.     *)
(***************************************************************************)
Toggling(t) == pc[t] \in {"toggle", "store"}

TogglesApart == \A s, t \in Thread : Toggling(s) /\ Toggling(t) => s = t

OnlyOverlapDesynchronises == []TogglesApart => []PowerTracksState
=============================================================================
