------------------------ MODULE RemoteControlProofs ------------------------
(***************************************************************************)
(* Theorems about RemoteControl, for any set of threads, any brightnesses  *)
(* and any key table.                                                      *)
(***************************************************************************)
EXTENDS RemoteControl, SequenceTheorems, TLAPS

LEMMA BrightnessIsPositive == \A value \in Brightness \ {0} : value \in 1 .. 255 /\ value > 0
BY BrightnessAssumption

\* What a process that has just started knows of calls.
LEMMA NoCallsType ==
  /\ NoCalls.pc \in [Thread -> Control]
  /\ NoCalls.arg \in [Thread -> [state : BOOLEAN, value : Brightness \cup {0}]]
  /\ NoCalls.todo \in [Thread -> Seq(Keys)]
  /\ \A t \in Thread : NoCalls.pc[t] = "idle"
<1>1. /\ NoCalls.pc = [t \in Thread |-> "idle"]
      /\ NoCalls.arg = [t \in Thread |-> [state |-> FALSE, value |-> 0]]
      /\ NoCalls.todo = [t \in Thread |-> << >>]
  BY DEF NoCalls
<1>2. << >> \in Seq(Keys)
  OBVIOUS
<1>3. [t \in Thread |-> << >>] \in [Thread -> Seq(Keys)]
  BY <1>2, Zenon
<1>4. QED
  BY <1>1, <1>3 DEF Control

(***************************************************************************)
(* Type correctness of actionPerformed's state: in particular _last_value  *)
(* is never 0, whatever calls overlap, so a brightness of 0 never counts   *)
(* as a selection, and only keys of the table reach the serial line.       *)
(***************************************************************************)
THEOREM TypeCorrect == Spec => []TypeOK
<1> USE BrightnessAssumption, KeysAssumption
<1>1. Init => TypeOK
  <2> SUFFICES ASSUME Init PROVE TypeOK
    OBVIOUS
  <2>1. /\ pc \in [Thread -> Control]
        /\ arg \in [Thread -> [state : BOOLEAN, value : Brightness \cup {0}]]
        /\ todo \in [Thread -> Seq(Keys)]
        /\ \A t \in Thread : pc[t] # "remember"
    BY NoCallsType DEF Init
  <2>2. wire \in Seq(Keys) /\ lastValue \in 1 .. 255
    BY DEF Init
  <2>3. lastState \in BOOLEAN /\ tvOn \in BOOLEAN /\ drift \in BOOLEAN
    BY DEF Init
  <2>4. QED
    BY <2>1, <2>2, <2>3 DEF TypeOK
<1>2. TypeOK /\ [Next]_vars => TypeOK'
  <2> SUFFICES ASSUME TypeOK, [Next]_vars PROVE TypeOK'
    OBVIOUS
  <2> USE DEF TypeOK, Control, memory, tv, Goto
  <2>1. ASSUME NEW t \in Thread, NEW name \in DeviceName, NEW state \in BOOLEAN,
               NEW value \in Brightness, Call(t, name, state, value)
        PROVE  TypeOK'
    BY <2>1 DEF Call
  <2>2. ASSUME NEW t \in Thread, Compare(t) PROVE TypeOK'
    BY <2>2 DEF Compare
  <2>3. ASSUME NEW t \in Thread, Toggle(t) PROVE TypeOK'
    <3>1. wire' \in Seq(Keys)
      BY <2>3 DEF Toggle, sendBytes
    <3>2. tvOn' \in BOOLEAN /\ drift' \in BOOLEAN
      BY <2>3 DEF Toggle, TvPowerKey
    <3>3. QED
      BY <2>3, <3>1, <3>2 DEF Toggle
  <2>4. ASSUME NEW t \in Thread, Store(t) PROVE TypeOK'
    BY <2>4 DEF Store
  <2>5. ASSUME NEW t \in Thread, Select(t) PROVE TypeOK'
    BY <2>5 DEF Select
  <2>6. ASSUME NEW t \in Thread, Remember(t) PROVE TypeOK'
    <3>a. arg[t].value \in Brightness \ {0}
      BY <2>6 DEF Remember
    <3>1. KeysOf[arg[t].value] \in Seq(Keys)
      BY <3>a
    <3>b. lastValue' = arg[t].value
      BY <2>6 DEF Remember
    <3>2. lastValue' \in 1 .. 255
      BY <3>a, <3>b, BrightnessIsPositive
    <3>3. todo' \in [Thread -> Seq(Keys)]
      BY <2>6, <3>1 DEF Remember
    <3>4. pc' \in [Thread -> Control]
      BY <2>6 DEF Remember
    <3>5. ASSUME NEW s \in Thread, pc'[s] = "remember"
          PROVE  arg'[s].value \in Brightness \ {0}
      BY <2>6, <3>5 DEF Remember
    <3>6. UNCHANGED << lastState, wire, arg, tvOn, drift >>
      BY <2>6 DEF Remember
    <3>7. QED
      BY <3>2, <3>3, <3>4, <3>5, <3>6
  <2>7. ASSUME NEW t \in Thread, Dial(t) PROVE TypeOK'
    <3>1. Head(todo[t]) \in Keys /\ Tail(todo[t]) \in Seq(Keys)
      BY <2>7, HeadTailProperties DEF Dial
    <3>2. wire' \in Seq(Keys)
      BY <2>7, <3>1 DEF Dial, sendBytes
    <3>3. QED
      BY <2>7, <3>1, <3>2 DEF Dial
  <2>8. ASSUME NEW t \in Thread, Return(t) PROVE TypeOK'
    BY <2>8 DEF Return
  <2>9. CASE Restart
    <3>1. /\ pc' \in [Thread -> Control]
          /\ arg' \in [Thread -> [state : BOOLEAN, value : Brightness \cup {0}]]
          /\ todo' \in [Thread -> Seq(Keys)]
          /\ \A t \in Thread : pc'[t] # "remember"
      BY <2>9, NoCallsType DEF Restart
    <3>2. wire' \in Seq(Keys) /\ lastValue' \in 1 .. 255
      BY <2>9 DEF Restart
    <3>3. lastState' \in BOOLEAN /\ tvOn' \in BOOLEAN /\ drift' \in BOOLEAN
      BY <2>9 DEF Restart
    <3>4. QED
      BY <3>1, <3>2, <3>3
  <2>10. CASE ManualPower
    BY <2>10 DEF ManualPower
  <2>11. CASE UNCHANGED vars
    BY <2>11 DEF vars
  <2>12. QED
    BY <2>1, <2>2, <2>3, <2>4, <2>5, <2>6, <2>7, <2>8, <2>9, <2>10, <2>11
       DEF Next, Step
<1>3. QED
  BY <1>1, <1>2, PTL DEF Spec

-----------------------------------------------------------------------------
(***************************************************************************)
(* The strengthening that is inductive while toggles stay apart.  A thread *)
(* about to toggle still wants a state other than _last_state; between its *)
(* toggle and its store the television is one switch ahead.                *)
(***************************************************************************)
Ahead == \E t \in Thread : pc[t] = "store"

InStep ==
  /\ \A t \in Thread : Toggling(t) => arg[t].state # lastState
  /\ (tvOn # lastState) <=> IF Ahead THEN ~drift ELSE drift

LEMMA InStepInductive ==
  ASSUME TypeOK, TypeOK', TogglesApart, TogglesApart', InStep, [Next]_vars
  PROVE  InStep'
<1> USE BrightnessAssumption, KeysAssumption
<1> USE DEF TypeOK, InStep, Ahead, TogglesApart, Toggling, memory, tv, Goto
<1>1. ASSUME NEW t \in Thread, NEW name \in DeviceName, NEW state \in BOOLEAN,
             NEW value \in Brightness, Call(t, name, state, value)
      PROVE  InStep'
  BY <1>1 DEF Call
<1>2. ASSUME NEW t \in Thread, Compare(t) PROVE InStep'
  BY <1>2 DEF Compare
<1>3. ASSUME NEW t \in Thread, Toggle(t) PROVE InStep'
  <2>1. ~Ahead /\ Ahead'
    BY <1>3 DEF Toggle
  <2>2. ((tvOn # lastState) <=> drift) /\ lastState' = lastState
    BY <2>1, <1>3 DEF Toggle
  <2>3. (tvOn # lastState)' <=> ~drift'
    BY <2>2, <1>3 DEF Toggle, TvPowerKey
  <2>4. QED
    BY <1>3, <2>1, <2>3 DEF Toggle
<1>4. ASSUME NEW t \in Thread, Store(t) PROVE InStep'
  BY <1>4 DEF Store
<1>5. ASSUME NEW t \in Thread, Select(t) PROVE InStep'
  BY <1>5 DEF Select
<1>6. ASSUME NEW t \in Thread, Remember(t) PROVE InStep'
  BY <1>6 DEF Remember
<1>7. ASSUME NEW t \in Thread, Dial(t) PROVE InStep'
  BY <1>7 DEF Dial
<1>8. ASSUME NEW t \in Thread, Return(t) PROVE InStep'
  BY <1>8 DEF Return
<1>9. CASE Restart
  <2>1. \A t \in Thread : pc'[t] = "idle"
    BY <1>9, NoCallsType DEF Restart
  <2>2. ~Ahead'
    BY <2>1
  <2>3. (tvOn # lastState)' <=> drift'
    BY <1>9, Zenon DEF Restart
  <2>4. QED
    BY <2>1, <2>2, <2>3
<1>10. CASE ManualPower
  <2>1. UNCHANGED << Ahead, lastState, pc, arg >>
    BY <1>10 DEF ManualPower
  <2>2. (tvOn # lastState)' <=> ~(tvOn # lastState)
    BY <1>10 DEF ManualPower
  <2>3. drift' <=> ~drift
    BY <1>10 DEF ManualPower
  <2>4. QED
    BY <2>1, <2>2, <2>3
<1>11. CASE UNCHANGED vars
  BY <1>11 DEF vars
<1> HIDE DEF InStep, TypeOK, TogglesApart
<1>12. QED
  BY Zenon, <1>1, <1>2, <1>3, <1>4, <1>5, <1>6, <1>7, <1>8, <1>9, <1>10, <1>11
     DEF Next, Step

LEMMA InStepInitial == Init => InStep
<1> SUFFICES ASSUME Init PROVE InStep
  OBVIOUS
<1>1. \A t \in Thread : pc[t] = "idle"
  BY NoCallsType DEF Init
<1>2. ~Ahead /\ (\A t \in Thread : ~Toggling(t))
  BY <1>1 DEF Ahead, Toggling
<1>3. (tvOn # lastState) <=> drift
  BY DEF Init
<1>4. QED
  BY <1>2, <1>3 DEF InStep

LEMMA InStepTracks == InStep => PowerTracksState
BY DEF InStep, Ahead, PowerTracksState, Quiet

(***************************************************************************)
(* The race on _last_state is the only one that matters to the television: *)
(* for any number of connections, unless two threads overlap between       *)
(* deciding to toggle and storing the new state, the television is in step *)
(* with _last_state whenever no call is in progress.                       *)
(***************************************************************************)
THEOREM OverlapIsTheOnlyRace == Spec => OnlyOverlapDesynchronises
<1>1. Init => InStep
  BY InStepInitial
<1>2. TypeOK /\ TypeOK' /\ TogglesApart /\ TogglesApart' /\ InStep /\ [Next]_vars
        => InStep'
  BY InStepInductive
<1>3. InStep => PowerTracksState
  BY InStepTracks
<1>4. Spec => []TypeOK
  BY TypeCorrect
<1>5. QED
  BY <1>1, <1>2, <1>3, <1>4, PTL DEF Spec, OnlyOverlapDesynchronises
=============================================================================
