--------------------- MODULE RemoteControlSerialProofs ---------------------
(***************************************************************************)
(* Theorems about RemoteControl with one caller at a time: the race is     *)
(* gone, and actionPerformed implements TvCommands, for any brightnesses   *)
(* and any key table.                                                      *)
(***************************************************************************)
EXTENDS RemoteControlSerial, RemoteControlProofs

(***************************************************************************)
(* With one caller the television is in step with _last_state whenever no  *)
(* call is in progress, whatever the requests, restarts and missed frames. *)
(***************************************************************************)
THEOREM SerialCallsTrackPower == Spec => []PowerTracksState
<1>1. TogglesApart
  BY OneCaller DEF TogglesApart
<1>2. QED
  BY <1>1, OverlapIsTheOnlyRace, PTL DEF OnlyOverlapDesynchronises

-----------------------------------------------------------------------------
LEMMA Prefixed ==
  ASSUME NEW k \in Keys, NEW s \in Seq(Keys)
  PROVE  /\ << k >> \o s # << >>
         /\ Head(<< k >> \o s) = k
         /\ Tail(<< k >> \o s) = s
<1> DEFINE whole == << k >> \o s
<1>1. << k >> \in Seq(Keys) /\ Len(<< k >>) = 1
  OBVIOUS
<1>2. /\ whole \in Seq(Keys)
      /\ Len(whole) = 1 + Len(s)
      /\ \A i \in 1 .. 1 + Len(s) : whole[i] = IF i <= 1 THEN << k >>[i] ELSE s[i - 1]
  BY <1>1, ConcatProperties
<1>3. Len(s) \in Nat
  OBVIOUS
<1> HIDE DEF whole
<1>4. whole # << >> /\ Head(whole) = k
  BY <1>2, <1>3
<1>5. /\ Tail(whole) \in Seq(Keys)
      /\ Len(Tail(whole)) = Len(s)
      /\ \A i \in 1 .. Len(s) : Tail(whole)[i] = whole[i + 1]
  BY <1>2, <1>3, <1>4, HeadTailProperties
<1>6. \A i \in 1 .. Len(s) : whole[i + 1] = s[i]
  BY <1>2, <1>3
<1>7. Tail(whole) = s
  BY <1>5, <1>6, SeqEqual
<1>8. QED
  BY <1>4, <1>7 DEF whole

LEMMA SelectionType ==
  ASSUME TypeOK
  PROVE  Selection \in Seq(Keys)
BY OneCaller, KeysAssumption, BrightnessIsPositive DEF TypeOK, Selection, Requested

-----------------------------------------------------------------------------
LEMMA CommandsInit == Init => Commands!Init
<1> SUFFICES ASSUME Init PROVE Commands!Init
  OBVIOUS
<1>1. pc[Caller] = "idle"
  BY NoCallsType, OneCaller DEF Init
<1>2. lastState = FALSE /\ lastValue = 255 /\ wire = << >>
  BY DEF Init
<1>3. QED
  BY <1>1, <1>2 DEF Commands!Init, Pending, FinalState, FinalValue

(***************************************************************************)
(* Every step of actionPerformed is a step of TvCommands or changes        *)
(* nothing the caller can tell.                                            *)
(***************************************************************************)
LEMMA CommandsStep ==
  ASSUME TypeOK, TypeOK', [Next]_vars
  PROVE  [Commands!Next]_(Commands!vars)
<1> USE OneCaller, KeysAssumption
<1> USE DEF Commands!vars, Pending, FinalState, FinalValue, Selection, Requested,
            Goto, memory, tv
<1>t. /\ pc \in [Thread -> Control] /\ Caller \in Thread
      /\ arg \in [Thread -> [state : BOOLEAN, value : Brightness \cup {0}]]
      /\ todo \in [Thread -> Seq(Keys)]
  BY DEF TypeOK
<1>1. ASSUME NEW name \in DeviceName, NEW state \in BOOLEAN,
             NEW value \in Brightness, Call(Caller, name, state, value)
      PROVE  [Commands!Next]_(Commands!vars)
  <2>1. CASE name # "fernseher"
    <3>1. pc[Caller] = "idle" /\ pc'[Caller] = "idle"
      BY <1>1, <1>t, <2>1 DEF Call
    <3>2. UNCHANGED Commands!vars
      BY <1>1, <3>1 DEF Call
    <3>3. QED
      BY <3>2
  <2>2. CASE name = "fernseher"
    <3>1. /\ pc[Caller] = "idle" /\ pc'[Caller] = "compare"
          /\ arg'[Caller].state = state /\ arg'[Caller].value = value
          /\ UNCHANGED << lastState, lastValue, wire >>
      BY <1>1, <1>t, <2>2 DEF Call
    <3>2. Commands!Perform(state, value)
      BY <3>1 DEF Commands!Perform, Commands!Command
    <3>3. QED
      BY <3>2 DEF Commands!Next
  <2>3. QED
    BY <2>1, <2>2
<1>2. CASE Compare(Caller)
  <2>1. CASE arg[Caller].state # lastState
    <3>1. /\ pc[Caller] = "compare" /\ pc'[Caller] = "toggle"
          /\ UNCHANGED << lastState, lastValue, wire, arg >>
      BY <1>2, <1>t, <2>1 DEF Compare
    <3>2. QED
      BY <2>1, <3>1
  <2>2. CASE arg[Caller].state = lastState
    <3>1. /\ pc[Caller] = "compare" /\ pc'[Caller] = "select"
          /\ UNCHANGED << lastState, lastValue, wire, arg >>
      BY <1>2, <1>t, <2>2 DEF Compare
    <3>2. << >> \o Selection = Selection
      BY SelectionType, ConcatEmptySeq
    <3>3. QED
      BY <2>2, <3>1, <3>2
  <2>3. QED
    BY <2>1, <2>2
<1>3. CASE Toggle(Caller)
  <2>1. /\ pc[Caller] = "toggle" /\ pc'[Caller] = "store"
        /\ wire' = Append(wire, "on/off")
        /\ UNCHANGED << lastState, lastValue, arg >>
    BY <1>3, <1>t DEF Toggle, sendBytes
  <2>2. Pending = << "on/off" >> \o Selection /\ Pending' = Selection
    BY <2>1
  <2>3. Pending # << >> /\ Head(Pending) = "on/off" /\ Pending' = Tail(Pending)
    BY <2>2, SelectionType, Prefixed
  <2>4. UNCHANGED << FinalState, FinalValue >>
    BY <2>1
  <2>5. Commands!Transmit
    BY <2>1, <2>3, <2>4 DEF Commands!Transmit
  <2>6. QED
    BY <2>5 DEF Commands!Next
<1>4. CASE Store(Caller)
  <2>1. /\ pc[Caller] = "store" /\ pc'[Caller] = "select"
        /\ lastState' = arg[Caller].state
        /\ UNCHANGED << lastValue, wire, arg >>
    BY <1>4, <1>t DEF Store
  <2>2. QED
    BY <2>1
<1>5. CASE Select(Caller)
  <2>1. /\ pc[Caller] = "select"
        /\ pc'[Caller] = IF Requested > 0 /\ Requested # lastValue
                         THEN "remember" ELSE "idle"
        /\ UNCHANGED << lastState, lastValue, wire, arg >>
    BY <1>5, <1>t DEF Select
  <2>2. QED
    BY <2>1
<1>6. CASE Remember(Caller)
  <2>1. /\ pc[Caller] = "remember" /\ pc'[Caller] = "dial"
        /\ lastValue' = Requested /\ todo'[Caller] = KeysOf[Requested]
        /\ UNCHANGED << lastState, wire, arg >>
    BY <1>6, <1>t DEF Remember
  <2>r. Requested \in Brightness \ {0}
    BY <2>1, <1>t DEF TypeOK
  <2>2. Requested > 0
    BY <2>r, BrightnessIsPositive
  <2>3. QED
    BY <2>1, <2>2
<1>7. CASE Dial(Caller)
  <2>1. /\ pc[Caller] = "dial" /\ pc'[Caller] = "dial"
        /\ todo[Caller] # << >> /\ todo'[Caller] = Tail(todo[Caller])
        /\ UNCHANGED << lastState, lastValue, arg >>
    BY <1>7, <1>t DEF Dial
  <2>2. wire' = Append(wire, Head(todo[Caller]))
    BY <1>7, <1>t, <2>1, HeadTailProperties DEF Dial, sendBytes
  <2>3. Commands!Transmit
    BY <2>1, <2>2 DEF Commands!Transmit
  <2>4. QED
    BY <2>3 DEF Commands!Next
<1>8. CASE Return(Caller)
  <2>1. /\ pc[Caller] = "dial" /\ pc'[Caller] = "idle" /\ todo[Caller] = << >>
        /\ UNCHANGED << lastState, lastValue, wire, arg >>
    BY <1>8, <1>t DEF Return
  <2>2. QED
    BY <2>1
<1>9. CASE Restart
  <2>1. /\ pc'[Caller] = "idle" /\ lastState' = FALSE /\ lastValue' = 255
        /\ wire' = wire
    BY <1>9, NoCallsType DEF Restart
  <2>2. Commands!Restart
    BY <2>1 DEF Commands!Restart
  <2>3. QED
    BY <2>2 DEF Commands!Next
<1>10. CASE ManualPower
  BY <1>10 DEF ManualPower
<1>11. CASE UNCHANGED vars
  BY <1>11 DEF vars
<1>12. QED
  BY Zenon, <1>1, <1>2, <1>3, <1>4, <1>5, <1>6, <1>7, <1>8, <1>9, <1>10, <1>11
     DEF Next, Step

(***************************************************************************)
(* Refinement: the keys of the requests go out whole and in order.         *)
(***************************************************************************)
THEOREM SerialImplementsCommands == Spec => CommandsInOrder
<1>1. Spec => []TypeOK
  BY TypeCorrect
<1>2. QED
  BY <1>1, CommandsInit, CommandsStep, PTL DEF Spec, CommandsInOrder, Commands!Spec
=============================================================================
