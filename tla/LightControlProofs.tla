------------------------- MODULE LightControlProofs -------------------------
(***************************************************************************)
(* Theorems about LightControl, for any number of connections and any      *)
(* requests.                                                               *)
(***************************************************************************)
EXTENDS LightControl, RemoteControlProofs

(***************************************************************************)
(* What the accesses to _devices do.                                       *)
(***************************************************************************)
LEMMA WriteDeviceChanges ==
  ASSUME NEW t \in Thread, devices \in Seq(LightDevice),
         NEW field \in Argument, NEW x \in [state |-> BOOLEAN, value |-> Brightness][field],
         WriteDevice(t, field, x)
  PROVE  /\ devices' \in Seq(LightDevice)
         /\ Len(devices') = Len(devices)
         /\ Found(t) \/ ~Exists(t) =>
              \A i \in DOMAIN devices :
                devices'[i] = IF i = Place(t) THEN [devices[i] EXCEPT ![field] = x]
                              ELSE devices[i]
<1>1. CASE devices' = devices /\ ~Found(t)
  BY <1>1 DEF Exists
<1>2. CASE Exists(t) /\ devices' = [devices EXCEPT ![Place(t)] =
                                      [devices[Place(t)] EXCEPT ![field] = x]]
  <2>1. Place(t) \in 1 .. Len(devices) /\ devices[Place(t)] \in LightDevice
    BY <1>2 DEF Exists
  <2>2. [devices[Place(t)] EXCEPT ![field] = x] \in LightDevice
    BY <2>1 DEF LightDevice, Argument
  <2>4. QED
    BY <2>1, <2>2, <1>2, ExceptSeq
<1>3. QED
  BY <1>1, <1>2 DEF WriteDevice

LEMMA ReadableType ==
  ASSUME NEW t \in Thread, devices \in Seq(LightDevice)
  PROVE  /\ Readable(t, "state") \subseteq BOOLEAN
         /\ Readable(t, "value") \subseteq Brightness
         /\ ReadableName(t) \subseteq DeviceName
<1>1. CASE ~Found(t)
  BY <1>1 DEF Readable, ReadableName
<1>2. CASE Found(t)
  <2>1. devices[Place(t)] \in LightDevice
    BY <1>2 DEF Found, Exists
  <2>2. QED
    BY <1>2, <2>1 DEF Readable, ReadableName, LightDevice
<1>3. QED
  BY <1>1, <1>2

LEMMA NoHandlersType ==
  /\ NoHandlers.hpc \in [Thread -> HandlerControl]
  /\ NoHandlers.req \in [Thread -> Request]
  /\ NoHandlers.unread \in [Thread -> SUBSET Argument]
  /\ NoHandlers.args \in [Thread -> [state : BOOLEAN, value : Brightness]]
  /\ \A t \in Thread : NoHandlers.hpc[t] = "idle"
<1>1. /\ NoHandlers.hpc = [t \in Thread |-> "idle"]
      /\ NoHandlers.req = [t \in Thread |-> NoRequest]
      /\ NoHandlers.unread = [t \in Thread |-> {}]
      /\ NoHandlers.args = [t \in Thread |-> [state |-> FALSE, value |-> 0]]
  BY DEF NoHandlers
<1>2. NoRequest \in Request
  BY DEF NoRequest, Request, Kinds, Ends
<1>3. [state |-> FALSE, value |-> 0] \in [state : BOOLEAN, value : Brightness]
  BY LightAssumption
<1>4. QED
  BY <1>1, <1>2, <1>3 DEF HandlerControl

-----------------------------------------------------------------------------
(***************************************************************************)
(* Type correctness, by the parts of the state an action changes.          *)
(***************************************************************************)
LEMMA LightTypeInit == LightInit => LightTypeOK
<1> SUFFICES ASSUME LightInit PROVE LightTypeOK
  OBVIOUS
<1>1. HandlerTypeOK
  BY NoHandlersType DEF LightInit, HandlerTypeOK
<1>2. << >> \in Seq(LightDevice) /\ Len(<< >>) = 0 /\ Len(Installed) \in Nat
  BY LightAssumption
<1>3. /\ main = "start" /\ enabled = FALSE /\ fault = "none"
      /\ devices = << >> /\ Len(devices) <= Len(Installed)
      /\ stale = {} /\ strayed = FALSE
  BY <1>2 DEF LightInit
<1>5. ProgramTypeOK
  BY <1>2, <1>3 DEF ProgramTypeOK
<1>4. QED
  BY <1>1, <1>5 DEF LightTypeOK

LEMMA DieType ==
  ASSUME LightTypeOK, NEW cause \in {"interrupt", "index", "storage",
                                     "overrun", "exception", "division",
                                     "signal", "serial"},
         Die(cause)
  PROVE  LightTypeOK'
<1>1. HandlerTypeOK'
  BY NoHandlersType DEF Die, HandlerTypeOK
<1>2. ProgramTypeOK'
  BY DEF Die, LightTypeOK, ProgramTypeOK
<1>3. QED
  BY <1>1, <1>2 DEF LightTypeOK

LEMMA HandleType ==
  ASSUME LightTypeOK, NEW t \in Thread, Handle(t)
  PROVE  LightTypeOK'
<1> USE DEF LightTypeOK, HandlerControl, Accessing, HandlerGoto, handler, program,
            storage, light, Access
<1>1. CASE Ignore(t) \/ Register(t) \/ Finish(t)
  <2>1. HandlerReturn(t)
    BY <1>1 DEF Ignore, Register, Finish
  <2>2. NoHandlers.args[t] \in [state : BOOLEAN, value : Brightness]
    BY NoHandlersType
  <2>3. NoRequest \in Request
    BY DEF NoRequest, Request, Kinds, Ends
  <2>4. HandlerTypeOK'
    BY <2>1, <2>2, <2>3 DEF HandlerReturn, HandlerTypeOK
  <2>5. ProgramTypeOK'
    BY <2>1 DEF HandlerReturn, ProgramTypeOK
  <2>6. QED
    BY <2>4, <2>5
<1>2. CASE Dispatch(t)
  BY <1>2 DEF Dispatch, ProgramTypeOK, HandlerTypeOK
<1>3. CASE WriteValue(t)
  <2>1. /\ req[t] \in Requests[t] /\ req[t].kind = "bri"
        /\ WriteDevice(t, "value", UChar(req[t].number))
    BY <1>3 DEF WriteValue, HandlerTypeOK
  <2>2. UChar(req[t].number) \in Brightness
    BY <2>1, LightAssumption
  <2>3. devices' \in Seq(LightDevice) /\ Len(devices') = Len(devices)
    BY <2>1, <2>2, WriteDeviceChanges DEF ProgramTypeOK, Argument
  <2>4. devices # << >>
    BY <2>1 DEF WriteDevice
  <2>5. ProgramTypeOK'
    BY <1>3, <2>3, <2>4 DEF WriteValue, WriteDevice, ProgramTypeOK
  <2>6. HandlerTypeOK'
    BY <1>3 DEF WriteValue, HandlerTypeOK
  <2>7. QED
    BY <2>5, <2>6
<1>4. CASE WriteState(t)
  <2>1. WriteDevice(t, "state", Wanted(req[t]))
    BY <1>4 DEF WriteState
  <2>2. Wanted(req[t]) \in BOOLEAN
    BY DEF Wanted
  <2>3. devices' \in Seq(LightDevice) /\ Len(devices') = Len(devices)
    BY <2>1, <2>2, WriteDeviceChanges DEF ProgramTypeOK, Argument
  <2>4. devices # << >>
    BY <2>1 DEF WriteDevice
  <2>5. ProgramTypeOK'
    BY <1>4, <2>3, <2>4 DEF WriteState, WriteDevice, ProgramTypeOK
  <2>6. HandlerTypeOK'
    BY <1>4 DEF WriteState, HandlerTypeOK
  <2>7. QED
    BY <2>5, <2>6
<1>5. CASE WriteColour(t)
  BY <1>5 DEF WriteColour, ProgramTypeOK, HandlerTypeOK
<1>6. CASE CheckValue(t)
  BY <1>6 DEF CheckValue, ProgramTypeOK, HandlerTypeOK
<1>7. CASE FillValue(t)
  <2>1. WriteDevice(t, "value", 255) /\ 255 \in Brightness
    BY <1>7, LightAssumption DEF FillValue
  <2>3. devices' \in Seq(LightDevice) /\ Len(devices') = Len(devices)
    BY <2>1, WriteDeviceChanges DEF ProgramTypeOK, Argument
  <2>4. devices # << >>
    BY <2>1 DEF WriteDevice
  <2>5. ProgramTypeOK'
    BY <1>7, <2>3, <2>4 DEF FillValue, WriteDevice, ProgramTypeOK
  <2>6. HandlerTypeOK'
    BY <1>7 DEF FillValue, HandlerTypeOK
  <2>7. QED
    BY <2>5, <2>6
<1>8. CASE Reply(t)
  BY <1>8 DEF Reply, ProgramTypeOK, HandlerTypeOK, Argument
<1>9. ASSUME NEW field \in Argument, ReadArgument(t, field)
      PROVE  LightTypeOK'
  <2>1. PICK x \in Readable(t, field) : args' = [args EXCEPT ![t][field] = x]
    BY <1>9 DEF ReadArgument
  <2>2. [args[t] EXCEPT ![field] = x] \in [state : BOOLEAN, value : Brightness]
    BY <2>1, ReadableType DEF ProgramTypeOK, HandlerTypeOK, Argument
  <2>3. args' \in [Thread -> [state : BOOLEAN, value : Brightness]]
    BY <2>1, <2>2 DEF HandlerTypeOK
  <2>4. HandlerTypeOK'
    BY <1>9, <2>3 DEF ReadArgument, HandlerTypeOK
  <2>5. ProgramTypeOK'
    BY <1>9 DEF ReadArgument, ProgramTypeOK
  <2>6. QED
    BY <2>4, <2>5
<1>10. CASE CallBack(t)
  BY <1>10 DEF CallBack, ProgramTypeOK, HandlerTypeOK
<1>11. CASE ActionPerformed(t)
  BY <1>11 DEF ActionPerformed, ProgramTypeOK, HandlerTypeOK
<1>12. CASE Failure(t)
  BY <1>12, DieType
     DEF Failure, BadIndex, FreedStorage, Overrun, CutShort, ZeroTemperature,
         PeerGone, SerialFails
<1>13. QED
  BY Zenon, <1>1, <1>2, <1>3, <1>4, <1>5, <1>6, <1>7, <1>8, <1>9, <1>10, <1>11, <1>12
     DEF Handle

LEMMA LightTypeStep == LightTypeOK /\ [LightNext]_lightVars => LightTypeOK'
<1> SUFFICES ASSUME LightTypeOK, [LightNext]_lightVars PROVE LightTypeOK'
  OBVIOUS
<1> USE DEF LightTypeOK, handler, program, storage, light
<1>1. CASE Enable
  <2>1. devices = << >> /\ Len(devices) = 0 /\ Len(Installed) \in Nat \ {0}
    BY <1>1, LightAssumption DEF Enable, ProgramTypeOK
  <2>2. QED
    BY <1>1, <2>1 DEF Enable, ProgramTypeOK, HandlerTypeOK
<1>2. CASE AddDevice
  <2>1. /\ Len(devices) \in Nat /\ Len(Installed) \in Nat
        /\ Len(devices) + 1 \in 1 .. Len(Installed)
    BY <1>2, LightAssumption DEF AddDevice, ProgramTypeOK
  <2>2. Installed[Len(devices) + 1] \in DeviceName
    BY <2>1, LightAssumption
  <2>3. [name |-> Installed[Len(devices) + 1], state |-> FALSE, value |-> 0]
          \in LightDevice
    BY <2>2, LightAssumption DEF LightDevice
  <2>4. devices' \in Seq(LightDevice) /\ Len(devices') = Len(devices) + 1
    BY <1>2, <2>3 DEF AddDevice, ProgramTypeOK
  <2>5. ProgramTypeOK'
    BY <1>2, <2>1, <2>4 DEF AddDevice, ProgramTypeOK
  <2>6. HandlerTypeOK'
    BY <1>2 DEF AddDevice, HandlerTypeOK
  <2>7. QED
    BY <2>5, <2>6
<1>3. CASE SetEnabled
  BY <1>3 DEF SetEnabled, ProgramTypeOK, HandlerTypeOK
<1>4. CASE Interrupt
  BY <1>4, DieType DEF Interrupt
<1>5. CASE StartAgain
  <2>1. << >> \in Seq(LightDevice) /\ Len(<< >>) = 0 /\ Len(Installed) \in Nat
    BY LightAssumption
  <2>5. /\ main' = "start" /\ enabled' = FALSE /\ fault' = "none"
        /\ devices' = << >> /\ Len(devices') <= Len(Installed)
        /\ stale' \subseteq Thread /\ strayed' = FALSE
    BY <1>5, <2>1 DEF StartAgain, ProgramTypeOK
  <2>2. ProgramTypeOK'
    BY <2>1, <2>5 DEF ProgramTypeOK
  <2>3. HandlerTypeOK'
    BY <1>5 DEF StartAgain, HandlerTypeOK
  <2>4. QED
    BY <2>2, <2>3
<1>6. CASE ManualPower /\ UNCHANGED light
  BY <1>6 DEF ProgramTypeOK, HandlerTypeOK
<1>7. ASSUME NEW t \in Thread, NEW request \in Requests[t], Receive(t, request)
      PROVE  LightTypeOK'
  <2>1. request \in Request
    BY LightAssumption
  <2>2. HandlerTypeOK'
    BY <1>7, <2>1 DEF Receive, HandlerTypeOK, HandlerGoto, HandlerControl
  <2>3. ProgramTypeOK'
    BY <1>7 DEF Receive, ProgramTypeOK
  <2>4. QED
    BY <2>2, <2>3
<1>8. ASSUME NEW t \in Thread, Handle(t) PROVE LightTypeOK'
  BY <1>8, HandleType
<1>9. CASE UNCHANGED lightVars
  BY <1>9 DEF lightVars, ProgramTypeOK, HandlerTypeOK
<1>10. CASE MoveDevices
  BY <1>10 DEF MoveDevices, ProgramTypeOK, HandlerTypeOK
<1> HIDE DEF LightTypeOK
<1>11. QED
  BY Zenon, <1>1, <1>2, <1>3, <1>4, <1>5, <1>6, <1>7, <1>8, <1>9, <1>10 DEF LightNext

(***************************************************************************)
(* The handlers never store a value in _devices, or pass one to the remote *)
(* control, that is not a brightness, even when they are given an index    *)
(* out of range.                                                           *)
(***************************************************************************)
THEOREM LightTypeCorrect == LightSpec => []LightTypeOK
BY LightTypeInit, LightTypeStep, PTL DEF LightSpec

-----------------------------------------------------------------------------
LEMMA LightStepsRemoteControl ==
  LightTypeOK /\ [LightNext]_lightVars => [Next]_vars
<1> SUFFICES ASSUME LightTypeOK, [LightNext]_lightVars PROVE [Next]_vars
  OBVIOUS
<1>1. CASE UNCHANGED vars
  BY <1>1
<1>2. CASE Interrupt \/ (\E t \in Thread : Failure(t))
  <2>1. Restart
    BY <1>2 DEF Interrupt, Failure, BadIndex, FreedStorage, Overrun, CutShort, ZeroTemperature,
                PeerGone, SerialFails, Die
  <2>2. QED
    BY <2>1 DEF Next
<1>3. ASSUME NEW t \in Thread, CallBack(t) PROVE [Next]_vars
  <2>1. PICK name \in ReadableName(t) :
          Call(t, name, args[t].state, args[t].value)
    BY <1>3 DEF CallBack
  <2>3. name \in DeviceName
    BY <2>1, ReadableType DEF LightTypeOK, ProgramTypeOK
  <2>4. args[t].state \in BOOLEAN /\ args[t].value \in Brightness
    BY DEF LightTypeOK, HandlerTypeOK
  <2>5. QED
    BY <2>1, <2>3, <2>4 DEF Next
<1>4. ASSUME NEW t \in Thread, ActionPerformed(t) PROVE [Next]_vars
  BY <1>4 DEF ActionPerformed, Next
<1>5. CASE ManualPower
  BY <1>5 DEF Next
<1>6. Enable \/ MoveDevices \/ AddDevice \/ SetEnabled \/ StartAgain => UNCHANGED vars
  BY DEF Enable, MoveDevices, AddDevice, SetEnabled, StartAgain
<1>7. ASSUME NEW t \in Thread
      PROVE  /\ Ignore(t) \/ Dispatch(t) \/ Register(t) \/ WriteValue(t) \/ WriteState(t)
                  \/ WriteColour(t) \/ CheckValue(t) \/ FillValue(t) \/ Reply(t)
                  \/ Finish(t)
                => UNCHANGED vars
             /\ \A field \in Argument : ReadArgument(t, field) => UNCHANGED vars
             /\ \A request \in Requests[t] : Receive(t, request) => UNCHANGED vars
  BY DEF Ignore, Dispatch, Register, WriteValue, WriteState, WriteColour,
         CheckValue, FillValue, Reply, Finish, ReadArgument, Receive, HandlerReturn
<1>8. UNCHANGED lightVars => UNCHANGED vars
  BY DEF lightVars
<1>9. QED
  BY Zenon, <1>1, <1>2, <1>3, <1>4, <1>5, <1>6, <1>7, <1>8 DEF LightNext, Handle

LEMMA LightsUseRemoteControl == LightSpec => Spec
<1>1. LightInit => Init
  BY DEF LightInit
<1>2. QED
  BY <1>1, LightStepsRemoteControl, LightTypeCorrect, PTL DEF LightSpec, Spec

(***************************************************************************)
(* The race on _last_state is therefore the only one that can make the     *)
(* running program lose track of the television's power.                   *)
(***************************************************************************)
THEOREM LightsOnlyRaceIsOverlap == LightSpec => OnlyOverlapDesynchronises
BY LightsUseRemoteControl, OverlapIsTheOnlyRace, PTL
-----------------------------------------------------------------------------
(***************************************************************************)
(* With one connection, the program as a whole does what TvCommands        *)
(* promises.                                                               *)
(***************************************************************************)
Serial == INSTANCE RemoteControlSerialProofs WITH Caller <- CHOOSE t \in Thread : TRUE

LEMMA SameState ==
  /\ Serial!vars = vars
  /\ Serial!Init <=> Init
<1>1. /\ Serial!memory = memory /\ Serial!tv = tv
  BY DEF Serial!memory, memory, Serial!tv, tv
<1>2. Serial!vars = vars
  BY <1>1 DEF Serial!vars, vars
<1>3. Serial!NoCalls = NoCalls
  BY Zenon DEF Serial!NoCalls, NoCalls
<1>4. Serial!Init <=> Init
  BY Zenon, <1>3 DEF Serial!Init, Init
<1>5. QED
  BY <1>2, <1>4

LEMMA SameSteps ==
  ASSUME NEW t \in Thread
  PROVE  Serial!Step(t) <=> Step(t)
<1> USE DEF Serial!Goto, Goto, Serial!memory, memory, Serial!tv, tv
<1>1. Serial!TvPowerKey <=> TvPowerKey
  BY Zenon DEF Serial!TvPowerKey, TvPowerKey
<1>2. Serial!sendBytes("on/off") <=> sendBytes("on/off")
  BY Zenon DEF Serial!sendBytes, sendBytes
<1>3. Serial!Compare(t) <=> Compare(t)
  BY Zenon DEF Serial!Compare, Compare
<1>4. Serial!Toggle(t) <=> Toggle(t)
  BY Zenon, <1>1, <1>2 DEF Serial!Toggle, Toggle
<1>5. Serial!Store(t) <=> Store(t)
  BY Zenon DEF Serial!Store, Store
<1>6. Serial!Select(t) <=> Select(t)
  BY Zenon DEF Serial!Select, Select
<1>7. Serial!Remember(t) <=> Remember(t)
  BY Zenon DEF Serial!Remember, Remember
<1>8. Serial!Dial(t) <=> Dial(t)
  BY Zenon DEF Serial!Dial, Dial, Serial!sendBytes, sendBytes
<1>9. Serial!Return(t) <=> Return(t)
  BY Zenon DEF Serial!Return, Return
<1>10. QED
  BY Zenon, <1>3, <1>4, <1>5, <1>6, <1>7, <1>8, <1>9 DEF Serial!Step, Step

LEMMA SameNext == [Serial!Next]_(Serial!vars) <=> [Next]_vars
<1> USE DEF Serial!memory, memory, Serial!tv, tv
<1>1. ASSUME NEW t \in Thread, NEW name \in DeviceName, NEW state \in BOOLEAN,
             NEW value \in Brightness
      PROVE  Serial!Call(t, name, state, value) <=> Call(t, name, state, value)
  BY Zenon DEF Serial!Call, Call, Serial!Goto, Goto
<1>2. Serial!Restart <=> Restart
  BY Zenon DEF Serial!Restart, Restart, Serial!NoCalls, NoCalls
<1>3. Serial!ManualPower <=> ManualPower
  BY Zenon DEF Serial!ManualPower, ManualPower
<1>4. (UNCHANGED Serial!vars) <=> (UNCHANGED vars)
  BY Zenon DEF Serial!vars, vars
<1>5. Serial!Next <=> Next
  BY Zenon, <1>1, <1>2, <1>3, SameSteps DEF Serial!Next, Next
<1>6. QED
  BY <1>4, <1>5

(***************************************************************************)
(* With a single connection the calls the handler makes of the remote      *)
(* control (fauxmoLINUX.cpp:701, remote_control.cpp:372) never overlap.    *)
(* Whatever is requested, and across failures and restarts, the keys on    *)
(* the wire are those of the commands TvCommands performs, in order, and a *)
(* command once begun is sent whole unless the process ends.               *)
(***************************************************************************)
THEOREM OneConnectionSendsCommands ==
  ASSUME Thread # {}, \A s, t \in Thread : s = t
  PROVE  LightSpec => Serial!CommandsInOrder
<1>1. Thread = {CHOOSE t \in Thread : TRUE}
  OBVIOUS
<1>2. Serial!Spec => Serial!CommandsInOrder
  BY <1>1, MaxWireAssumption, KeysAssumption, BrightnessAssumption,
     Serial!SerialImplementsCommands
<1>3. Spec => Serial!Spec
  BY SameState, SameNext, PTL DEF Spec, Serial!Spec
<1>4. QED
  BY LightsUseRemoteControl, <1>2, <1>3, PTL

-----------------------------------------------------------------------------
(***************************************************************************)
(* The shared vector _devices: which interleavings of the handlers with    *)
(* main and with each other are harmless.                                  *)
(***************************************************************************)
(***************************************************************************)
(* Facts the proofs rest on.  A handler that is past its checks has an     *)
(* index above 0; one that is about to write a state it derived from a     *)
(* brightness has seen the device, unless something went astray; one that  *)
(* has written a state has seen a device; a process that is not serving    *)
(* handles nothing.                                                        *)
(***************************************************************************)
Checked(t) == PastChecks(t) => Place(t) # 0

Derived(t) ==
  hpc[t] = "state" /\ req[t].kind = "bri" /\ Place(t) \in DOMAIN Installed
    => Exists(t) \/ strayed

Seen(t) == PastChecks(t) /\ hpc[t] \notin {"value", "state"} => devices # << >>

Base ==
  /\ \A t \in Thread : Checked(t) /\ Derived(t) /\ Seen(t)
  /\ main \in {"start", "down"} => \A t \in Thread : hpc[t] = "idle"
  /\ fault # "none" => main = "down"

(***************************************************************************)
(* How a step of a handler changes what other handlers see.                *)
(***************************************************************************)
LEMMA DieIdles ==
  ASSUME NEW cause, Die(cause)
  PROVE  /\ \A t \in Thread : hpc'[t] = "idle"
         /\ main' = "down" /\ fault' = cause
         /\ UNCHANGED << devices, strayed >> /\ stale' = {}
BY NoHandlersType DEF Die

\* An access that does not go astray finds its device, or none is there.
LEMMA AccessFinds ==
  ASSUME LightTypeOK, NEW t \in Thread, Access(t), ~strayed'
  PROVE  /\ ~strayed
         /\ Found(t) \/ ~Exists(t)
         /\ Place(t) \in DOMAIN Installed => Exists(t)
<1>1. ~strayed /\ (Place(t) \in DOMAIN Installed => Found(t))
  BY DEF Access, LightTypeOK, ProgramTypeOK
<1>2. DOMAIN devices \subseteq DOMAIN Installed
  BY LightAssumption DEF LightTypeOK, ProgramTypeOK
<1>3. QED
  BY <1>1, <1>2 DEF Found, Exists

LEMMA BaseInit == LightInit => Base
BY NoHandlersType DEF LightInit, Base, Checked, PastChecks, Derived, Seen

LEMMA SameExists ==
  ASSUME NEW t \in Thread, Len(devices') = Len(devices), req' = req,
         devices \in Seq(LightDevice), devices' \in Seq(LightDevice)
  PROVE  Exists(t)' <=> Exists(t)
BY DEF Exists, Place

\* A handler that neither strays back nor is about to write a derived state.
LEMMA BaseKeeps ==
  ASSUME LightTypeOK, LightTypeOK', Base, NEW t \in Thread,
         main' = main, fault' = fault, strayed => strayed',
         Len(devices') = Len(devices),
         \A s \in Thread \ {t} : hpc'[s] = hpc[s] /\ req'[s] = req[s],
         hpc[t] # "idle", Checked(t)', Derived(t)', Seen(t)'
  PROVE  Base'
<1>1. \A s \in Thread \ {t} : Place(s)' = Place(s)
  BY DEF Place
<1>2. devices \in Seq(LightDevice) /\ devices' \in Seq(LightDevice)
  BY DEF LightTypeOK, ProgramTypeOK
<1>3. DOMAIN devices' = DOMAIN devices
  BY <1>2
<1>4. \A s \in Thread \ {t} : Checked(s)' /\ Derived(s)' /\ Seen(s)'
  <2>1. devices # << >> => devices' # << >>
    BY <1>2
  <2>2. QED
    BY <1>1, <1>3, <2>1 DEF Base, Checked, PastChecks, Derived, Exists, Seen
<1>5. main \notin {"start", "down"} /\ fault = "none"
  BY DEF Base
<1>6. QED
  BY <1>4, <1>5 DEF Base

LEMMA BaseHandle ==
  ASSUME LightTypeOK, Base, NEW t \in Thread, Handle(t)
  PROVE  Base'
<1>t. /\ hpc \in [Thread -> HandlerControl]
      /\ req \in [Thread -> Request]
      /\ devices \in Seq(LightDevice)
      /\ LightTypeOK'
  BY HandleType DEF LightTypeOK, HandlerTypeOK, ProgramTypeOK
<1>c. hpc[t] \notin {"idle", "dispatch", "register"} => Place(t) # 0
  BY DEF Base, Checked, PastChecks
<1>d. hpc[t] \notin {"idle", "dispatch", "register", "value", "state"} => devices # << >>
  BY DEF Base, Seen, PastChecks
<1> USE DEF Checked, PastChecks, Derived, Seen, HandlerGoto, program, storage, light, Access
<1>p. req'[t] = req[t] => Place(t)' = Place(t)
  BY DEF Place
<1>1. CASE Ignore(t) \/ Register(t) \/ Finish(t)
  <2>1. HandlerReturn(t) /\ hpc[t] # "idle"
    BY <1>1 DEF Ignore, Register, Finish
  <2>2. QED
    BY <2>1, <1>t, BaseKeeps DEF HandlerReturn
<1>2. CASE Dispatch(t)
  <2>1. /\ hpc[t] = "dispatch" /\ req' = req
        /\ hpc' = [hpc EXCEPT ![t] = CASE req[t].kind = "register" -> "register"
                                       [] req[t].kind = "bri"      -> "value"
                                       [] OTHER                    -> "state"]
        /\ UNCHANGED << program, storage >>
    BY <1>2 DEF Dispatch
  <2>2. req[t].kind # "register" => Place(t) # 0
    BY <1>2 DEF Dispatch, Ignored, EndsInUrl
  <2>3. hpc'[t] = "state" => req[t].kind # "bri"
    BY <2>1, <1>t
  <2>5. req[t].kind = "register" => hpc'[t] = "register"
    BY <2>1, <1>t
  <2>4. QED
    BY <2>1, <2>2, <2>3, <2>5, <1>t, <1>p, BaseKeeps
<1>3. CASE WriteValue(t)
  <2>1. /\ WriteDevice(t, "value", UChar(req[t].number)) /\ hpc[t] = "value"
        /\ req' = req /\ main' = main /\ fault' = fault
        /\ hpc' = [hpc EXCEPT ![t] = "state"]
    BY <1>3 DEF WriteValue
  <2>2. Access(t)
    BY <2>1 DEF WriteDevice
  <2>3. Len(devices') = Len(devices)
    BY <2>1, <1>t DEF WriteDevice
  <2>4. ~strayed' /\ Place(t) \in DOMAIN Installed => Exists(t)
    BY <2>2, AccessFinds
  <2>5. Derived(t)'
    BY <2>1, <2>3, <2>4, <1>t, SameExists, <1>p DEF LightTypeOK, ProgramTypeOK
  <2>6. QED
    BY <2>1, <2>2, <2>3, <2>5, <1>t, <1>c, <1>d, <1>p, BaseKeeps
<1>4. CASE WriteState(t)
  <2>1. /\ WriteDevice(t, "state", Wanted(req[t])) /\ hpc[t] = "state"
        /\ req' = req /\ main' = main /\ fault' = fault
        /\ hpc' = [hpc EXCEPT ![t] = hpc'[t]] /\ hpc'[t] # "state"
    BY <1>4, <1>t DEF WriteState
  <2>2. Access(t) /\ Len(devices') = Len(devices)
    BY <2>1, <1>t DEF WriteDevice
  <2>3. \A s \in Thread \ {t} : hpc'[s] = hpc[s]
    BY <1>4, <1>t DEF WriteState
  <2>5. devices' # << >>
    BY <2>1, <2>2, <1>t DEF WriteDevice, LightTypeOK, ProgramTypeOK
  <2>4. QED
    BY <2>1, <2>2, <2>3, <2>5, <1>t, <1>c, <1>d, <1>p, BaseKeeps
<1>7. CASE FillValue(t)
  <2>1. /\ WriteDevice(t, "value", 255) /\ hpc[t] = "fill"
        /\ req' = req /\ main' = main /\ fault' = fault
        /\ hpc' = [hpc EXCEPT ![t] = "reply"]
    BY <1>7 DEF FillValue
  <2>2. Access(t) /\ Len(devices') = Len(devices)
    BY <2>1, <1>t DEF WriteDevice
  <2>3. devices' # << >>
    BY <2>1, <2>2, <1>t DEF WriteDevice, LightTypeOK, ProgramTypeOK
  <2>4. QED
    BY <2>1, <2>2, <2>3, <1>t, <1>c, <1>d, <1>p, BaseKeeps
<1>5. CASE WriteColour(t)
  BY <1>5, <1>t, <1>c, <1>d, <1>p, BaseKeeps DEF WriteColour
<1>6. CASE CheckValue(t)
  BY <1>6, <1>t, <1>c, <1>d, <1>p, BaseKeeps DEF CheckValue
<1>8. CASE Reply(t)
  BY <1>8, <1>t, <1>c, <1>d, <1>p, BaseKeeps DEF Reply
<1>9. ASSUME NEW field \in Argument, ReadArgument(t, field)
      PROVE  Base'
  BY <1>9, <1>t, <1>c, <1>d, <1>p, BaseKeeps DEF ReadArgument
<1>10. CASE CallBack(t)
  BY <1>10, <1>t, <1>c, <1>d, <1>p, BaseKeeps DEF CallBack
<1>11. CASE ActionPerformed(t)
  BY <1>11, <1>t DEF ActionPerformed, Base, handler, Exists, Place
<1>12. CASE Failure(t)
  BY <1>12, DieIdles
     DEF Failure, BadIndex, FreedStorage, Overrun, CutShort, ZeroTemperature,
         PeerGone, SerialFails, Base
<1>13. QED
  BY Zenon, <1>1, <1>2, <1>3, <1>4, <1>5, <1>6, <1>7, <1>8, <1>9, <1>10, <1>11, <1>12
     DEF Handle

LEMMA BaseStep == LightTypeOK /\ Base /\ [LightNext]_lightVars => Base'
<1> SUFFICES ASSUME LightTypeOK, Base, [LightNext]_lightVars PROVE Base'
  OBVIOUS
<1> USE DEF Base, Checked, PastChecks, Derived, Seen, Exists, Place, handler, program,
            storage, light
<1>1. CASE Enable
  BY <1>1 DEF Enable
<1>2. CASE AddDevice
  <2>1. DOMAIN devices \subseteq DOMAIN devices'
    BY <1>2 DEF AddDevice, LightTypeOK, ProgramTypeOK
  <2>2. main \notin {"start", "down"} /\ main' \in {"add", "run"}
        /\ UNCHANGED << hpc, req, strayed, fault >>
    BY <1>2 DEF AddDevice
  <2>3. devices' # << >>
    BY <1>2 DEF AddDevice, LightTypeOK, ProgramTypeOK
  <2>4. QED
    BY <2>1, <2>2, <2>3
<1>3. CASE SetEnabled
  BY <1>3 DEF SetEnabled
<1>4. CASE Interrupt
  BY <1>4, DieIdles DEF Interrupt
<1>5. CASE StartAgain
  BY <1>5 DEF StartAgain
<1>6. CASE ManualPower /\ UNCHANGED light
  BY <1>6
<1>7. ASSUME NEW t \in Thread, NEW request \in Requests[t], Receive(t, request)
      PROVE  Base'
  BY <1>7 DEF Receive, HandlerGoto, LightTypeOK, HandlerTypeOK
<1>8. ASSUME NEW t \in Thread, Handle(t) PROVE Base'
  <2> HIDE DEF Base
  <2>1. QED
    BY <1>8, BaseHandle
<1>9. CASE UNCHANGED lightVars
  BY <1>9 DEF lightVars
<1>10. CASE MoveDevices
  BY <1>10 DEF MoveDevices
<1> HIDE DEF Base
<1>11. QED
  BY Zenon, <1>1, <1>2, <1>3, <1>4, <1>5, <1>6, <1>7, <1>8, <1>9, <1>10 DEF LightNext

-----------------------------------------------------------------------------
LEMMA EarlyInit == LightInit => OnlyEarlyRequestsMiss
BY DEF LightInit, OnlyEarlyRequestsMiss

LEMMA EarlyHandle ==
  ASSUME LightTypeOK, Base, OnlyEarlyRequestsMiss, NEW t \in Thread, Handle(t)
  PROVE  OnlyEarlyRequestsMiss'
<1> USE DEF OnlyEarlyRequestsMiss
<1>1. CASE BadIndex(t)
  <2> SUFFICES ASSUME KnownLights PROVE Len(devices) < Len(Installed)
    BY <1>1, DieIdles DEF BadIndex
  <2>1. /\ hpc[t] \in Accessing /\ ~Exists(t)
        /\ req[t] \in Requests[t]
    BY <1>1 DEF BadIndex, Accessing, LightTypeOK, HandlerTypeOK
  <2>2. Place(t) # 0 /\ Place(t) <= Len(Installed) /\ Place(t) \in Nat
    <3>1. Place(t) # 0
      BY <2>1 DEF Base, Checked, PastChecks, Accessing
    <3>2. Place(t) <= Len(Installed)
      BY <2>1 DEF KnownLights, Place
    <3>3. req[t].id \in Nat
      BY DEF LightTypeOK, HandlerTypeOK, Request
    <3>4. Place(t) \in Nat
      BY <3>3 DEF Place, UChar
    <3>5. QED
      BY <3>1, <3>2, <3>4
  <2>3. Len(devices) \in Nat /\ DOMAIN devices = 1 .. Len(devices)
        /\ Len(Installed) \in Nat
    BY LightAssumption DEF LightTypeOK, ProgramTypeOK
  <2>4. QED
    BY <2>1, <2>2, <2>3 DEF Exists
<1>2. CASE FreedStorage(t) \/ Overrun(t) \/ CutShort(t) \/ ZeroTemperature(t)
             \/ PeerGone(t) \/ SerialFails(t)
  BY <1>2, DieIdles
     DEF FreedStorage, Overrun, CutShort, ZeroTemperature, PeerGone, SerialFails
<1>3. CASE WriteValue(t) \/ WriteState(t) \/ FillValue(t)
  <2>1. fault' = fault /\ main' = main /\ hpc[t] # "idle"
    BY <1>3 DEF WriteValue, WriteState, FillValue
  <2>2. fault = "none"
    BY <2>1 DEF Base
  <2>3. QED
    BY <2>1, <2>2
<1>4. CASE UNCHANGED << devices, fault >>
  BY <1>4
<1>5. Ignore(t) \/ Dispatch(t) \/ Register(t) \/ WriteColour(t) \/ CheckValue(t) \/ Reply(t)
        \/ (\E field \in Argument : ReadArgument(t, field)) \/ CallBack(t)
        \/ ActionPerformed(t) \/ Finish(t)
      => UNCHANGED << devices, fault >>
  BY DEF Ignore, Dispatch, Register, WriteColour, CheckValue, Reply,
         ReadArgument, CallBack, ActionPerformed, Finish, HandlerReturn,
         program, light
<1> HIDE DEF OnlyEarlyRequestsMiss
<1>6. QED
  BY <1>1, <1>2, <1>3, <1>4, <1>5 DEF Handle, Failure

LEMMA EarlyStep ==
  LightTypeOK /\ Base /\ OnlyEarlyRequestsMiss /\ [LightNext]_lightVars
    => OnlyEarlyRequestsMiss'
<1> SUFFICES ASSUME LightTypeOK, Base, OnlyEarlyRequestsMiss, [LightNext]_lightVars
             PROVE  OnlyEarlyRequestsMiss'
  OBVIOUS
<1>1. CASE Enable \/ MoveDevices \/ SetEnabled \/ (ManualPower /\ UNCHANGED light)
             \/ UNCHANGED lightVars
             \/ (\E t \in Thread : \E request \in Requests[t] : Receive(t, request))
  BY <1>1 DEF Enable, MoveDevices, SetEnabled, Receive, OnlyEarlyRequestsMiss, lightVars, light,
              program
<1>2. CASE AddDevice
  BY <1>2 DEF AddDevice, Base, OnlyEarlyRequestsMiss
<1>3. CASE Interrupt
  BY <1>3, DieIdles DEF Interrupt, OnlyEarlyRequestsMiss
<1>4. CASE StartAgain
  BY <1>4 DEF StartAgain, OnlyEarlyRequestsMiss
<1>5. ASSUME NEW t \in Thread, Handle(t) PROVE OnlyEarlyRequestsMiss'
  BY <1>5, EarlyHandle
<1>6. QED
  BY Zenon, <1>1, <1>2, <1>3, <1>4, <1>5 DEF LightNext

(***************************************************************************)
(* A request for a device that main installs ends the process for a bad    *)
(* index only before that device is added: once main has added its         *)
(* devices, no interleaving of any number of connections does.             *)
(***************************************************************************)
THEOREM MissesAreEarly == LightSpec => []OnlyEarlyRequestsMiss
<1>1. LightInit => Base /\ OnlyEarlyRequestsMiss
  BY BaseInit, EarlyInit
<1>2. QED
  BY <1>1, BaseStep, EarlyStep, LightTypeCorrect, PTL DEF LightSpec

-----------------------------------------------------------------------------
(***************************************************************************)
(* One connection dims a light.  A light that is on at brightness 0 is     *)
(* only so until a handler that is past its first write is done with it:   *)
(* Mending.  A handler about to switch a light on for a brightness finds   *)
(* it there: nobody else has written another.                              *)
(***************************************************************************)
Raising(t) ==
  hpc[t] = "state" /\ req[t].kind = "bri" /\ UChar(req[t].number) # 0

Lowering(t) ==
  hpc[t] = "state" /\ req[t].kind = "bri" /\ UChar(req[t].number) = 0

Mending(t) == hpc[t] \in {"check", "fill"} \/ Lowering(t)

Mended ==
  \A i \in DOMAIN devices :
    devices[i].state /\ devices[i].value = 0
      => \E t \in Thread : Place(t) = i /\ Mending(t)

Raised ==
  \A t \in Thread :
    Raising(t) /\ Place(t) \in DOMAIN devices => devices[Place(t)].value # 0

Lit == (main # "down" => Mended) /\ Raised

\* So it is until an access goes astray.
LitSoFar == ~strayed => Lit

\* What threads handle, if only one dims a light.
LEMMA HandledKinds ==
  ASSUME OneDims, LightTypeOK, NEW t \in Thread, hpc[t] # "idle"
  PROVE  req[t].kind \in {"on", "off", "bri"}
<1>1. req[t] \in Requests[t]
  BY DEF LightTypeOK, HandlerTypeOK
<1>2. QED
  BY <1>1 DEF OneDims

LEMMA DimmedByOne ==
  ASSUME OneDims, LightTypeOK, NEW s \in Thread, NEW t \in Thread,
         hpc[s] # "idle", hpc[t] # "idle", Place(s) = Place(t),
         req[s].kind = "bri", req[t].kind = "bri"
  PROVE  s = t
<1>1. req[s] \in Requests[s] /\ req[t] \in Requests[t]
  BY DEF LightTypeOK, HandlerTypeOK
<1>2. UChar(req[s].id) = UChar(req[t].id)
  BY DEF Place
<1>3. QED
  BY <1>1, <1>2 DEF OneDims

\* A handler that leaves the devices alone and is not mending.
LEMMA LitKeeps ==
  ASSUME Lit, NEW t \in Thread, UNCHANGED << main, devices >>,
         \A s \in Thread \ {t} : hpc'[s] = hpc[s] /\ req'[s] = req[s],
         ~Mending(t), ~Raising(t)'
  PROVE  Lit'
<1>1. \A s \in Thread \ {t} : /\ Mending(s)' <=> Mending(s)
                              /\ Raising(s)' <=> Raising(s)
                              /\ Place(s)' = Place(s)
  BY DEF Mending, Lowering, Raising, Place
<1>2. main # "down" => Mended'
  BY <1>1 DEF Lit, Mended
<1>3. Raised'
  BY <1>1 DEF Lit, Raised
<1>4. QED
  BY <1>2, <1>3 DEF Lit

LEMMA LitWriteValue ==
  ASSUME OneDims, LightTypeOK, Lit, NEW t \in Thread, WriteValue(t), ~strayed'
  PROVE  Lit'
<1> DEFINE x == UChar(req[t].number)
<1>1. /\ main' = main /\ req' = req /\ hpc[t] = "value"
      /\ hpc' = [hpc EXCEPT ![t] = "state"]
      /\ WriteDevice(t, "value", x)
  BY DEF WriteValue, HandlerGoto
<1>2. /\ hpc \in [Thread -> HandlerControl] /\ req[t] \in Requests[t]
      /\ req[t].kind = "bri" /\ devices \in Seq(LightDevice)
  BY <1>1 DEF LightTypeOK, HandlerTypeOK, ProgramTypeOK
<1>3. x \in Brightness
  BY <1>2, LightAssumption
<1>4. /\ devices' \in Seq(LightDevice) /\ DOMAIN devices' = DOMAIN devices
      /\ \A i \in DOMAIN devices :
           devices'[i] = IF i = Place(t) THEN [devices[i] EXCEPT !["value"] = x]
                         ELSE devices[i]
  <2>1. Found(t) \/ ~Exists(t)
    BY <1>1, AccessFinds DEF WriteDevice
  <2>2. QED
    BY <1>1, <1>2, <1>3, <2>1, WriteDeviceChanges DEF Argument
<1>5. \A i \in DOMAIN devices : devices[i] \in LightDevice
  BY <1>2
<1>6. Place(t) \in DOMAIN devices => devices'[Place(t)].value = x
  BY <1>4, <1>5 DEF LightDevice
<1> HIDE DEF x
<1>7. \A s \in Thread : Place(s)' = Place(s)
  BY <1>1 DEF Place
<1>8. \A s \in Thread \ {t} : Mending(s)' <=> Mending(s)
  BY <1>1, <1>2 DEF Mending, Lowering
<1>9. x = 0 => Mending(t)'
  BY <1>1, <1>2 DEF Mending, Lowering, x
<1>10. Mended => Mended'
  <2> SUFFICES ASSUME Mended, NEW i \in DOMAIN devices,
                      devices'[i].state, devices'[i].value = 0
               PROVE  \E s \in Thread : Place(s)' = i /\ Mending(s)'
    BY <1>4 DEF Mended
  <2>1. CASE i = Place(t)
    BY <2>1, <1>6, <1>7, <1>9
  <2>2. CASE i # Place(t)
    <3>1. devices'[i] = devices[i]
      BY <2>2, <1>4
    <3>2. PICK s \in Thread : Place(s) = i /\ Mending(s)
      BY <3>1 DEF Mended
    <3>3. QED
      BY <3>2, <2>2, <1>7, <1>8
  <2>3. QED
    BY <2>1, <2>2
<1>11. Raised'
  <2> SUFFICES ASSUME NEW s \in Thread, Raising(s)', Place(s) \in DOMAIN devices
               PROVE  devices'[Place(s)].value # 0
    BY <1>4, <1>7 DEF Raised
  <2>1. CASE s = t
    BY <2>1, <1>1, <1>6 DEF Raising, x
  <2>2. CASE s # t
    <3>1. Raising(s)
      BY <2>2, <1>1, <1>2 DEF Raising
    <3>2. Place(s) # Place(t)
      BY <2>2, <3>1, <1>1, <1>2, DimmedByOne DEF Raising
    <3>3. devices'[Place(s)] = devices[Place(s)]
      BY <3>2, <1>4
    <3>4. QED
      BY <3>1, <3>3 DEF Lit, Raised
  <2>3. QED
    BY <2>1, <2>2
<1>12. QED
  BY <1>1, <1>10, <1>11 DEF Lit

LEMMA LitWriteState ==
  ASSUME OneDims, LightTypeOK, Lit, NEW t \in Thread, WriteState(t), ~strayed'
  PROVE  Lit'
<1> DEFINE x == Wanted(req[t])
<1>1. /\ main' = main /\ req' = req /\ hpc[t] = "state"
      /\ WriteDevice(t, "state", x)
      /\ \A s \in Thread \ {t} : hpc'[s] = hpc[s]
  BY DEF WriteState, HandlerGoto, LightTypeOK, HandlerTypeOK
<1>2. /\ hpc \in [Thread -> HandlerControl] /\ req[t] \in Request
      /\ devices \in Seq(LightDevice)
  BY <1>1 DEF LightTypeOK, HandlerTypeOK, ProgramTypeOK
<1>3. x \in BOOLEAN
  BY DEF Wanted
<1>4. /\ devices' \in Seq(LightDevice) /\ DOMAIN devices' = DOMAIN devices
      /\ \A i \in DOMAIN devices :
           devices'[i] = IF i = Place(t) THEN [devices[i] EXCEPT !["state"] = x]
                         ELSE devices[i]
  <2>1. Found(t) \/ ~Exists(t)
    BY <1>1, AccessFinds DEF WriteDevice
  <2>2. QED
    BY <1>1, <1>2, <1>3, <2>1, WriteDeviceChanges DEF Argument
<1>5. \A i \in DOMAIN devices : devices[i] \in LightDevice
  BY <1>2
<1>6. /\ \A i \in DOMAIN devices : devices'[i].value = devices[i].value
      /\ Place(t) \in DOMAIN devices => devices'[Place(t)].state = x
  BY <1>4, <1>5 DEF LightDevice
<1>7. \A s \in Thread : Place(s)' = Place(s)
  BY <1>1 DEF Place
<1>8. req[t].kind \in {"on", "off", "bri"}
  BY <1>1, HandledKinds
<1>9. hpc'[t] = IF req[t].kind = "on" THEN "check" ELSE "reply"
  BY <1>2, <1>8 DEF WriteState, HandlerGoto
<1>10. \A s \in Thread \ {t} : /\ Mending(s)' <=> Mending(s)
                               /\ Raising(s)' <=> Raising(s)
  BY <1>1 DEF Mending, Lowering, Raising
<1>11. x => Mending(t)' \/ Raising(t)
  <2>1. CASE req[t].kind = "on"
    BY <2>1, <1>9 DEF Mending
  <2>2. CASE req[t].kind # "on"
    <3> SUFFICES ASSUME x PROVE Raising(t)
      OBVIOUS
    <3>1. req[t].kind = "bri" /\ UChar(req[t].number) > 0
      BY <2>2, <1>8 DEF Wanted
    <3>2. UChar(req[t].number) # 0
      BY <3>1, <1>2 DEF UChar, Request
    <3>3. QED
      BY <3>1, <3>2, <1>1 DEF Raising
  <2>3. QED
    BY <2>1, <2>2
<1> HIDE DEF x
<1>12. Mended => Mended'
  <2> SUFFICES ASSUME Mended, NEW i \in DOMAIN devices,
                      devices'[i].state, devices'[i].value = 0
               PROVE  \E s \in Thread : Place(s)' = i /\ Mending(s)'
    BY <1>4 DEF Mended
  <2>1. CASE i = Place(t)
    <3>1. x /\ devices[Place(t)].value = 0
      BY <2>1, <1>6
    <3>2. ~Raising(t)
      BY <2>1, <3>1 DEF Lit, Raised
    <3>3. QED
      BY <2>1, <3>1, <3>2, <1>7, <1>11
  <2>2. CASE i # Place(t)
    <3>1. devices'[i] = devices[i]
      BY <2>2, <1>4
    <3>2. PICK s \in Thread : Place(s) = i /\ Mending(s)
      BY <3>1 DEF Mended
    <3>3. QED
      BY <3>2, <2>2, <1>7, <1>10
  <2>3. QED
    BY <2>1, <2>2
<1>13. Raised'
  <2>1. ~Raising(t)'
    BY <1>9 DEF Raising
  <2>2. QED
    BY <2>1, <1>4, <1>6, <1>7, <1>10 DEF Lit, Raised
<1>14. QED
  BY <1>1, <1>12, <1>13 DEF Lit

LEMMA LitFillValue ==
  ASSUME LightTypeOK, Lit, NEW t \in Thread, FillValue(t), ~strayed'
  PROVE  Lit'
<1>1. /\ main' = main /\ req' = req
      /\ WriteDevice(t, "value", 255)
      /\ \A s \in Thread \ {t} : hpc'[s] = hpc[s]
      /\ hpc'[t] = "reply"
  BY DEF FillValue, HandlerGoto, LightTypeOK, HandlerTypeOK
<1>2. devices \in Seq(LightDevice)
  BY DEF LightTypeOK, ProgramTypeOK
<1>3. 255 \in Brightness
  BY LightAssumption
<1>4. /\ devices' \in Seq(LightDevice) /\ DOMAIN devices' = DOMAIN devices
      /\ \A i \in DOMAIN devices :
           devices'[i] = IF i = Place(t) THEN [devices[i] EXCEPT !["value"] = 255]
                         ELSE devices[i]
  <2>1. Found(t) \/ ~Exists(t)
    BY <1>1, AccessFinds DEF WriteDevice
  <2>2. QED
    BY <1>1, <1>2, <1>3, <2>1, WriteDeviceChanges DEF Argument
<1>5. \A i \in DOMAIN devices : devices[i] \in LightDevice
  BY <1>2
<1>6. Place(t) \in DOMAIN devices => devices'[Place(t)].value # 0
  BY <1>4, <1>5 DEF LightDevice
<1>7. \A s \in Thread : Place(s)' = Place(s)
  BY <1>1 DEF Place
<1>8. \A s \in Thread \ {t} : /\ Mending(s)' <=> Mending(s)
                              /\ Raising(s)' <=> Raising(s)
  BY <1>1 DEF Mending, Lowering, Raising
<1>9. Mended => Mended'
  <2> SUFFICES ASSUME Mended, NEW i \in DOMAIN devices, i # Place(t),
                      devices'[i].state, devices'[i].value = 0
               PROVE  \E s \in Thread : Place(s)' = i /\ Mending(s)'
    BY <1>4, <1>6 DEF Mended
  <2>1. devices'[i] = devices[i]
    BY <1>4
  <2>2. PICK s \in Thread : Place(s) = i /\ Mending(s)
    BY <2>1 DEF Mended
  <2>3. QED
    BY <2>2, <1>7, <1>8
<1>10. Raised'
  <2> SUFFICES ASSUME NEW s \in Thread, Raising(s)', Place(s) \in DOMAIN devices
               PROVE  devices'[Place(s)].value # 0
    BY <1>4, <1>7 DEF Raised
  <2>1. Raising(s)
    BY <1>1, <1>8 DEF Raising
  <2>2. devices[Place(s)].value # 0
    BY <2>1 DEF Lit, Raised
  <2>3. QED
    BY <2>2, <1>4, <1>6
<1>11. QED
  BY <1>1, <1>9, <1>10 DEF Lit

LEMMA LitCheckValue ==
  ASSUME LightTypeOK, Lit, NEW t \in Thread, CheckValue(t), ~strayed'
  PROVE  Lit'
<1>1. /\ main' = main /\ req' = req /\ devices' = devices
      /\ \A s \in Thread \ {t} : hpc'[s] = hpc[s]
      /\ hpc'[t] \in {"fill", "reply"}
  BY DEF CheckValue, HandlerGoto, LightTypeOK, HandlerTypeOK, program
<1>2. Place(t) \in DOMAIN devices /\ devices[Place(t)].value = 0 => hpc'[t] = "fill"
  <2>1. Exists(t) => Found(t)
    BY AccessFinds DEF CheckValue
  <2>2. QED
    BY <2>1 DEF CheckValue, Readable, Exists, HandlerGoto, LightTypeOK, HandlerTypeOK
<1>3. \A s \in Thread : Place(s)' = Place(s)
  BY <1>1 DEF Place
<1>4. \A s \in Thread \ {t} : /\ Mending(s)' <=> Mending(s)
                              /\ Raising(s)' <=> Raising(s)
  BY <1>1 DEF Mending, Lowering, Raising
<1>5. Mended => Mended'
  <2> SUFFICES ASSUME Mended, NEW i \in DOMAIN devices,
                      devices[i].state, devices[i].value = 0
               PROVE  \E s \in Thread : Place(s)' = i /\ Mending(s)'
    BY <1>1 DEF Mended
  <2>1. CASE i = Place(t)
    BY <2>1, <1>2, <1>3 DEF Mending
  <2>2. CASE i # Place(t)
    BY <2>2, <1>3, <1>4 DEF Mended
  <2>3. QED
    BY <2>1, <2>2
<1>6. Raised'
  BY <1>1, <1>3, <1>4 DEF Lit, Raised, Raising
<1>7. QED
  BY <1>1, <1>5, <1>6 DEF Lit

LEMMA LitHandle ==
  ASSUME OneDims, LightTypeOK, Lit, NEW t \in Thread, Handle(t), ~strayed'
  PROVE  Lit'
<1>1. hpc \in [Thread -> HandlerControl] /\ req \in [Thread -> Request]
  BY DEF LightTypeOK, HandlerTypeOK
<1> USE DEF HandlerGoto, program, light, handler, Mending, Lowering, Raising
<1>2. CASE Ignore(t) \/ Register(t) \/ Finish(t)
  BY <1>2, <1>1, LitKeeps DEF Ignore, Register, Finish, HandlerReturn
<1>3. CASE Dispatch(t)
  BY <1>3, <1>1, LitKeeps DEF Dispatch
<1>4. CASE WriteColour(t)
  BY <1>4, <1>1, LitKeeps DEF WriteColour
<1>5. CASE Reply(t)
  BY <1>5, <1>1, LitKeeps DEF Reply
<1>6. ASSUME NEW field \in Argument, ReadArgument(t, field)
      PROVE  Lit'
  BY <1>6, <1>1, LitKeeps DEF ReadArgument
<1>7. CASE CallBack(t)
  BY <1>7, <1>1, LitKeeps DEF CallBack
<1>8. CASE ActionPerformed(t)
  BY <1>8 DEF ActionPerformed, Lit, Mended, Raised, Place
<1>9. CASE Failure(t)
  <2>1. main' = "down" /\ \A s \in Thread : hpc'[s] = "idle"
    BY <1>9, DieIdles
       DEF Failure, BadIndex, FreedStorage, Overrun, CutShort, ZeroTemperature,
         PeerGone, SerialFails
  <2>2. QED
    BY <2>1 DEF Lit, Raised
<1>10. CASE WriteValue(t) \/ WriteState(t) \/ CheckValue(t) \/ FillValue(t)
  BY <1>10, LitWriteValue, LitWriteState, LitCheckValue, LitFillValue
<1>11. QED
  BY Zenon, <1>2, <1>3, <1>4, <1>5, <1>6, <1>7, <1>8, <1>9, <1>10 DEF Handle

LEMMA LitInit == LightInit => Lit
BY NoHandlersType DEF LightInit, Lit, Mended, Raised, Raising

\* No handler raises the light that is added.
LEMMA LitAddDevice ==
  ASSUME LightTypeOK, Base, Lit, AddDevice, ~strayed'
  PROVE  Lit'
<1> DEFINE n == Len(devices)
           added == [name |-> Installed[n + 1], state |-> FALSE, value |-> 0]
<1>1. /\ main \in {"add", "move"} /\ devices' = Append(devices, added)
      /\ UNCHANGED << hpc, req, strayed >>
  BY DEF AddDevice, handler
<1>2. /\ devices \in Seq(LightDevice) /\ n \in Nat /\ n < Len(Installed)
      /\ Len(Installed) \in Nat
  BY <1>1, LightAssumption DEF LightTypeOK, ProgramTypeOK
<1>3. /\ DOMAIN devices = 1 .. n /\ DOMAIN devices' = 1 .. (n + 1)
      /\ devices'[n + 1] = added
      /\ \A i \in DOMAIN devices : devices'[i] = devices[i]
  BY <1>1, <1>2
<1>4. n + 1 \in DOMAIN Installed
  BY <1>2, LightAssumption
<1> HIDE DEF n
<1>5. ~added.state
  OBVIOUS
<1>6. \A t \in Thread : /\ Place(t)' = Place(t)
                        /\ Mending(t)' <=> Mending(t)
                        /\ Raising(t)' <=> Raising(t)
  BY <1>1 DEF Place, Mending, Lowering, Raising
<1>7. ASSUME NEW t \in Thread, Raising(t) PROVE Place(t) # n + 1
  <2> SUFFICES ASSUME Place(t) = n + 1 PROVE FALSE
    OBVIOUS
  <2>1. ~Exists(t)
    BY <1>2, <1>3 DEF Exists
  <2>2. QED
    BY <2>1, <1>1, <1>4, <1>7 DEF Raising, Base, Derived
<1> HIDE DEF added
<1>8. DOMAIN devices' = DOMAIN devices \cup {n + 1}
  BY <1>2, <1>3
<1>9. Mended'
  <2> SUFFICES ASSUME NEW i \in DOMAIN devices',
                      devices'[i].state, devices'[i].value = 0
               PROVE  \E t \in Thread : Place(t)' = i /\ Mending(t)'
    BY DEF Mended
  <2>1. i \in DOMAIN devices /\ devices'[i] = devices[i]
    BY <1>3, <1>5, <1>8
  <2>2. PICK t \in Thread : Place(t) = i /\ Mending(t)
    BY <2>1, <1>1 DEF Lit, Mended
  <2>3. QED
    BY <2>2, <1>6
<1>10. Raised'
  <2> SUFFICES ASSUME NEW t \in Thread, Raising(t)', Place(t)' \in DOMAIN devices'
               PROVE  devices'[Place(t)'].value # 0
    BY DEF Raised
  <2>1. Raising(t) /\ Place(t)' = Place(t) /\ Place(t) \in DOMAIN devices
    BY <1>6, <1>7, <1>8
  <2>2. QED
    BY <2>1, <1>3 DEF Lit, Raised
<1>11. QED
  BY <1>9, <1>10 DEF Lit

\* A process that has strayed has strayed until it ends.
LEMMA StrayedStays ==
  ASSUME LightTypeOK, [LightNext]_lightVars, ~StartAgain, strayed
  PROVE  strayed'
<1> USE DEF storage, program, light
<1>1. CASE Enable \/ MoveDevices \/ AddDevice \/ SetEnabled
             \/ (ManualPower /\ UNCHANGED light) \/ UNCHANGED lightVars
             \/ (\E t \in Thread : \E request \in Requests[t] : Receive(t, request))
  BY <1>1 DEF Enable, MoveDevices, AddDevice, SetEnabled, Receive, lightVars
<1>2. CASE Interrupt \/ \E t \in Thread : Failure(t)
  <2>1. PICK cause : Die(cause)
    BY <1>2 DEF Interrupt, Failure, BadIndex, FreedStorage, Overrun, CutShort,
                ZeroTemperature, PeerGone, SerialFails
  <2>2. strayed' = strayed
    BY <2>1, DieIdles
  <2>3. QED
    BY Zenon, <2>2
<1>3. ASSUME NEW t \in Thread, Handle(t), ~Failure(t)
      PROVE  strayed'
  <2>1. \/ Ignore(t) \/ Dispatch(t) \/ Register(t) \/ ActionPerformed(t) \/ Finish(t)
        => strayed' = strayed
    BY DEF Ignore, Dispatch, Register, ActionPerformed, Finish, HandlerReturn
  <2>2. \/ WriteValue(t) \/ WriteState(t) \/ FillValue(t) \/ WriteColour(t)
        \/ CheckValue(t) \/ Reply(t) \/ CallBack(t)
        \/ (\E field \in Argument : ReadArgument(t, field))
        => Access(t)
    BY DEF WriteValue, WriteState, FillValue, WriteDevice, WriteColour, CheckValue,
           Reply, CallBack, ReadArgument
  <2>3. Access(t) => strayed'
    BY DEF Access
  <2>4. QED
    BY <1>3, <2>1, <2>2, <2>3 DEF Handle
<1>4. QED
  BY Zenon, <1>1, <1>2, <1>3 DEF LightNext

LEMMA LitStep ==
  ASSUME OneDims
  PROVE  LightTypeOK /\ Base /\ LitSoFar /\ [LightNext]_lightVars => LitSoFar'
<1> SUFFICES ASSUME LightTypeOK, Base, LitSoFar, [LightNext]_lightVars, ~strayed'
             PROVE  Lit'
  BY DEF LitSoFar
<1>5. CASE StartAgain
  BY <1>5 DEF StartAgain, Base, handler, Lit, Mended, Raised, Raising
<1> SUFFICES ASSUME ~StartAgain PROVE Lit'
  BY <1>5
<1>s. ~strayed
  BY StrayedStays
<1>l. Lit
  BY <1>s DEF LitSoFar
<1> USE DEF Lit, Mended, Raised, Mending, Lowering, Raising, Place, handler, program,
            storage, light
<1>1. CASE Enable
  BY <1>1, <1>l DEF Enable
<1>2. CASE AddDevice
  <2> HIDE DEF Lit
  <2>1. QED
    BY <1>2, <1>l, LitAddDevice
<1>3. CASE SetEnabled \/ MoveDevices
  BY <1>3, <1>l DEF SetEnabled, MoveDevices
<1>4. CASE Interrupt
  BY <1>4, DieIdles DEF Interrupt
<1>6. CASE ManualPower /\ UNCHANGED light
  BY <1>6, <1>l
<1>7. ASSUME NEW t \in Thread, NEW request \in Requests[t], Receive(t, request)
      PROVE  Lit'
  <2>1. /\ UNCHANGED << main, devices >>
        /\ \A s \in Thread \ {t} : hpc'[s] = hpc[s] /\ req'[s] = req[s]
        /\ hpc[t] = "idle" /\ hpc'[t] = "dispatch"
    BY <1>7 DEF Receive, HandlerGoto, LightTypeOK, HandlerTypeOK
  <2>2. ~Mending(t) /\ ~Raising(t)'
    BY <2>1
  <2> HIDE DEF Lit, Mending, Raising
  <2>3. QED
    BY <2>1, <2>2, <1>l, LitKeeps
<1>8. ASSUME NEW t \in Thread, Handle(t) PROVE Lit'
  <2> HIDE DEF Lit
  <2>1. QED
    BY <1>8, <1>l, LitHandle
<1>9. CASE UNCHANGED lightVars
  BY <1>9, <1>l DEF lightVars
<1> HIDE DEF Lit
<1>10. QED
  BY Zenon, <1>1, <1>2, <1>3, <1>4, <1>5, <1>6, <1>7, <1>8, <1>9 DEF LightNext

(***************************************************************************)
(* As long as no two connections dim the same light, no interleaving of    *)
(* any number of them, and none with the storage that main moves, leaves   *)
(* any of the lights on at brightness 0, unless a handler's access has     *)
(* gone astray: its device not yet added, or its storage on the move or    *)
(* freed.  The order in which _onTCPControl writes and tests state and     *)
(* value needs no lock.                                                    *)
(***************************************************************************)
THEOREM OnlyStrayingDarkens == LightSpec => []LitHasBrightness
<1>1. CASE OneDims
  <2>1. LightInit => Base /\ LitSoFar
    BY BaseInit, LitInit DEF LitSoFar
  <2>2. LightTypeOK /\ Base /\ LitSoFar /\ [LightNext]_lightVars => LitSoFar'
    BY <1>1, LitStep
  <2>3. LitSoFar => LitHasBrightness
    BY DEF LitSoFar, Lit, LitHasBrightness, Settled, Mended, Mending, Lowering
  <2>4. QED
    BY <2>1, <2>2, <2>3, BaseStep, LightTypeCorrect, PTL DEF LightSpec
<1>2. CASE ~OneDims
  <2>1. LitHasBrightness
    BY <1>2 DEF LitHasBrightness
  <2>2. QED
    BY <2>1, PTL
<1>3. QED
  BY <1>1, <1>2

\* With one light nothing is moved.
Unmoved == main # "move" /\ stale = {} /\ ~strayed

LEMMA OneLightStep ==
  ASSUME Len(Installed) = 1, LightTypeOK, Base, Unmoved, [LightNext]_lightVars
  PROVE  Unmoved'
<1> USE DEF Unmoved, storage, program, light
<1>t. /\ devices \in Seq(LightDevice) /\ Len(devices) \in Nat
      /\ main = "add" => Len(devices) < 1
      /\ DOMAIN Installed = 1 .. 1
  BY LightAssumption DEF LightTypeOK, ProgramTypeOK
<1>1. ~MoveDevices
  BY <1>t DEF MoveDevices, OutOfRoom
<1>2. CASE AddDevice
  BY <1>2 DEF AddDevice
<1>3. CASE Enable \/ SetEnabled \/ StartAgain \/ (ManualPower /\ UNCHANGED light)
             \/ UNCHANGED lightVars
             \/ (\E t \in Thread : \E request \in Requests[t] : Receive(t, request))
  BY <1>3 DEF Enable, SetEnabled, StartAgain, Receive, lightVars
<1>4. CASE Interrupt \/ \E t \in Thread : Failure(t)
  BY <1>4 DEF Interrupt, Failure, BadIndex, FreedStorage, Overrun, CutShort,
              ZeroTemperature, PeerGone, SerialFails, Die
<1>5. ASSUME NEW t \in Thread, devices # << >>, Access(t)
      PROVE  stale' = {} /\ ~strayed'
  <2>1. Place(t) \in DOMAIN Installed => Place(t) = 1
    BY <1>t
  <2>2. Place(t) = 1 => Found(t)
    BY <1>5, <1>t DEF Exists, Found
  <2>3. /\ strayed' = (strayed \/ (Place(t) \in DOMAIN Installed /\ ~Found(t)))
        /\ stale' = stale \ {t}
    BY <1>5 DEF Access
  <2>4. ~strayed'
    BY Zenon, <2>1, <2>2, <2>3
  <2>5. QED
    BY <2>3, <2>4
<1>6. ASSUME NEW t \in Thread, Handle(t), ~Failure(t)
      PROVE  Unmoved'
  <2>1. Ignore(t) \/ Dispatch(t) \/ Register(t) \/ ActionPerformed(t) \/ Finish(t)
          => UNCHANGED << main, storage >>
    BY DEF Ignore, Dispatch, Register, ActionPerformed, Finish, HandlerReturn
  <2>2. WriteValue(t) \/ WriteState(t) \/ FillValue(t)
          => main' = main /\ Access(t) /\ devices # << >>
    BY DEF WriteValue, WriteState, FillValue, WriteDevice
  <2>3. hpc[t] \notin {"idle", "dispatch", "register", "value", "state"}
          => devices # << >>
    BY DEF Base, Seen, PastChecks
  <2>4. WriteColour(t) \/ CheckValue(t) \/ Reply(t) \/ CallBack(t)
          \/ (\E field \in Argument : ReadArgument(t, field))
          => /\ main' = main /\ Access(t)
             /\ hpc[t] \notin {"idle", "dispatch", "register", "value", "state"}
    <3>1. \A field \in Argument : ReadArgument(t, field) => hpc[t] = "args"
      BY DEF ReadArgument
    <3>2. \A field \in Argument : ReadArgument(t, field) => main' = main /\ Access(t)
      BY DEF ReadArgument
    <3>3. WriteColour(t) \/ CheckValue(t) \/ Reply(t) \/ CallBack(t)
            => hpc[t] \in {"colour", "check", "reply", "call"}
      BY DEF WriteColour, CheckValue, Reply, CallBack
    <3>5. WriteColour(t) \/ CheckValue(t) \/ Reply(t) \/ CallBack(t)
            => main' = main /\ Access(t)
      BY DEF WriteColour, CheckValue, Reply, CallBack
    <3>4. QED
      BY <3>1, <3>2, <3>3, <3>5
  <2>5. UNCHANGED << main, storage >> => Unmoved'
    OBVIOUS
  <2>6. main' = main /\ Access(t) /\ devices # << >> => Unmoved'
    BY <1>5
  <2> HIDE DEF Unmoved
  <2>7. QED
    BY Zenon, <1>6, <2>1, <2>2, <2>3, <2>4, <2>5, <2>6 DEF Handle
<1>7. QED
  BY Zenon, <1>1, <1>2, <1>3, <1>4, <1>6 DEF LightNext

(***************************************************************************)
(* The program as it is adds one device (fauxmoLINUX.cpp:727).  With one   *)
(* there is no storage to move, and no access of any handler goes astray:  *)
(* a request that comes in too early ends the process or finds the device. *)
(***************************************************************************)
THEOREM OneLightNeverStrays ==
  ASSUME Len(Installed) = 1
  PROVE  LightSpec => []~strayed
<1>1. LightInit => Base /\ Unmoved
  BY BaseInit DEF LightInit, Unmoved
<1>2. LightTypeOK /\ Base /\ Unmoved /\ [LightNext]_lightVars => Unmoved'
  BY OneLightStep
<1>3. Unmoved => ~strayed
  BY DEF Unmoved
<1>4. QED
  BY <1>1, <1>2, <1>3, BaseStep, LightTypeCorrect, PTL DEF LightSpec
=============================================================================
