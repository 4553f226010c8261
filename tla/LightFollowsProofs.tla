------------------------- MODULE LightFollowsProofs -------------------------
(***************************************************************************)
(* Theorems about LightControl that relate the light, the remote control   *)
(* and the television, for any number of connections and any requests.     *)
(***************************************************************************)
EXTENDS LightControlProofs

(***************************************************************************)
(* What a handler that does not end the process leaves alone: the place of *)
(* every other thread in its handler and in actionPerformed.               *)
(***************************************************************************)
Untouched(s) ==
  /\ hpc'[s] = hpc[s] /\ req'[s] = req[s]
  /\ unread'[s] = unread[s] /\ args'[s] = args[s]
  /\ pc'[s] = pc[s] /\ arg'[s] = arg[s]

LEMMA OthersUntouched ==
  ASSUME LightTypeOK, TypeOK, NEW t \in Thread, Handle(t), ~Failure(t)
  PROVE  main' = main /\ \A s \in Thread \ {t} : Untouched(s)
<1> USE DEF Untouched, HandlerGoto, Goto, handler, program, storage, light, vars,
            memory, tv
<1>t. /\ hpc \in [Thread -> HandlerControl] /\ req \in [Thread -> Request]
      /\ unread \in [Thread -> SUBSET Argument]
      /\ args \in [Thread -> [state : BOOLEAN, value : Brightness]]
      /\ pc \in [Thread -> Control]
      /\ arg \in [Thread -> [state : BOOLEAN, value : Brightness \cup {0}]]
  BY DEF LightTypeOK, HandlerTypeOK, TypeOK
<1>1. CASE Ignore(t) \/ Register(t) \/ Finish(t)
  BY <1>1, <1>t DEF Ignore, Register, Finish, HandlerReturn
<1>2. CASE Dispatch(t) \/ WriteColour(t) \/ CheckValue(t) \/ Reply(t)
  BY <1>2, <1>t DEF Dispatch, WriteColour, CheckValue, Reply
<1>3. CASE WriteValue(t) \/ WriteState(t) \/ FillValue(t)
  BY <1>3, <1>t DEF WriteValue, WriteState, FillValue
<1>4. CASE \E field \in Argument : ReadArgument(t, field)
  BY <1>4, <1>t DEF ReadArgument
<1>5. CASE CallBack(t)
  BY <1>5, <1>t DEF CallBack, Call
<1>6. CASE ActionPerformed(t)
  BY <1>6, <1>t
     DEF ActionPerformed, Step, Compare, Toggle, Store, Select, Remember, Dial, Return
<1>7. QED
  BY <1>1, <1>2, <1>3, <1>4, <1>5, <1>6 DEF Handle

\* The type of the remote control's state, in the running program.
LEMMA RemoteControlTypes == LightSpec => []TypeOK
BY LightsUseRemoteControl, TypeCorrect, PTL

-----------------------------------------------------------------------------
(***************************************************************************)
(* The light of the television is the one main adds first, and no other    *)
(* has its name (fauxmoLINUX.cpp:727).  It is there whenever a request for *)
(* it is past its first write, which an empty vector has no storage for.   *)
(***************************************************************************)
TelevisionFirst == \A i \in DOMAIN Installed : Installed[i] = "fernseher" <=> i = 1

Named == \A i \in DOMAIN devices : devices[i].name = Installed[i]

\* Before there is a light there is nothing to remember.
Outset == main = "down" \/ devices = << >> => lastState = FALSE

\* Where a handler is, and what its request is about.
Placed(t) ==
  /\ pc[t] # "idle" => hpc[t] = "callback" /\ (Place(t) = 1 \/ strayed)
  /\ hpc[t] \in {"check", "fill"} => req[t].kind = "on"
  /\ hpc[t] = "call" => unread[t] = {}

Course == Named /\ Outset /\ \A t \in Thread : Placed(t)

(***************************************************************************)
(* In between, as long as requests for the television take turns: light    *)
(* and remote control agree while no such request is past its checks, and  *)
(* Progress says of the one that is how far they still do.                 *)
(***************************************************************************)
Tv == devices[1]

Follows == lastState = Tv.state /\ (Tv.value > 0 => Tv.value = lastValue)

ReadSoFar(t) == \A field \in Argument \ unread[t] : args[t][field] = Tv[field]

\* Inside actionPerformed.
Called(t) ==
  /\ arg[t].state = Tv.state /\ arg[t].value = Tv.value
  /\ pc[t] \in {"select", "remember", "dial"} => lastState = Tv.state
  /\ pc[t] = "remember" => Tv.value # lastValue
  /\ pc[t] = "dial" => Tv.value = lastValue

\* A request that does not dim leaves the brightness alone, or fills in 255.
NotDimmed(t) ==
  req[t].kind # "bri" /\ Tv.value > 0
    => Tv.value = lastValue \/ (req[t].kind = "on" /\ Tv.value = 255)

Progress(t) ==
  /\ hpc[t] = "value" => Follows
  /\ hpc[t] \in {"args", "call"} => ReadSoFar(t)
  /\ hpc[t] = "callback" /\ pc[t] = "idle" => Follows
  /\ hpc[t] = "callback" /\ pc[t] # "idle" => Called(t)
  /\ NotDimmed(t)

Following ==
  main # "down" /\ devices # << >> =>
    /\ (\A t \in Thread : ~ControlsTv(t)) => Follows
    /\ \A t \in Thread : ControlsTv(t) => Progress(t)

\* So it is until an access goes astray.
FollowingSoFar == ~strayed => Following

-----------------------------------------------------------------------------
\* What writing a device does to the first one.
LEMMA WriteDeviceFirst ==
  ASSUME LightTypeOK, NEW t \in Thread, NEW field \in Argument,
         NEW x \in [state |-> BOOLEAN, value |-> Brightness][field],
         WriteDevice(t, field, x), ~strayed'
  PROVE  /\ devices # << >> /\ devices' # << >>
         /\ 1 \in DOMAIN devices /\ Tv \in LightDevice
         /\ Place(t) # 1 => Tv' = Tv
         /\ Place(t) = 1 /\ field = "state" => Tv'.state = x /\ Tv'.value = Tv.value
         /\ Place(t) = 1 /\ field = "value" => Tv'.value = x /\ Tv'.state = Tv.state
<1>1. devices \in Seq(LightDevice) /\ devices # << >>
  BY DEF LightTypeOK, ProgramTypeOK, WriteDevice
<1>2. /\ devices' \in Seq(LightDevice) /\ Len(devices') = Len(devices)
      /\ \A i \in DOMAIN devices :
           devices'[i] = IF i = Place(t) THEN [devices[i] EXCEPT ![field] = x]
                         ELSE devices[i]
  <2>1. Found(t) \/ ~Exists(t)
    BY AccessFinds DEF WriteDevice
  <2>2. QED
    BY <1>1, <2>1, WriteDeviceChanges
<1>3. 1 \in DOMAIN devices /\ DOMAIN devices' = DOMAIN devices /\ devices' # << >>
  BY <1>1, <1>2
<1>4. \A i \in DOMAIN devices : devices[i] \in LightDevice
  BY <1>1
<1>7. Place(t) # 1 => Tv' = Tv
  BY <1>2, <1>3 DEF Tv
<1>8. ASSUME Place(t) = 1
      PROVE  /\ field = "state" => Tv'.state = x /\ Tv'.value = Tv.value
             /\ field = "value" => Tv'.value = x /\ Tv'.state = Tv.state
  <2>1. Tv' = [Tv EXCEPT ![field] = x] /\ Tv \in LightDevice
    BY <1>2, <1>3, <1>4, <1>8 DEF Tv
  <2>2. QED
    BY <2>1 DEF LightDevice
<1>9. QED
  BY <1>1, <1>3, <1>4, <1>7, <1>8 DEF Tv

\* Whatever is written, the devices keep their names.
LEMMA WriteDeviceNames ==
  ASSUME LightTypeOK, NEW t \in Thread, NEW field \in Argument,
         NEW x \in [state |-> BOOLEAN, value |-> Brightness][field],
         WriteDevice(t, field, x)
  PROVE  /\ devices # << >> /\ devices' # << >>
         /\ DOMAIN devices' = DOMAIN devices
         /\ \A i \in DOMAIN devices : devices'[i].name = devices[i].name
<1>1. devices \in Seq(LightDevice) /\ devices # << >>
  BY DEF LightTypeOK, ProgramTypeOK, WriteDevice
<1>2. \A i \in DOMAIN devices : devices[i] \in LightDevice
  BY <1>1
<1>3. \A d \in LightDevice : [d EXCEPT ![field] = x].name = d.name
  BY DEF LightDevice, Argument
<1>4. CASE devices' = devices
  BY <1>1, <1>4
<1>5. CASE Exists(t) /\ devices' = [devices EXCEPT ![Place(t)] =
                                      [devices[Place(t)] EXCEPT ![field] = x]]
  BY <1>1, <1>2, <1>3, <1>5 DEF Exists
<1>6. QED
  BY <1>4, <1>5 DEF WriteDevice

LEMMA CourseInit == LightInit => Course
BY NoHandlersType, NoCallsType
   DEF LightInit, Init, Course, Named, Outset, Placed

\* The end of the process.
LEMMA CourseDie ==
  ASSUME Course, NEW cause, Die(cause)
  PROVE  Course'
<1>1. /\ \A t \in Thread : hpc'[t] = "idle" /\ pc'[t] = "idle"
      /\ lastState' = FALSE /\ UNCHANGED devices
  BY DieIdles, NoCallsType DEF Die, Restart
<1>2. QED
  BY <1>1 DEF Course, Named, Outset, Placed

\* A step of a handler, by what it does to its own thread.
LEMMA CourseMoves ==
  ASSUME LightTypeOK, TypeOK, Course, NEW t \in Thread, Handle(t), ~Failure(t),
         DOMAIN devices' = DOMAIN devices,
         \A i \in DOMAIN devices : devices'[i].name = devices[i].name,
         devices = << >> <=> devices' = << >>,
         lastState' = lastState \/ (main # "down" /\ devices # << >>),
         strayed => strayed', Placed(t)'
  PROVE  Course'
<1>1. main' = main /\ \A s \in Thread \ {t} : Untouched(s)
  BY OthersUntouched
<1>2. Named'
  BY DEF Course, Named
<1>4. Outset'
  BY <1>1 DEF Course, Outset
<1>5. \A s \in Thread \ {t} : Placed(s)'
  BY <1>1 DEF Course, Placed, Untouched, Place
<1>6. QED
  BY <1>2, <1>4, <1>5 DEF Course

LEMMA CourseHandle ==
  ASSUME LightTypeOK, TypeOK, Base, Course, TelevisionFirst,
         NEW t \in Thread, Handle(t)
  PROVE  Course'
<1> USE DEF HandlerGoto, Goto, vars, light, program, storage, handler, Place
<1>t. /\ hpc \in [Thread -> HandlerControl] /\ req \in [Thread -> Request]
      /\ unread \in [Thread -> SUBSET Argument] /\ pc \in [Thread -> Control]
  BY DEF LightTypeOK, HandlerTypeOK, TypeOK
<1>p. /\ Placed(t)
      /\ hpc[t] \notin {"idle", "dispatch", "register", "value", "state"}
           => devices # << >>
  BY DEF Course, Base, Seen, PastChecks
<1>1. CASE Failure(t)
  BY <1>1, CourseDie
     DEF Failure, BadIndex, FreedStorage, Overrun, CutShort, ZeroTemperature,
         PeerGone, SerialFails
<1>2. CASE ~Failure(t)
  <2> DEFINE Moves == /\ DOMAIN devices' = DOMAIN devices
                      /\ \A i \in DOMAIN devices : devices'[i].name = devices[i].name
                      /\ devices = << >> <=> devices' = << >>
                      /\ lastState' = lastState \/ (main # "down" /\ devices # << >>)
                      /\ strayed => strayed'
                      /\ Placed(t)'
  <2> SUFFICES Moves
    BY <1>2, CourseMoves
  <2>1. CASE Ignore(t) \/ Register(t) \/ Finish(t)
    BY <2>1, <1>t, <1>p DEF Ignore, Register, Finish, HandlerReturn, Placed
  <2>2. CASE Dispatch(t)
    BY <2>2, <1>t, <1>p DEF Dispatch, Placed
  <2>3. CASE WriteValue(t)
    <3>1. req[t].kind = "bri" /\ UChar(req[t].number) \in Brightness
      BY <2>3, LightAssumption DEF WriteValue, LightTypeOK, HandlerTypeOK
    <3>2. /\ DOMAIN devices' = DOMAIN devices /\ devices # << >> /\ devices' # << >>
          /\ \A i \in DOMAIN devices : devices'[i].name = devices[i].name
      BY <2>3, <3>1, WriteDeviceNames DEF WriteValue, Argument
    <3>3. Placed(t)'
      BY <2>3, <1>t, <1>p DEF WriteValue, WriteDevice, Access, Placed
    <3>4. QED
      BY <2>3, <3>2, <3>3 DEF WriteValue, WriteDevice, Access
  <2>4. CASE WriteState(t)
    <3>1. Wanted(req[t]) \in BOOLEAN
      BY DEF Wanted
    <3>2. /\ DOMAIN devices' = DOMAIN devices /\ devices # << >> /\ devices' # << >>
          /\ \A i \in DOMAIN devices : devices'[i].name = devices[i].name
      BY <2>4, <3>1, WriteDeviceNames DEF WriteState, Argument
    <3>3. Placed(t)'
      BY <2>4, <3>2, <1>t, <1>p DEF WriteState, WriteDevice, Access, Placed
    <3>4. QED
      BY <2>4, <3>2, <3>3 DEF WriteState, WriteDevice, Access
  <2>5. CASE WriteColour(t)
    BY <2>5, <1>t, <1>p DEF WriteColour, Access, Placed
  <2>6. CASE CheckValue(t)
    BY <2>6, <1>t, <1>p DEF CheckValue, Access, Placed
  <2>7. CASE FillValue(t)
    <3>1. /\ DOMAIN devices' = DOMAIN devices /\ devices # << >> /\ devices' # << >>
          /\ \A i \in DOMAIN devices : devices'[i].name = devices[i].name
      BY <2>7, WriteDeviceNames, LightAssumption DEF FillValue, Argument
    <3>2. Placed(t)'
      BY <2>7, <3>1, <1>t, <1>p DEF FillValue, WriteDevice, Access, Placed
    <3>3. QED
      BY <2>7, <3>1, <3>2 DEF FillValue, WriteDevice, Access
  <2>8. CASE Reply(t)
    BY <2>8, <1>t, <1>p DEF Reply, Access, Placed
  <2>9. ASSUME NEW field \in Argument, ReadArgument(t, field) PROVE Moves
    BY <2>9, <1>t, <1>p DEF ReadArgument, Access, Placed
  <2>10. CASE CallBack(t)
    <3>1. devices' = devices /\ lastState' = lastState
      BY <2>10 DEF CallBack, Call, memory
    <3>2. PICK name \in ReadableName(t) :
            Call(t, name, args[t].state, args[t].value)
      BY <2>10 DEF CallBack
    <3>3. name = "fernseher" => Place(t) = 1 \/ strayed'
      <4>1. DOMAIN devices \subseteq DOMAIN Installed
        BY LightAssumption DEF LightTypeOK, ProgramTypeOK
      <4>2. ~strayed' => Found(t) \/ ~Exists(t)
        BY <2>10, AccessFinds DEF CallBack
      <4>3. Found(t) => name = devices[Place(t)].name /\ Exists(t)
        BY <3>2 DEF ReadableName, Found
      <4>4. Found(t) /\ name = "fernseher" => Place(t) = 1
        BY <4>1, <4>3 DEF Exists, Course, Named, TelevisionFirst
      <4>5. ~Exists(t) => name # "fernseher"
        BY <3>2 DEF ReadableName, Found
      <4>6. QED
        BY <4>2, <4>4, <4>5
    <3>4. Placed(t)'
      BY <2>10, <3>2, <3>3, <1>t, <1>p DEF CallBack, Call, Placed
    <3>5. QED
      BY <2>10, <3>1, <3>4 DEF CallBack, Access
  <2>11. CASE ActionPerformed(t)
    <3>1. pc[t] # "idle" /\ hpc[t] = "callback"
      BY <2>11, <1>p DEF ActionPerformed, Step, Compare, Toggle, Store, Select, Remember,
                         Dial, Return, Placed
    <3>2. main # "down" /\ devices # << >>
      BY <3>1, <1>p DEF Base
    <3>3. Placed(t)'
      BY <2>11, <3>1, <1>p DEF ActionPerformed, Placed
    <3>4. QED
      BY <2>11, <3>2, <3>3 DEF ActionPerformed
  <2> HIDE DEF Moves
  <2>12. QED
    BY Zenon, <1>2, <2>1, <2>2, <2>3, <2>4, <2>5, <2>6, <2>7, <2>8, <2>9, <2>10, <2>11
       DEF Handle
<1>3. QED
  BY <1>1, <1>2

LEMMA CourseStep ==
  TelevisionFirst /\ LightTypeOK /\ TypeOK /\ Base /\ Course /\ [LightNext]_lightVars
    => Course'
<1> SUFFICES ASSUME TelevisionFirst, LightTypeOK, TypeOK, Base, Course,
                    [LightNext]_lightVars
             PROVE  Course'
  OBVIOUS
<1> USE DEF vars, light, program, storage, handler
<1>1. CASE Enable \/ MoveDevices \/ SetEnabled \/ (ManualPower /\ UNCHANGED light)
             \/ UNCHANGED lightVars
  BY <1>1 DEF Enable, MoveDevices, SetEnabled, ManualPower, memory, lightVars, Course, Named, Outset,
              Placed, Place
<1>2. CASE AddDevice
  <2>1. /\ devices \in Seq(LightDevice) /\ Len(devices) \in Nat
        /\ devices' = Append(devices, [name |-> Installed[Len(devices) + 1],
                                       state |-> FALSE, value |-> 0])
    BY <1>2 DEF AddDevice, LightTypeOK, ProgramTypeOK
  <2>2. Named'
    BY <2>1 DEF Course, Named
  <2>3. devices' # << >>
    BY <2>1
  <2>4. QED
    BY <1>2, <2>2, <2>3 DEF AddDevice, Course, Outset, Placed, Place
<1>3. CASE Interrupt
  BY <1>3, CourseDie DEF Interrupt
<1>4. CASE StartAgain
  BY <1>4 DEF StartAgain, Base, Course, Named, Outset, Placed, Place
<1>5. ASSUME NEW t \in Thread, NEW request \in Requests[t], Receive(t, request)
      PROVE  Course'
  BY <1>5 DEF Receive, HandlerGoto, LightTypeOK, HandlerTypeOK, Course, Named, Outset,
              Placed, Place
<1>6. ASSUME NEW t \in Thread, Handle(t) PROVE Course'
  BY <1>6, CourseHandle
<1>7. QED
  BY Zenon, <1>1, <1>2, <1>3, <1>4, <1>5, <1>6 DEF LightNext

-----------------------------------------------------------------------------
(***************************************************************************)
(* Following, kept.  A step is either taken by the handler whose turn it   *)
(* is (OneTurn), or begins a turn (TurnBegins), or is none of the          *)
(* television's business (Bystander).                                      *)
(***************************************************************************)
LEMMA OneTurn ==
  ASSUME TakingTurns, NEW t \in Thread, ControlsTv(t),
         \A s \in Thread \ {t} : Untouched(s),
         ControlsTv(t)' => Progress(t)',
         ~ControlsTv(t)' => Follows'
  PROVE  Following'
<1>1. \A s \in Thread \ {t} : ~ControlsTv(s)'
  BY DEF TakingTurns, ControlsTv, PastChecks, Place, Untouched
<1>2. QED
  BY <1>1 DEF Following

LEMMA TurnBegins ==
  ASSUME TakingTurns', Following, main # "down", NEW t \in Thread,
         ~ControlsTv(t), ControlsTv(t)', hpc'[t] \in {"value", "state"},
         \A s \in Thread \ {t} : Untouched(s),
         UNCHANGED << devices, memory >>
  PROVE  Following'
<1>1. \A s \in Thread \ {t} : ~ControlsTv(s)' /\ ~ControlsTv(s)
  BY DEF TakingTurns, ControlsTv, PastChecks, Place, Untouched
<1>2. ASSUME devices # << >> PROVE Follows'
  BY <1>1, <1>2 DEF Following, Follows, Tv, memory
<1>3. ASSUME devices # << >> PROVE Progress(t)'
  BY <1>2, <1>3 DEF Progress, NotDimmed, Follows
<1>4. QED
  BY <1>1, <1>3 DEF Following

LEMMA Bystander ==
  ASSUME Following, main' = main \/ main # "down", NEW t \in Thread,
         ~ControlsTv(t), ~ControlsTv(t)',
         \A s \in Thread \ {t} : Untouched(s),
         devices' # << >> => devices # << >> /\ Tv' = Tv, UNCHANGED memory
  PROVE  Following'
<1>1. \A s \in Thread \ {t} : ControlsTv(s)' <=> ControlsTv(s)
  BY DEF ControlsTv, PastChecks, Place, Untouched
<1> SUFFICES ASSUME devices' # << >> PROVE Following'
  BY DEF Following
<1>2. Follows' <=> Follows
  BY DEF Follows, memory
<1>3. ASSUME NEW s \in Thread \ {t}, Progress(s) PROVE Progress(s)'
  <2>1. ReadSoFar(s) => ReadSoFar(s)'
    BY DEF ReadSoFar, Untouched
  <2>2. Called(s) => Called(s)'
    BY DEF Called, Untouched, memory
  <2>3. NotDimmed(s) => NotDimmed(s)'
    BY DEF NotDimmed, Untouched, memory
  <2>4. QED
    BY <1>2, <1>3, <2>1, <2>2, <2>3 DEF Progress, Untouched
<1>4. QED
  BY <1>1, <1>2, <1>3 DEF Following

\* What has not strayed after a step of a handler had not before.
LEMMA StrayedBefore ==
  ASSUME LightTypeOK, TypeOK, NEW t \in Thread, Handle(t), ~strayed'
  PROVE  ~strayed
<1>1. LightNext
  BY DEF LightNext
<1>2. CASE StartAgain
  <2>1. main = "down" /\ main' = "start"
    BY <1>2 DEF StartAgain
  <2>2. CASE Failure(t)
    BY <2>1, <2>2, DieIdles
       DEF Failure, BadIndex, FreedStorage, Overrun, CutShort, ZeroTemperature,
         PeerGone, SerialFails
  <2>3. CASE ~Failure(t)
    BY <2>1, <2>3, OthersUntouched
  <2>4. QED
    BY <2>2, <2>3
<1>3. QED
  BY <1>1, <1>2, StrayedStays

LEMMA BystanderHandle ==
  ASSUME LightTypeOK, TypeOK, Course, Following, NEW t \in Thread,
         Handle(t), ~Failure(t), ~ControlsTv(t), ~ControlsTv(t)', ~strayed'
  PROVE  Following'
<1> USE DEF HandlerGoto, light, program, handler
<1>1. main' = main /\ \A s \in Thread \ {t} : Untouched(s)
  BY OthersUntouched
<1>2. PastChecks(t) => Place(t) # 1
  BY DEF ControlsTv
<1>s. ~strayed
  BY StrayedBefore
<1>3. CASE Ignore(t) \/ Register(t) \/ Finish(t) \/ Dispatch(t) \/ WriteColour(t) \/ CheckValue(t)
             \/ Reply(t) \/ (\E field \in Argument : ReadArgument(t, field))
  <2>1. UNCHANGED << devices, memory >>
    BY <1>3 DEF Ignore, Register, Finish, HandlerReturn, Dispatch, WriteColour,
                CheckValue, Reply, ReadArgument, vars, memory
  <2>2. QED
    BY <1>1, <2>1, Bystander DEF Tv
<1>4. CASE CallBack(t)
  <2>1. UNCHANGED << devices, memory >>
    BY <1>4 DEF CallBack, Call
  <2>2. QED
    BY <1>1, <2>1, Bystander DEF Tv
<1>5. CASE WriteValue(t)
  <2>1. UChar(req[t].number) \in Brightness
    BY <1>5, LightAssumption DEF WriteValue, LightTypeOK, HandlerTypeOK
  <2>2. devices # << >> /\ Tv' = Tv
    BY <1>2, <1>5, <2>1, WriteDeviceFirst DEF WriteValue, Argument, PastChecks
  <2>3. UNCHANGED memory
    BY <1>5 DEF WriteValue, vars, memory
  <2>4. QED
    BY <1>1, <2>2, <2>3, Bystander
<1>6. CASE WriteState(t)
  <2>1. Wanted(req[t]) \in BOOLEAN
    BY DEF Wanted
  <2>2. devices # << >> /\ Tv' = Tv
    BY <1>2, <1>6, <2>1, WriteDeviceFirst DEF WriteState, Argument, PastChecks
  <2>3. UNCHANGED memory
    BY <1>6 DEF WriteState, vars, memory
  <2>4. QED
    BY <1>1, <2>2, <2>3, Bystander
<1>7. CASE FillValue(t)
  <2>1. devices # << >> /\ Tv' = Tv
    BY <1>2, <1>7, LightAssumption, WriteDeviceFirst DEF FillValue, Argument, PastChecks
  <2>2. UNCHANGED memory
    BY <1>7 DEF FillValue, vars, memory
  <2>3. QED
    BY <1>1, <2>1, <2>2, Bystander
<1>8. ~ActionPerformed(t)
  <2>1. ActionPerformed(t) => pc[t] # "idle"
    BY DEF ActionPerformed, Step, Compare, Toggle, Store, Select, Remember, Dial, Return
  <2>2. pc[t] = "idle"
    BY <1>2, <1>s DEF Course, Placed, PastChecks
  <2>3. QED
    BY <2>1, <2>2
<1>9. QED
  BY <1>3, <1>4, <1>5, <1>6, <1>7, <1>8 DEF Handle

(***************************************************************************)
(* The turn itself: the handler before it calls actionPerformed, and       *)
(* inside.                                                                 *)
(***************************************************************************)
LEMMA TurnGoesOn ==
  ASSUME LightTypeOK, TypeOK, Course, Following, TakingTurns, NEW t \in Thread,
         ControlsTv(t), main # "down", devices # << >>,
         Handle(t), ~Failure(t),
         devices' # << >>, req' = req, PastChecks(t)', Progress(t)'
  PROVE  Following'
<1>1. \A s \in Thread \ {t} : Untouched(s)
  BY OthersUntouched
<1>2. ControlsTv(t)'
  BY DEF ControlsTv, Place
<1>3. QED
  BY <1>1, <1>2, OneTurn

LEMMA TurnOfHandler ==
  ASSUME LightTypeOK, TypeOK, Base, Course, Following, TakingTurns, TelevisionFirst,
         NEW t \in Thread, ControlsTv(t), Handle(t), ~Failure(t), ~ActionPerformed(t),
         ~strayed'
  PROVE  Following'
<1> USE DEF HandlerGoto, light, program, handler
<1>t. /\ hpc \in [Thread -> HandlerControl] /\ req \in [Thread -> Request]
      /\ unread \in [Thread -> SUBSET Argument] /\ pc \in [Thread -> Control]
      /\ args \in [Thread -> [state : BOOLEAN, value : Brightness]]
      /\ arg \in [Thread -> [state : BOOLEAN, value : Brightness \cup {0}]]
      /\ devices \in Seq(LightDevice)
  BY DEF LightTypeOK, HandlerTypeOK, ProgramTypeOK, TypeOK
<1>p. PastChecks(t) /\ Place(t) = 1 /\ Placed(t) /\ main # "down"
  BY DEF ControlsTv, Course, Base, PastChecks
<1>o. \A s \in Thread \ {t} : Untouched(s)
  BY OthersUntouched
<1>1. ~Ignore(t) /\ ~Dispatch(t) /\ ~Register(t)
  BY <1>p DEF Ignore, Dispatch, Register, PastChecks
<1>2. CASE WriteValue(t)
  <2>1. req[t].kind = "bri" /\ UChar(req[t].number) \in Brightness
    BY <1>2, LightAssumption DEF WriteValue, LightTypeOK, HandlerTypeOK
  <2>2. devices # << >> /\ devices' # << >>
    BY <1>2, <2>1, WriteDeviceFirst DEF WriteValue, Argument
  <2>3. hpc'[t] = "state" /\ req' = req
    BY <1>2, <1>t DEF WriteValue
  <2>4. Progress(t)'
    BY <2>1, <2>3 DEF Progress, NotDimmed
  <2>5. QED
    BY <1>p, <2>2, <2>3, <2>4, TurnGoesOn DEF PastChecks
<1>3. CASE WriteState(t)
  <2>1. Wanted(req[t]) \in BOOLEAN
    BY DEF Wanted
  <2>2. devices # << >> /\ devices' # << >> /\ Tv'.value = Tv.value
    BY <1>3, <1>p, <2>1, WriteDeviceFirst DEF WriteState, Argument
  <2>3. hpc'[t] \in {"colour", "check", "reply"} /\ req' = req /\ UNCHANGED memory
    BY <1>3, <1>t DEF WriteState, vars, memory
  <2>4. NotDimmed(t)
    BY <1>p, <2>2 DEF Following, Progress
  <2>5. Progress(t)'
    BY <2>2, <2>3, <2>4 DEF Progress, NotDimmed, memory
  <2>6. QED
    BY <1>p, <2>2, <2>3, <2>5, TurnGoesOn DEF PastChecks
<1>4. CASE ~WriteValue(t) /\ ~WriteState(t)
  <2>1. hpc[t] \notin {"idle", "dispatch", "register", "value", "state"}
    BY <1>4, <1>p, <1>1
       DEF Handle, WriteColour, CheckValue, FillValue, Reply, ReadArgument, CallBack,
           Finish, PastChecks
  <2>2. devices # << >> /\ 1 \in DOMAIN devices /\ Tv \in LightDevice /\ Exists(t)
    BY <2>1, <1>p, <1>t DEF Base, Seen, PastChecks, Exists, Tv
  <2>3. Progress(t)
    BY <1>p, <2>2 DEF Following
  <2>4. CASE WriteColour(t) \/ CheckValue(t)
    <3>1. /\ hpc'[t] \in {"reply", "fill"} /\ req' = req
          /\ UNCHANGED << devices, memory >>
      BY <2>4, <1>t DEF WriteColour, CheckValue, vars, memory
    <3>2. Progress(t)'
      BY <2>3, <3>1 DEF Progress, NotDimmed, memory, Tv
    <3>3. QED
      BY <1>p, <2>2, <3>1, <3>2, TurnGoesOn DEF PastChecks
  <2>5. CASE FillValue(t)
    <3>1. devices' # << >> /\ Tv'.value = 255
      BY <2>5, <1>p, LightAssumption, WriteDeviceFirst DEF FillValue, Argument
    <3>2. hpc'[t] = "reply" /\ req' = req /\ req[t].kind = "on"
      BY <2>5, <1>t, <1>p DEF FillValue, Placed
    <3>3. Progress(t)'
      BY <3>1, <3>2 DEF Progress, NotDimmed
    <3>4. QED
      BY <1>p, <2>2, <3>1, <3>2, <3>3, TurnGoesOn DEF PastChecks
  <2>6. CASE Reply(t)
    <3>1. /\ hpc'[t] = "args" /\ req' = req /\ unread'[t] = Argument
          /\ UNCHANGED << devices, memory >>
      BY <2>6, <1>t DEF Reply, vars, memory
    <3>2. Progress(t)'
      BY <2>3, <3>1 DEF Progress, NotDimmed, ReadSoFar, memory, Tv
    <3>3. QED
      BY <1>p, <2>2, <3>1, <3>2, TurnGoesOn DEF PastChecks
  <2>7. ASSUME NEW field \in Argument, ReadArgument(t, field) PROVE Following'
    <3>1. /\ hpc'[t] \in {"args", "call"} /\ req' = req /\ hpc[t] = "args"
          /\ unread'[t] = unread[t] \ {field}
          /\ UNCHANGED << devices, memory >>
      BY <2>7, <1>t DEF ReadArgument, vars, memory
    <3>2. args' = [args EXCEPT ![t][field] = Tv[field]]
      <4>1. Found(t)
        BY <2>2, <2>7, AccessFinds DEF ReadArgument
      <4>2. QED
        BY <4>1, <2>7, <1>p DEF ReadArgument, Readable, Tv
    <3>3. \A other \in Argument :
            args'[t][other] = IF other = field THEN Tv[field] ELSE args[t][other]
      BY <3>2, <1>t DEF Argument
    <3>4. ReadSoFar(t)'
      BY <2>3, <3>1, <3>3 DEF Progress, ReadSoFar, Tv
    <3>5. Progress(t)'
      BY <2>3, <3>1, <3>4 DEF Progress, NotDimmed, memory, Tv
    <3>6. QED
      BY <1>p, <2>2, <3>1, <3>5, TurnGoesOn DEF PastChecks
  <2>8. CASE CallBack(t)
    <3>1. Call(t, "fernseher", args[t].state, args[t].value)
      <4>1. 1 \in DOMAIN Installed
        BY <2>2, <1>t, LightAssumption DEF LightTypeOK, ProgramTypeOK
      <4>2. devices[1].name = "fernseher"
        BY <2>2, <4>1 DEF Course, Named, TelevisionFirst
      <4>4. Found(t)
        BY <2>2, <2>8, AccessFinds DEF CallBack
      <4>3. QED
        BY <4>4, <2>8, <4>2, <1>p DEF CallBack, ReadableName
    <3>2. args[t].state = Tv.state /\ args[t].value = Tv.value
      BY <2>3, <2>8, <1>p DEF CallBack, Progress, ReadSoFar, Placed, Argument
    <3>3. /\ hpc'[t] = "callback" /\ req' = req /\ pc'[t] = "compare"
          /\ arg'[t].state = Tv.state /\ arg'[t].value = Tv.value
          /\ UNCHANGED << devices, memory >>
      BY <2>8, <3>1, <3>2, <1>t DEF CallBack, Call, Goto
    <3>4. Progress(t)'
      BY <2>3, <3>3 DEF Progress, Called, NotDimmed, memory, Tv
    <3>5. QED
      BY <1>p, <2>2, <3>3, <3>4, TurnGoesOn DEF PastChecks
  <2>9. CASE Finish(t)
    <3>1. hpc'[t] = "idle" /\ UNCHANGED << devices, memory >>
      BY <2>9, <1>t DEF Finish, HandlerReturn, vars, memory
    <3>2. Follows'
      BY <2>3, <2>9, <3>1 DEF Finish, Progress, Follows, memory, Tv
    <3>3. ~ControlsTv(t)'
      BY <3>1 DEF ControlsTv, PastChecks
    <3>4. QED
      BY <1>o, <3>2, <3>3, OneTurn
  <2>10. QED
    BY <1>4, <1>1, <2>4, <2>5, <2>6, <2>7, <2>8, <2>9 DEF Handle
<1>5. QED
  BY <1>2, <1>3, <1>4

LEMMA TurnOfRemoteControl ==
  ASSUME LightTypeOK, TypeOK, Base, Course, Following, TakingTurns,
         NEW t \in Thread, ControlsTv(t), Handle(t), ~Failure(t), ActionPerformed(t)
  PROVE  Following'
<1> USE DEF Goto, memory
<1>t. /\ pc \in [Thread -> Control]
      /\ arg \in [Thread -> [state : BOOLEAN, value : Brightness \cup {0}]]
      /\ devices \in Seq(LightDevice)
  BY DEF LightTypeOK, ProgramTypeOK, TypeOK
<1>1. /\ hpc[t] = "callback" /\ pc[t] # "idle" /\ Step(t)
      /\ main # "down" /\ devices # << >>
      /\ UNCHANGED << devices, hpc, req >>
  <2>1. Step(t) /\ UNCHANGED << devices, hpc, req >>
    BY DEF ActionPerformed, light, program, handler
  <2>2. pc[t] # "idle"
    BY <2>1 DEF Step, Compare, Toggle, Store, Select, Remember, Dial, Return
  <2>3. hpc[t] = "callback"
    BY <2>2 DEF Course, Placed
  <2>4. main # "down" /\ devices # << >>
    BY <2>3 DEF Base, Seen, PastChecks
  <2>5. QED
    BY <2>1, <2>2, <2>3, <2>4
<1>2. Called(t) /\ NotDimmed(t) /\ Tv \in LightDevice
  <2>1. Tv \in LightDevice
    BY <1>1, <1>t DEF Tv
  <2>2. QED
    BY <1>1, <2>1 DEF Following, Progress
<1>3. Tv' = Tv
  BY <1>1 DEF Tv
<1>4. arg' = arg
  BY <1>1 DEF Step, Compare, Toggle, Store, Select, Remember, Dial, Return
<1>5. /\ NotDimmed(t)'
      /\ pc'[t] = "idle" => Follows'
      /\ pc'[t] # "idle" => Called(t)'
  <2>1. CASE Compare(t)
    BY <2>1, <1>1, <1>2, <1>3, <1>4, <1>t, KeysAssumption DEF Compare, Called, NotDimmed
  <2>2. CASE Toggle(t)
    BY <2>2, <1>1, <1>2, <1>3, <1>4, <1>t DEF Toggle, Called, NotDimmed
  <2>3. CASE Store(t)
    BY <2>3, <1>1, <1>2, <1>3, <1>4, <1>t DEF Store, Called, NotDimmed
  <2>4. CASE Select(t)
    BY <2>4, <1>1, <1>2, <1>3, <1>4, <1>t DEF Select, Called, NotDimmed, Follows
  <2>5. CASE Remember(t)
    BY <2>5, <1>1, <1>2, <1>3, <1>4, <1>t DEF Remember, Called, NotDimmed
  <2>6. CASE Dial(t)
    BY <2>6, <1>1, <1>2, <1>3, <1>4, <1>t DEF Dial, Called, NotDimmed
  <2>7. CASE Return(t)
    BY <2>7, <1>1, <1>2, <1>3, <1>4, <1>t DEF Return, Called, NotDimmed, Follows
  <2>8. QED
    BY <1>1, <2>1, <2>2, <2>3, <2>4, <2>5, <2>6, <2>7 DEF Step
<1>6. Progress(t)'
  BY <1>1, <1>5 DEF Progress
<1>7. QED
  BY <1>1, <1>6, TurnGoesOn DEF PastChecks

LEMMA FollowingHandle ==
  ASSUME LightTypeOK, TypeOK, Base, Course, Following, TakingTurns, TakingTurns',
         TelevisionFirst, NEW t \in Thread, Handle(t), ~strayed'
  PROVE  Following'
<1>1. CASE Failure(t)
  BY <1>1, DieIdles
     DEF Failure, BadIndex, FreedStorage, Overrun, CutShort, ZeroTemperature,
         PeerGone, SerialFails, Following
<1>2. CASE ~Failure(t) /\ ControlsTv(t)
  BY <1>2, TurnOfHandler, TurnOfRemoteControl
<1>3. CASE ~Failure(t) /\ ~ControlsTv(t) /\ ~ControlsTv(t)'
  BY <1>3, BystanderHandle
<1>4. CASE ~Failure(t) /\ ~ControlsTv(t) /\ ControlsTv(t)'
  <2>1. hpc[t] = "dispatch"
    <3>1. hpc[t] \in {"idle", "dispatch", "register"} \/ Place(t) # 1
      BY <1>4 DEF ControlsTv, PastChecks
    <3>2. hpc[t] \in {"idle", "register"} => hpc' = hpc \/ hpc'[t] = "idle"
      BY <1>4 DEF Handle, Ignore, Dispatch, Register, WriteValue, WriteState,
                  WriteColour, CheckValue, FillValue, Reply, ReadArgument, CallBack, Finish,
                  ActionPerformed, HandlerReturn, HandlerGoto, light, handler,
                  LightTypeOK, HandlerTypeOK
    <3>3. req' = req \/ hpc'[t] = "idle"
      BY <1>4 DEF Handle, Ignore, Dispatch, Register, WriteValue, WriteState,
                  WriteColour, CheckValue, FillValue, Reply, ReadArgument, CallBack, Finish,
                  ActionPerformed, HandlerReturn, HandlerGoto, light, handler,
                  LightTypeOK, HandlerTypeOK
    <3>4. QED
      BY <1>4, <3>1, <3>2, <3>3 DEF ControlsTv, PastChecks, Place
  <2>2. Dispatch(t)
    <3>1. ~Ignore(t)
      BY <1>4 DEF Ignore, HandlerReturn, HandlerGoto, LightTypeOK, HandlerTypeOK,
                  ControlsTv, PastChecks
    <3>2. ~ActionPerformed(t)
      BY <1>4, <2>1 DEF ActionPerformed, light, handler, ControlsTv, PastChecks
    <3>3. QED
      BY <1>4, <2>1, <3>1, <3>2
         DEF Handle, Register, WriteValue, WriteState, WriteColour, CheckValue, FillValue,
             Reply, ReadArgument, CallBack, Finish
  <2>3. /\ main # "down" /\ hpc'[t] \in {"value", "state"}
        /\ UNCHANGED << devices, memory >>
    <3>1. main # "down"
      BY <2>1 DEF Base
    <3>2. hpc'[t] \in {"register", "value", "state"} /\ UNCHANGED << devices, memory >>
      BY <2>2 DEF Dispatch, HandlerGoto, LightTypeOK, HandlerTypeOK, program, vars, memory
    <3>3. hpc'[t] # "register"
      BY <1>4 DEF ControlsTv, PastChecks
    <3>4. QED
      BY <3>1, <3>2, <3>3
  <2>4. \A s \in Thread \ {t} : Untouched(s)
    BY <1>4, OthersUntouched
  <2>5. QED
    BY <1>4, <2>3, <2>4, TurnBegins
<1>5. QED
  BY <1>1, <1>2, <1>3, <1>4

LEMMA FollowingInit == LightInit => Following
BY DEF LightInit, Following

LEMMA FollowingStep ==
  TelevisionFirst /\ LightTypeOK /\ TypeOK /\ Base /\ Course /\ FollowingSoFar
    /\ TakingTurns /\ TakingTurns' /\ [LightNext]_lightVars
    => FollowingSoFar'
<1> SUFFICES ASSUME TelevisionFirst, LightTypeOK, TypeOK, Base, Course, FollowingSoFar,
                    TakingTurns, TakingTurns', [LightNext]_lightVars, ~strayed'
             PROVE  Following'
  BY DEF FollowingSoFar
<1>s. StartAgain \/ Following
  BY StrayedStays DEF FollowingSoFar
<1> USE DEF vars, memory, light, program, storage, handler
<1>1. CASE Enable \/ Interrupt \/ StartAgain
  <2>1. main' = "down" \/ devices' = << >>
    BY <1>1, DieIdles DEF Enable, Interrupt, StartAgain, LightTypeOK, ProgramTypeOK
  <2>2. QED
    BY <2>1 DEF Following
<1>2. CASE SetEnabled \/ MoveDevices \/ (ManualPower /\ UNCHANGED light) \/ UNCHANGED lightVars
  <2>1. UNCHANGED << devices, memory, pc, arg, handler >>
    BY <1>2 DEF SetEnabled, MoveDevices, ManualPower, lightVars
  <2>3. Following
    <3>1. ~StartAgain \/ devices' = << >>
      BY DEF StartAgain
    <3>2. Following \/ devices' = << >>
      BY <1>s, <3>1
    <3>3. devices = << >> => Following
      BY DEF Following
    <3>4. QED
      BY <2>1, <3>2, <3>3
  <2>4. main = main' \/ main = "add"
    BY <1>2 DEF SetEnabled, MoveDevices, lightVars
  <2>2. QED
    BY <2>1, <2>3, <2>4 DEF Following, ControlsTv, PastChecks, Place, Progress, NotDimmed, Called,
                ReadSoFar, Follows, Tv
<1>3. CASE AddDevice
  <2>1. /\ devices \in Seq(LightDevice) /\ main # "down"
        /\ devices' = Append(devices, [name |-> Installed[Len(devices) + 1],
                                       state |-> FALSE, value |-> 0])
        /\ UNCHANGED << memory, pc, arg, handler >>
    BY <1>3 DEF AddDevice, LightTypeOK, ProgramTypeOK
  <2>2. CASE devices = << >>
    <3>1. Tv' = [name |-> Installed[1], state |-> FALSE, value |-> 0]
      BY <2>1, <2>2 DEF Tv
    <3>2. Tv'.state = FALSE /\ Tv'.value = 0
      BY <3>1
    <3>3. lastState' = FALSE
      <4>1. lastState = FALSE
        BY <2>2 DEF Course, Outset
      <4>2. lastState' = lastState
        BY <2>1
      <4>3. QED
        BY <4>1, <4>2
    <3>4. Follows'
      <4>1. lastState' = Tv'.state
        BY Zenon, <3>2, <3>3
      <4>2. ~(Tv'.value > 0)
        BY <3>2
      <4>3. QED
        BY Zenon, <4>1, <4>2 DEF Follows
    <3>5. ASSUME NEW t \in Thread PROVE Progress(t)'
      <4>1. hpc'[t] \in {"idle", "dispatch", "register", "value", "state"}
        BY <2>1, <2>2 DEF Base, Seen, PastChecks
      <4>2. QED
        BY <3>2, <3>4, <4>1 DEF Progress, NotDimmed
    <3>6. QED
      BY <3>4, <3>5 DEF Following
  <2>3. CASE devices # << >>
    <3>1. Tv' = Tv
      BY <2>1, <2>3 DEF Tv
    <3>3. Following
      BY <1>s, <2>1 DEF StartAgain
    <3>2. QED
      BY <2>1, <2>3, <3>1, <3>3 DEF Following, ControlsTv, PastChecks, Place, Progress,
                              NotDimmed, Called, ReadSoFar, Follows
  <2>4. QED
    BY <2>2, <2>3
<1>4. ASSUME NEW t \in Thread, NEW request \in Requests[t], Receive(t, request)
      PROVE  Following'
  <2>1. /\ ~ControlsTv(t) /\ ~ControlsTv(t)' /\ main' = main
        /\ UNCHANGED << devices, memory >>
        /\ \A s \in Thread \ {t} : Untouched(s)
    BY <1>4 DEF Receive, HandlerGoto, LightTypeOK, HandlerTypeOK, ControlsTv, PastChecks,
                Untouched
  <2>3. Following
    <3>1. main # "down"
      BY <1>4 DEF Receive
    <3>2. QED
      BY <1>s, <3>1 DEF StartAgain
  <2>2. QED
    BY <2>1, <2>3, Bystander DEF Tv
<1>5. ASSUME NEW t \in Thread, Handle(t) PROVE Following'
  BY <1>5, FollowingHandle, StrayedBefore DEF FollowingSoFar
<1>6. QED
  BY Zenon, <1>1, <1>2, <1>3, <1>4, <1>5 DEF LightNext

-----------------------------------------------------------------------------
\* What the program keeps while requests for the television take turns.
LEMMA FollowingKept ==
  ASSUME TelevisionFirst
  PROVE  LightSpec => [](LightTypeOK /\ TypeOK /\ Base /\ Course)
                        /\ ([]TakingTurns => []FollowingSoFar)
<1>1. LightInit => Base /\ Course /\ FollowingSoFar
  BY BaseInit, CourseInit, FollowingInit DEF FollowingSoFar
<1>2. LightTypeOK /\ Base /\ [LightNext]_lightVars => Base'
  BY BaseStep
<1>3. LightTypeOK /\ TypeOK /\ Base /\ Course /\ [LightNext]_lightVars => Course'
  BY CourseStep
<1>4. LightTypeOK /\ TypeOK /\ Base /\ Course /\ FollowingSoFar
        /\ TakingTurns /\ TakingTurns' /\ [LightNext]_lightVars
        => FollowingSoFar'
  BY FollowingStep
<1>5. QED
  BY <1>1, <1>2, <1>3, <1>4, LightTypeCorrect, RemoteControlTypes, PTL DEF LightSpec

LEMMA FollowingTold ==
  ASSUME LightTypeOK, Base, Course, FollowingSoFar, TelevisionFirst
  PROVE  TvFollowsLight
<1> SUFFICES ASSUME Settled, ~strayed, NEW i \in DOMAIN devices,
                    devices[i].name = "fernseher"
             PROVE  /\ devices[i].state = lastState
                    /\ devices[i].value > 0 => devices[i].value = lastValue
  BY DEF TvFollowsLight
<1>1. devices # << >> /\ i = 1
  BY LightAssumption
     DEF LightTypeOK, ProgramTypeOK, Course, Named, TelevisionFirst
<1>2. Follows
  BY <1>1 DEF FollowingSoFar, Following, Settled, ControlsTv, PastChecks
<1>3. QED
  BY <1>1, <1>2 DEF Follows, Tv

\* The television is in step with _last_state until an access goes astray, and
\* again once the process has ended.
InStepSoFar == ~strayed \/ main = "down" => InStep

LEMMA TurnsApart ==
  ASSUME Base, Course, TakingTurns, ~strayed \/ main = "down"
  PROVE  TogglesApart
BY DEF Base, Course, Placed, TakingTurns, ControlsTv, PastChecks, TogglesApart, Toggling

LEMMA RestartInStep ==
  ASSUME TypeOK, Restart
  PROVE  InStep'
<1>1. \A t \in Thread : pc'[t] = "idle"
  BY NoCallsType DEF Restart
<1>2. ~Ahead' /\ \A t \in Thread : ~Toggling(t)'
  BY <1>1 DEF Ahead, Toggling
<1>3. (tvOn # lastState)' <=> drift'
  BY Zenon DEF Restart, TypeOK
<1>4. QED
  BY <1>2, <1>3 DEF InStep

LEMMA InStepStep ==
  ASSUME LightTypeOK, TypeOK, TypeOK', Base, Base', Course, Course',
         TakingTurns, TakingTurns', InStepSoFar, [LightNext]_lightVars
  PROVE  InStepSoFar'
<1> SUFFICES ASSUME ~strayed' \/ main' = "down" PROVE InStep'
  BY DEF InStepSoFar
<1>1. CASE Restart
  BY <1>1, RestartInStep
<1>2. CASE ~Restart
  <2>1. main' = "down" => main = "down"
    <3>1. CASE \E t \in Thread : Handle(t)
      <4>1. PICK t \in Thread : Handle(t)
        BY <3>1
      <4>2. ~Failure(t)
        BY <1>2 DEF Failure, BadIndex, FreedStorage, Overrun, CutShort,
                    ZeroTemperature, PeerGone, SerialFails, Die
      <4>3. QED
        BY <4>1, <4>2, OthersUntouched
    <3>2. ~Interrupt
      BY <1>2 DEF Interrupt, Die
    <3>3. CASE ~\E t \in Thread : Handle(t)
      BY <3>2, <3>3 DEF LightNext, Enable, MoveDevices, AddDevice, SetEnabled,
                        StartAgain, Receive, lightVars, light, program
    <3>4. QED
      BY <3>1, <3>3
  <2>2. StartAgain => main = "down"
    BY DEF StartAgain
  <2>3. ~strayed \/ main = "down"
    BY <2>1, <2>2, StrayedStays
  <2>4. InStep /\ TogglesApart /\ TogglesApart'
    <3>1. InStep /\ TogglesApart
      BY <2>3, TurnsApart DEF InStepSoFar
    <3>2. TogglesApart'
      BY DEF Base, Course, Placed, TakingTurns, ControlsTv, PastChecks, TogglesApart,
             Toggling
    <3>3. QED
      BY <3>1, <3>2
  <2>5. [Next]_vars
    BY LightStepsRemoteControl
  <2>6. QED
    BY <2>4, <2>5, InStepInductive
<1>3. QED
  BY <1>1, <1>2

(***************************************************************************)
(* The light, the remote control's memory and the television agree         *)
(* whenever nothing is being handled, as long as requests for the          *)
(* television take turns and no access of a handler goes astray: whatever  *)
(* connections do with other lights meanwhile, and wherever main has got   *)
(* with adding its devices, the one race between requests that misleads    *)
(* the remote control is that between two requests for the television      *)
(* (fauxmoLINUX.cpp:310-370, remote_control.cpp:378-395).                  *)
(***************************************************************************)
THEOREM OverlapAloneMisleads ==
  ASSUME TelevisionFirst
  PROVE  LightSpec => OnlyOverlapMisleads
<1>1. LightInit => InStepSoFar
  BY InStepInitial DEF LightInit, InStepSoFar
<1>2. LightTypeOK /\ TypeOK /\ TypeOK' /\ Base /\ Base' /\ Course /\ Course'
        /\ TakingTurns /\ TakingTurns' /\ InStepSoFar /\ [LightNext]_lightVars
        => InStepSoFar'
  BY InStepStep
<1>3. LightTypeOK /\ Base /\ Course /\ FollowingSoFar => TvFollowsLight
  BY FollowingTold
<1>4. TypeOK /\ Course /\ TvFollowsLight /\ InStepSoFar /\ LightTypeOK => LightTellsPower
  <2> SUFFICES ASSUME TypeOK, Course, TvFollowsLight, InStepSoFar, LightTypeOK,
                      Settled, ~strayed, ~drift, NEW i \in DOMAIN devices,
                      devices[i].name = "fernseher"
               PROVE  devices[i].state <=> tvOn
    BY DEF LightTellsPower
  <2>1. Quiet
    BY DEF Settled, Course, Placed, Quiet
  <2>2. devices[i].state = lastState
    BY DEF TvFollowsLight
  <2>3. PowerTracksState
    BY InStepTracks DEF InStepSoFar
  <2>4. tvOn = lastState
    BY <2>1, <2>3 DEF PowerTracksState, TypeOK
  <2>5. QED
    BY <2>2, <2>4
<1>5. QED
  BY <1>1, <1>2, <1>3, <1>4, FollowingKept, PTL DEF LightSpec, OnlyOverlapMisleads

\* A channel that is dialled.
LEMMA DialsWhatItShould ==
  ASSUME LightTypeOK, TypeOK, Base, Course, FollowingSoFar, ~strayed,
         [LightNext]_lightVars, NEW t \in Thread, pc[t] = "remember", pc'[t] = "dial"
  PROVE  req[t].kind = "bri" \/ (req[t].kind = "on" /\ lastValue' = 255)
<1>1. /\ hpc[t] = "callback" /\ ControlsTv(t) /\ main # "down" /\ devices # << >>
  BY DEF Course, Placed, ControlsTv, PastChecks, Base, Seen
<1>2. Called(t) /\ NotDimmed(t)
  BY <1>1 DEF FollowingSoFar, Following, Progress
<1>3. Tv.value > 0 /\ Tv.value # lastValue /\ arg[t].value = Tv.value
  <2>1. arg[t].value \in Brightness \ {0}
    BY DEF TypeOK
  <2>2. arg[t].value > 0
    BY <2>1, BrightnessAssumption
  <2>3. QED
    BY <1>2, <2>2 DEF Called
<1>4. Remember(t)
  <2>1. pc' # pc /\ [Next]_vars
    BY LightStepsRemoteControl
  <2>2. ~Restart
    BY NoCallsType DEF Restart
  <2>3. PICK s \in Thread :
          Step(s) \/ \E name \in DeviceName, state \in BOOLEAN, value \in Brightness :
                      Call(s, name, state, value)
    BY <2>1, <2>2 DEF Next, ManualPower, vars
  <2>4. s = t
    BY <2>3 DEF Step, Compare, Toggle, Store, Select, Remember, Dial, Return, Call, Goto,
                TypeOK
  <2>5. QED
    BY <2>3, <2>4 DEF Step, Compare, Toggle, Store, Select, Dial, Return, Call
<1>5. QED
  BY <1>2, <1>3, <1>4 DEF NotDimmed, Remember

(***************************************************************************)
(* While requests for the television take turns, "on" and "off" dial       *)
(* nothing, but for the brightness 255 that "on" fills in, unless an       *)
(* access has gone astray (fauxmoLINUX.cpp:352, remote_control.cpp:388).   *)
(***************************************************************************)
THEOREM SwitchingDialsNothing ==
  ASSUME TelevisionFirst
  PROVE  LightSpec /\ []TakingTurns => SwitchingDialsFullOnly
<1>1. LightTypeOK /\ TypeOK /\ Base /\ Course /\ FollowingSoFar
        /\ [LightNext]_lightVars
        => [\A t \in Thread :
              pc[t] = "remember" /\ pc'[t] = "dial" /\ ~strayed =>
                req[t].kind = "bri" \/ (req[t].kind = "on" /\ lastValue' = 255)]_lightVars
  BY DialsWhatItShould
<1>2. QED
  BY <1>1, FollowingKept, PTL DEF LightSpec, SwitchingDialsFullOnly

(***************************************************************************)
(* One connection cannot overlap with itself: it reads its next request    *)
(* when the last is done with (tcpsocket.hpp:102-110).  So on one          *)
(* connection all of it holds until an access goes astray, which with one  *)
(* installed light none ever does (OneLightNeverStrays).                   *)
(***************************************************************************)
THEOREM OneConnectionFollows ==
  ASSUME TelevisionFirst, \A s, t \in Thread : s = t
  PROVE  LightSpec => [](TvFollowsLight /\ LightTellsPower) /\ SwitchingDialsFullOnly
<1>1. TakingTurns
  BY DEF TakingTurns
<1>2. QED
  BY <1>1, OverlapAloneMisleads, SwitchingDialsNothing, PTL DEF OnlyOverlapMisleads
=============================================================================
