---------------------------- MODULE LightControl ----------------------------
(***************************************************************************)
(* The emulated lights of src/fauxmoLINUX.cpp under way: main enables the  *)
(* server and adds its devices, while the receive thread of each           *)
(* connection handles requests, writes _devices, replies and calls         *)
(* RemoteControl's actionPerformed.  main and the handlers share _devices  *)
(* and _enabled without a lock; each access is a step.                     *)
(*                                                                         *)
(* The text of a request is abstracted to what _onTCPControl finds in it.  *)
(* A request may end too early, since a handler gets what one recv         *)
(* returned and not a whole request.                                       *)
(*                                                                         *)
(* push_back moves _devices to a larger storage whenever there is no room  *)
(* left, and frees the old one.  A handler that has the address of the old *)
(* storage, or gets it meanwhile, reads and writes freed memory: it reads  *)
(* anything, what it writes is lost, and the process may end of it.        *)
(***************************************************************************)
EXTENDS RemoteControl, FiniteSets

CONSTANTS
  Requests,    \* the requests that arrive on each thread's connection
  Installed,   \* the names of the devices main adds, in order
  MayDisable,  \* does the program disable and enable the lights as it runs?
  MaxAccept,   \* no request is accepted once this many keys have been sent
  MaxEarly,    \* how many are in hand at once before main has added its devices
  AfterStray   \* are any accepted once an access has gone astray?

Kinds == {"register", "bri", "hue", "ct", "off", "on"}

\* Where a request ends: as it should, behind the key it is recognised by,
\* with its url behind "lights", or in its first line, before two spaces.
Ends == {"whole", "key", "lights", "line"}

\* id is the number in the url, number the one behind "bri" or "ct".
Request == [kind : Kinds, id : Nat, number : Nat, ends : Ends]

UChar(n) == n % 256

ASSUME LightAssumption ==
  /\ Requests \in [Thread -> SUBSET Request]
  /\ Installed \in Seq(DeviceName) /\ Installed # << >>
  /\ MayDisable \in BOOLEAN
  /\ MaxAccept \in Nat
  /\ MaxEarly \in Nat
  /\ AfterStray \in BOOLEAN
  /\ {0, 255} \subseteq Brightness
  /\ \A t \in Thread : \A r \in Requests[t] :
       r.kind = "bri" => UChar(r.number) \in Brightness

VARIABLES
  main,     \* where main is, "down" if the process has ended
  enabled,  \* _enabled
  devices,  \* _devices
  stale,    \* the threads about to use storage that was freed
  strayed,  \* has an access gone astray since the process started?
  hpc,      \* where each thread is in the handler of its request
  req,      \* the request each thread handles
  unread,   \* the arguments of the callback each thread has yet to read
  args,     \* those it has read
  fault     \* what ended the process

handler   == << hpc, req, unread, args >>
storage   == << stale, strayed >>
program   == << main, enabled, devices, fault >>
light     == << program, storage, handler >>
lightVars == << vars, light >>

\* Where a handler is before an access to the device of its request.
Accessing == {"value", "state", "colour", "check", "fill", "reply", "args", "call"}

HandlerControl == Accessing \cup {"idle", "dispatch", "register", "callback"}

Argument == {"state", "value"}

NoRequest == [kind |-> "register", id |-> 0, number |-> 0, ends |-> "whole"]

NoHandlers ==
  [ hpc    |-> [t \in Thread |-> "idle"],
    req    |-> [t \in Thread |-> NoRequest],
    unread |-> [t \in Thread |-> {}],
    args   |-> [t \in Thread |-> [state |-> FALSE, value |-> 0]] ]

LightInit ==
  /\ Init
  /\ main = "start"
  /\ enabled = FALSE
  /\ devices = << >>
  /\ stale = {}
  /\ strayed = FALSE
  /\ hpc = NoHandlers.hpc
  /\ req = NoHandlers.req
  /\ unread = NoHandlers.unread
  /\ args = NoHandlers.args
  /\ fault = "none"

-----------------------------------------------------------------------------
(***************************************************************************)
(* main.                                                                   *)
(***************************************************************************)
Enable ==
  /\ main = "start"
  /\ main' = "add"
  /\ enabled' = TRUE
  /\ UNCHANGED << vars, handler, storage, devices, fault >>

\* The vector doubles the storage it has whenever that is full.
OutOfRoom ==
  devices # << >> /\ \E k \in 0 .. Len(devices) : Len(devices) = 2 ^ k

\* The devices are copied, the old storage is freed, then the new one used.
MoveDevices ==
  /\ main = "add"
  /\ OutOfRoom
  /\ main' = "move"
  /\ UNCHANGED << vars, handler, storage, enabled, devices, fault >>

AddDevice ==
  /\ main = "move" \/ (main = "add" /\ ~OutOfRoom)
  /\ devices' = Append(devices, [name  |-> Installed[Len(devices) + 1],
                                 state |-> FALSE, value |-> 0])
  /\ stale' \in {stale \cup late : late \in
                  SUBSET {t \in Thread : main = "move" /\ hpc[t] \in Accessing}}
  /\ main' = IF Len(devices') = Len(Installed) THEN "run" ELSE "add"
  /\ UNCHANGED << vars, handler, enabled, strayed, fault >>

\* "You can enable or disable the library at any moment."
SetEnabled ==
  /\ MayDisable
  /\ main = "run"
  /\ enabled' = ~enabled
  /\ UNCHANGED << vars, handler, storage, main, devices, fault >>

\* The process ends, and all its threads with it.
Die(cause) ==
  /\ main' = "down"
  /\ fault' = cause
  /\ hpc' = NoHandlers.hpc
  /\ req' = NoHandlers.req
  /\ unread' = NoHandlers.unread
  /\ args' = NoHandlers.args
  /\ stale' = {}
  /\ Restart
  /\ UNCHANGED << enabled, devices, strayed >>

Interrupt == main = "run" /\ Die("interrupt")

StartAgain ==
  /\ main = "down"
  /\ main' = "start"
  /\ enabled' = FALSE
  /\ devices' = << >>
  /\ strayed' = FALSE
  /\ fault' = "none"
  /\ UNCHANGED << vars, handler, stale >>

-----------------------------------------------------------------------------
(***************************************************************************)
(* A request on its way through _onTCPData, _onTCPRequest, _onTCPControl.  *)
(***************************************************************************)
HandlerGoto(t, label) == hpc' = [hpc EXCEPT ![t] = label]

\* Mutant: --id forgotten.
PlaceAfter(t) == UChar(req[t].id) + 1

\* The place in _devices a request is about: _devices[--id], unchecked.
Place(t) == UChar(req[t].id)

Exists(t) == Place(t) \in DOMAIN devices

\* Does an access find the device where the program keeps it?
Found(t) == Exists(t) /\ main # "move" /\ t \notin stale

\* An access goes astray if main has yet to add the device, or moves it.
Access(t) ==
  /\ strayed' = (strayed \/ (Place(t) \in DOMAIN Installed /\ ~Found(t)))
  /\ stale' = stale \ {t}

\* What is written astray is lost, unless it is copied in time.  In a vector
\* that has no storage yet there is nowhere to go astray.
WriteDevice(t, field, x) ==
  /\ devices # << >>
  /\ \/ /\ Exists(t) /\ t \notin stale
        /\ devices' = [devices EXCEPT ![Place(t)] = [@ EXCEPT ![field] = x]]
     \/ ~Found(t) /\ devices' = devices
  /\ Access(t)

Readable(t, field) ==
  IF Found(t) THEN {devices[Place(t)][field]}
  ELSE IF field = "state" THEN BOOLEAN ELSE Brightness

\* What is read behind the devices is not the name of one.
ReadableName(t) ==
  IF Found(t) THEN {devices[Place(t)].name}
  ELSE IF Exists(t) THEN DeviceName ELSE DeviceName \ {"fernseher"}

\* Bounds on the requests: none of them is in the code.
Bounded ==
  /\ Len(wire) < MaxAccept
  /\ main # "run" => Cardinality({t \in Thread : hpc[t] # "idle"}) < MaxEarly
  /\ strayed => AfterStray

\* _onTCPData drops what arrives while the lights are disabled.
Receive(t, request) ==
  /\ main \in {"add", "move", "run"}
  /\ enabled
  /\ hpc[t] = "idle"
  /\ Bounded
  /\ req' = [req EXCEPT ![t] = request]
  /\ HandlerGoto(t, "dispatch")
  /\ UNCHANGED << vars, program, storage, unread, args >>

\* The handler returns and forgets its locals.
HandlerReturn(t) ==
  /\ HandlerGoto(t, "idle")
  /\ req' = [req EXCEPT ![t] = NoRequest]
  /\ args' = [args EXCEPT ![t] = NoHandlers.args[t]]
  /\ UNCHANGED << vars, program, storage, unread >>

\* _onTCPRequest checks again, and an id of 0 is not answered at all.  Behind
\* a text that ends in its first line the scan finds what was in the buffer
\* before: nothing of use, or a request, which is as good as one that arrives.
Ignored(t) ==
  \/ ~enabled
  \/ req[t].ends = "line"
  \/ req[t].kind # "register" /\ req[t].ends # "lights" /\ Place(t) = 0

Ignore(t) ==
  /\ hpc[t] = "dispatch"
  /\ Ignored(t)
  /\ HandlerReturn(t)

EndsInUrl(t) == req[t].kind # "register" /\ req[t].ends = "lights"

Dispatch(t) ==
  /\ hpc[t] = "dispatch"
  /\ ~Ignored(t) /\ ~EndsInUrl(t)
  /\ HandlerGoto(t, CASE req[t].kind = "register" -> "register"
                      [] req[t].kind = "bri"      -> "value"
                      [] OTHER                    -> "state")
  /\ UNCHANGED << vars, program, storage, req, unread, args >>

\* A request with a "devicetype" is replied to and changes nothing.
Register(t) == hpc[t] = "register" /\ HandlerReturn(t)

\* Mutant: the number is not converted to an unsigned char.
WriteNumber(t) ==
  /\ hpc[t] = "value"
  /\ req[t].ends # "key"
  /\ WriteDevice(t, "value", req[t].number)
  /\ HandlerGoto(t, "state")
  /\ UNCHANGED << vars, main, enabled, fault, req, unread, args >>

WriteValue(t) ==
  /\ hpc[t] = "value"
  /\ req[t].ends # "key"
  /\ WriteDevice(t, "value", UChar(req[t].number))
  /\ HandlerGoto(t, "state")
  /\ UNCHANGED << vars, main, enabled, fault, req, unread, args >>

\* Mutant: value >= 0 for value > 0.
WantedAtZero(request) == request.kind # "off"

Wanted(request) ==
  \/ request.kind = "bri" /\ UChar(request.number) > 0
  \/ request.kind \in {"hue", "ct", "on"}

WriteState(t) ==
  /\ hpc[t] = "state"
  /\ WriteDevice(t, "state", Wanted(req[t]))
  /\ HandlerGoto(t, CASE req[t].kind \in {"hue", "ct"} -> "colour"
                      [] req[t].kind = "on"            -> "check"
                      [] OTHER                         -> "reply")
  /\ UNCHANGED << vars, main, enabled, fault, req, unread, args >>

\* The colour is computed and stored; nothing ever reads it.
WriteColour(t) ==
  /\ hpc[t] = "colour"
  /\ req[t].ends # "key"
  /\ HandlerGoto(t, "reply")
  /\ Access(t)
  /\ UNCHANGED << vars, program, req, unread, args >>

\* Mutant: waits until there is a brightness.
AwaitValue(t) ==
  /\ hpc[t] = "check"
  /\ \E value \in Readable(t, "value") :
       HandlerGoto(t, IF value = 0 THEN "check" ELSE "reply")
  /\ Access(t)
  /\ UNCHANGED << vars, program, req, unread, args >>

CheckValue(t) ==
  /\ hpc[t] = "check"
  /\ \E value \in Readable(t, "value") :
       HandlerGoto(t, IF value = 0 THEN "fill" ELSE "reply")
  /\ Access(t)
  /\ UNCHANGED << vars, program, req, unread, args >>

FillValue(t) ==
  /\ hpc[t] = "fill"
  /\ WriteDevice(t, "value", 255)
  /\ HandlerGoto(t, "reply")
  /\ UNCHANGED << vars, main, enabled, fault, req, unread, args >>

Reply(t) ==
  /\ hpc[t] = "reply"
  /\ unread' = [unread EXCEPT ![t] = Argument]
  /\ Access(t)
  /\ HandlerGoto(t, "args")
  /\ UNCHANGED << vars, program, req, args >>

\* The arguments of a call are evaluated in any order.
ReadArgument(t, field) ==
  /\ hpc[t] = "args"
  /\ field \in unread[t]
  /\ \E x \in Readable(t, field) : args' = [args EXCEPT ![t][field] = x]
  /\ unread' = [unread EXCEPT ![t] = @ \ {field}]
  /\ Access(t)
  /\ HandlerGoto(t, IF unread[t] = {field} THEN "call" ELSE "args")
  /\ UNCHANGED << vars, program, req >>

\* Mutant: called only while the lights are enabled.
CallBackIfEnabled(t) ==
  /\ hpc[t] = "call"
  /\ \E name \in ReadableName(t) :
       IF enabled THEN Call(t, name, args[t].state, args[t].value)
       ELSE UNCHANGED vars
  /\ Access(t)
  /\ HandlerGoto(t, "callback")
  /\ UNCHANGED << program, req, unread, args >>

\* _setStateCallback, bound to actionPerformed
CallBack(t) ==
  /\ hpc[t] = "call"
  /\ \E name \in ReadableName(t) :
       Call(t, name, args[t].state, args[t].value)
  /\ Access(t)
  /\ HandlerGoto(t, "callback")
  /\ UNCHANGED << program, req, unread, args >>

\* Mutant: waits for the lights to be enabled again.
FinishEnabled(t) ==
  /\ hpc[t] = "callback"
  /\ pc[t] = "idle"
  /\ enabled
  /\ HandlerReturn(t)

Finish(t) ==
  /\ hpc[t] = "callback"
  /\ pc[t] = "idle"
  /\ HandlerReturn(t)

ActionPerformed(t) == Step(t) /\ UNCHANGED light

-----------------------------------------------------------------------------
(***************************************************************************)
(* What ends the process while a thread handles a request: an index out of *)
(* range, storage that was freed, a scan behind the end of a text, an      *)
(* exception of substr behind the end of a request or of its url, or of    *)
(* write_some, a division by a colour temperature of 0, and the signal of  *)
(* a send to a peer that has left.                                         *)
(***************************************************************************)
EndsEarly(t) ==
  \/ hpc[t] \in {"value", "colour"} /\ req[t].ends = "key"
  \/ hpc[t] = "dispatch" /\ ~Ignored(t) /\ EndsInUrl(t)

CutShort(t) == EndsEarly(t) /\ Die("exception")

Overrun(t) == hpc[t] = "dispatch" /\ req[t].ends = "line" /\ Die("overrun")

BadIndex(t) ==
  /\ hpc[t] \in Accessing
  /\ ~Exists(t)
  /\ ~EndsEarly(t)
  /\ Die("index")

FreedStorage(t) ==
  /\ hpc[t] \in Accessing
  /\ main = "move" \/ t \in stale
  /\ ~EndsEarly(t)
  /\ Die("storage")

ZeroTemperature(t) ==
  /\ hpc[t] = "colour"
  /\ req[t].kind = "ct"
  /\ req[t].ends # "key"
  /\ req[t].number % 65536 = 0
  /\ Die("division")

PeerGone(t) == hpc[t] \in {"reply", "register"} /\ Die("signal")

SerialFails(t) == pc[t] \in {"toggle", "dial"} /\ Die("serial")

Failure(t) ==
  \/ BadIndex(t)
  \/ FreedStorage(t)
  \/ Overrun(t)
  \/ CutShort(t)
  \/ ZeroTemperature(t)
  \/ PeerGone(t)
  \/ SerialFails(t)

Handle(t) ==
  \/ Ignore(t)
  \/ Dispatch(t)
  \/ Register(t)
  \/ WriteValue(t)
  \/ WriteState(t)
  \/ WriteColour(t)
  \/ CheckValue(t)
  \/ FillValue(t)
  \/ Reply(t)
  \/ \E field \in Argument : ReadArgument(t, field)
  \/ CallBack(t)
  \/ ActionPerformed(t)
  \/ Finish(t)
  \/ Failure(t)

LightNext ==
  \/ Enable
  \/ MoveDevices
  \/ AddDevice
  \/ SetEnabled
  \/ Interrupt
  \/ StartAgain
  \/ ManualPower /\ UNCHANGED light
  \/ \E t \in Thread :
       \/ \E request \in Requests[t] : Receive(t, request)
       \/ Handle(t)

LightSpec == LightInit /\ [][LightNext]_lightVars

\* A thread that handles a request is not suspended for good.
FairLightSpec == LightSpec /\ \A t \in Thread : WF_lightVars(Handle(t))
-----------------------------------------------------------------------------
LightDevice ==
  [name : DeviceName, state : BOOLEAN, value : Brightness]

ProgramTypeOK ==
  /\ main \in {"start", "add", "move", "run", "down"}
  /\ enabled \in BOOLEAN
  /\ devices \in Seq(LightDevice)
  /\ Len(devices) <= Len(Installed)
  /\ main \in {"add", "move"} => Len(devices) < Len(Installed)
  /\ main = "start" => devices = << >>
  /\ stale \subseteq Thread /\ strayed \in BOOLEAN
  /\ fault \in {"none", "interrupt", "index", "storage", "overrun",
                "exception", "division", "signal", "serial"}

HandlerTypeOK ==
  /\ hpc \in [Thread -> HandlerControl]
  /\ req \in [Thread -> Request]
  /\ unread \in [Thread -> SUBSET Argument]
  /\ args \in [Thread -> [state : BOOLEAN, value : Brightness]]
  /\ \A t \in Thread : hpc[t] # "idle" => req[t] \in Requests[t]
  /\ \A t \in Thread : hpc[t] = "value" => req[t].kind = "bri"

LightTypeOK == ProgramTypeOK /\ HandlerTypeOK

Settled == main = "run" /\ \A t \in Thread : hpc[t] = "idle"

(***************************************************************************)
(* One connection at a time: whenever no request is being handled, the     *)
(* remote control has done what the state of the light says.  Its last     *)
(* power state is the light's, and unless the light's brightness is 0 the  *)
(* channel last dialled is the one of that brightness.  The light and the  *)
(* remote control each keep their own copy of both, and neither is told of *)
(* a restart of the other.                                                 *)
(***************************************************************************)
TvFollowsLight ==
  Settled /\ ~strayed =>
    \A i \in DOMAIN devices : devices[i].name = "fernseher" =>
      /\ devices[i].state = lastState
      /\ devices[i].value > 0 => devices[i].value = lastValue

\* With nothing behind its back, the television is on when the light is.
LightTellsPower ==
  Settled /\ ~strayed /\ ~drift =>
    \A i \in DOMAIN devices : devices[i].name = "fernseher" =>
      (devices[i].state <=> tvOn)

\* A handler past the two checks of _enabled with a request for a light.
PastChecks(t) == hpc[t] \notin {"idle", "dispatch", "register"}

(***************************************************************************)
(* Several connections: what makes the remote control lose track of the    *)
(* light is two requests for the television at once.  As long as those     *)
(* take turns, whatever connections they come in on, no requests for other *)
(* lights meanwhile and no end of the process part the two, and the        *)
(* television is on when the light says so unless something happened to it *)
(* behind the program's back.  Nothing in the code makes them take turns,  *)
(* or wait for main to have added, and so moved, its devices: an access    *)
(* that goes astray may part the two as well.                              *)
(***************************************************************************)
ControlsTv(t) == PastChecks(t) /\ Place(t) = 1

TakingTurns == \A s, t \in Thread : ControlsTv(s) /\ ControlsTv(t) => s = t

OnlyOverlapMisleads == []TakingTurns => [](TvFollowsLight /\ LightTellsPower)

(***************************************************************************)
(* A light that is on has a brightness: "on" sets the state before it      *)
(* looks at the brightness, "bri" the brightness before the state, and in  *)
(* this order no interleaving of switching with dimming leaves a light on  *)
(* at brightness 0, as long as no two connections dim the same light and   *)
(* no access goes astray.  (A colour switches its light on whatever the    *)
(* brightness.)                                                            *)
(***************************************************************************)
OneDims ==
  \A s, t \in Thread : \A q \in Requests[s], r \in Requests[t] :
     /\ q.kind \in {"on", "off", "bri"} /\ r.kind \in {"on", "off", "bri"}
     /\ q.kind = "bri" /\ r.kind = "bri" /\ UChar(q.id) = UChar(r.id) => s = t

LitHasBrightness ==
  OneDims /\ Settled /\ ~strayed =>
    \A i \in DOMAIN devices : devices[i].state => devices[i].value # 0

(***************************************************************************)
(* A request for a device main installs is fatal only if it comes in       *)
(* between enable and the addDevice of that device.                        *)
(***************************************************************************)
KnownLights ==
  \A t \in Thread : \A r \in Requests[t] : UChar(r.id) <= Len(Installed)

OnlyEarlyRequestsMiss ==
  KnownLights /\ fault = "index" => Len(devices) < Len(Installed)

(***************************************************************************)
(* Every request that is accepted is done with, or the process has ended:  *)
(* a receive thread always gets back to its connection.                    *)
(***************************************************************************)
RequestsFinish == \A t \in Thread : hpc[t] # "idle" ~> hpc[t] = "idle"

(***************************************************************************)
(* main: "run until Ctrl-C is hit".                                        *)
(***************************************************************************)
RunsUntilInterrupted == main = "down" => fault = "interrupt"

(***************************************************************************)
(* "Turn on tv" switches and "set tv to fifty" dials (main, 721-724).  On  *)
(* one connection switching dials no channel, whatever brightness the      *)
(* light was left with, but for one case: an "on" that finds the           *)
(* brightness 0 fills in 255, which is taken for the selection of 99.  (An *)
(* access that has gone astray may have read any brightness.)              *)
(***************************************************************************)
SwitchingDialsFullOnly ==
  [][\A t \in Thread :
       pc[t] = "remember" /\ pc'[t] = "dial" /\ ~strayed =>
         req[t].kind = "bri" \/ (req[t].kind = "on" /\ lastValue' = 255)]_lightVars
=============================================================================
