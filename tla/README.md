# FauxmoLINUX in TLA+

FauxmoLINUX lets Alexa switch a television. It pretends to be a Philips Hue
bridge, takes HTTP requests for its lights, and turns a request for the light
"fernseher" into infrared codes on a serial port. This directory holds TLA+
models of the program, the TLC configurations that check them, and proofs for
TLAPS. Paths are relative to the repository, which is in `src/`; its own
program is thus in `src/src/`.

## The system

### Components

| component | code | state | operations |
|---|---|---|---|
| remote control | `remote_control.cpp:338-407` | `_last_state`, `_last_value`, the serial port | constructor, `actionPerformed`, `sendBytes` |
| infrared codes | `remote_control.cpp:9-352, 368` | constant tables | `get_remote_control`, `convert_brightness_to_channel`, `get_digits` |
| device registry | `fauxmoLINUX.cpp:475-598` | `_devices`: name, state, value, rgb, uniqueid | `addDevice`, `getDeviceId`, `renameDevice`, `removeDevice`, `setState`, `setDeviceUniqueId`, `getDeviceName` |
| control requests | `fauxmoLINUX.cpp:285-452` | locals of a handler | `_onTCPData`, `_onTCPRequest`, `_onTCPControl` |
| list and description | `fauxmoLINUX.cpp:78-107, 136-211` | none | `_onTCPList`, `_deviceJson`, `_onTCPDescription` |
| discovery | `fauxmoLINUX.cpp:8-55` | none | `_onUDPData`, `_sendUDPResponse` |
| life of the program | `fauxmoLINUX.cpp:458-473, 604-734` | `_enabled`, `_server`, `_udp`, `_tcp_port` | `enable`, `createServer`, `setPort`, `main`, destructor |
| TCP server | `tcpserver.hpp`, `tcpsocket.hpp` | listening socket, a socket per connection | `Bind`, `Listen`, `Accept`, `Receive`, `Send`, `Close` |
| UDP server | `udpserver.hpp`, `udpsocket.hpp` | one socket | `Bind`, `ReceiveFrom`, `SendTo` |
| addresses | `fauxmoLINUX.h:73-150`, `utils.h` | none | `IPAddress::fromString`, `get_mac_addr`, `get_ip_addr` |
| colours | `fauxmoLINUX.cpp:213-283` | none (the result is stored and never read) | `_hs2rgb`, `_ct2rgb` |
| unused | `fauxmoLINUX.cpp:109-134`, `Connect`, `examples/` | | |

### How they interact

`main` creates the server object and the remote control, binds
`actionPerformed` as the callback of the server, calls `enable`, adds its
devices and sleeps until Ctrl-C. `enable` starts an accept thread; it starts
one receive thread for each connection. A receive thread calls `_onTCPData`
with whatever one `recv` returned, which goes all the way through
`_onTCPRequest` and `_onTCPControl` into `actionPerformed` and to the serial
port, sleeps included, before the thread reads again. So a connection has one
request in progress at a time, and different connections run in parallel.
`_devices`, `_enabled`, `_last_state`, `_last_value` and the serial port are
shared by all these threads and main, and there is not a single lock.

### What is hard, and what correct means

* **Remote control.** Compare, send and store of the power state and the
  digits of a channel interleave between connections; infrared frames are
  lost without notice; the memory is lost with the process. Correct: memory and
  television differ only if something behind the program's back made them
  differ; commands are sent whole and in order; every call returns.
* **Control requests.** State and value of a light are written, tested and read
  back in separate steps. Every access goes through an unchecked index. Whatever
  goes wrong (an exception, a signal, a bad index) ends the whole process, with
  some of the steps done. Correct: the television does what the light says, a
  light that is on has a brightness, a request for an installed light is never
  fatal, a request accepted is a request done with.
* **Device registry.** Ids are positions, `unsigned char` in some places and
  `int` with -1 in others; operations by name convert between them. Correct:
  the operations are those of a list of named devices.
* **Life of the program.** `enable` comes before `addDevice`; disabling does not
  wait for requests in progress; main ends without its threads. Correct:
  disabled means nothing is switched; the program ends by Ctrl-C only.
* **Servers.** All threads share one table of descriptors, in which a connection
  is closed twice and every look-up of an address takes a number for a moment.
  Accept and receive threads end at the first error, a failed `Bind`, `Listen` or
  `SendTo` is forgotten, the UDP thread runs before it has a callback. Correct: a
  thread uses its own sockets only, a connection ends when its peer leaves, its
  thread ends then too, connections are accepted and searches answered.
* **Lists.** The vector moves when it grows, names are freed when devices are
  renamed or removed, an `unsigned char` counts devices, and none of it is locked.
  Correct: a list is the devices there are, under the ids that switch them, and it
  ends.
* **Texts.** A request is what one `recv` returned, be it whole or not; it is
  searched with bare pointers. Correct: what is found of a request is what is there
  of it.

All hazards found, with their lines and the properties aimed at them, are in
`PROJECT.json`.

## The modules

| module | stands for | about |
|---|---|---|
| `IrCodes` | the tables and conversions of `remote_control.cpp` | pure operators |
| `RequestText` | `_onTCPData`, `IPAddress::fromString`, `toString` | pure operators on texts |
| `MCAlgorithms` | | sweeps both over bounded inputs |
| `TvCommands` | what the remote control promises one caller | abstract |
| `RemoteControl` | class `RemoteControl`, any number of calling threads, the television | one action per access to shared memory or the serial port |
| `RemoteControlSerial` | `RemoteControl` with one caller | the refinement mapping to `TvCommands` |
| `NamedDevices` | what the device API promises its caller | abstract |
| `DeviceRegistry` | the device API | one action per operation |
| `LightControl` | `main`, `enable`, the path of a state request; extends `RemoteControl` | composes main, handlers, `_devices` and the remote control |
| `AtomicList` | what adding, renaming and removing come to | abstract |
| `DeviceList` | `_onTCPList`, `_deviceJson`, and the API as they see it | one action per access to the vector or the heap |
| `Sessions` | what the TCP server promises its peers | abstract |
| `Network` | both servers, all connections, `enable`, the look-ups of `utils.h` | one action per system call on a descriptor |
| `MCRemoteControl`, `MCRemoteControlSerial`, `MCLightControl`, `MCNetwork` | | instances for TLC |
| `RemoteControlProofs`, `RemoteControlSerialProofs`, `LightControlProofs`, `LightFollowsProofs`, `NetworkProofs`, `DeviceListProofs`, `DeviceRegistryProofs`, `AlgorithmsProofs` | | theorems |

`RemoteControl` uses the code's names: `lastState` is `_last_state`, `sendBytes`
appends to `wire` the key whose frame goes out (only if the table has the key, as
`count` in the code asks). `pc[t]` is where thread t is in `actionPerformed`:
`Compare`, `Toggle`, `Store` are lines 380, 382, 383, `Select` and `Remember` lines
388-393, `Dial` one round of the loop at 395. The television is not in the
repository; `tvOn` is whether it is on, and `drift` whether it was switched, or
failed to switch, without the program's knowledge: a frame missed
(`TvPowerKey`), its own remote control used (`ManualPower`), or on when the process
started (`Init`, `Restart`).

`LightControl` adds main (`Enable`, `MoveDevices`, `AddDevice`, `SetEnabled`,
`Interrupt`, `StartAgain`) and, for each thread, `hpc[t]`, the step of
`_onTCPControl` it is at. A request is what the handler finds in it: its kind, the
number in the url, the number behind `bri` or `ct`, and where the text ends: whole,
right behind its key, with its url behind `lights`, or in its first line. `Place`
converts the number in the url as `atoi`, `unsigned char` and `--id` do. The
arguments of the callback are read in any order. `Failure` gathers what ends the
process: an index out of range (`BadIndex`), storage that was freed
(`FreedStorage`), a scan behind the end of a text (`Overrun`), `substr` behind the
end of a request or url (`CutShort`), a division by zero, the signal of a send, an
exception of the serial port. `Die` then resets the remote control by `Restart`. The
two halves meet in `CallBack`, which is a `Call` of `RemoteControl`, and
`ActionPerformed`, which is a `Step` of it.

An access to `_devices` is undefined if the device is not there yet, and from the
second device on also while `push_back` moves them: `MoveDevices` is where it begins
to copy, `AddDevice` where the new storage is in place and the old one gone. An
access in between, or one whose address was loaded before and which comes after
(`stale`, any of the handlers that are about to access), may end the process, read
any value, or write where it is lost, or, if it is copied in time, is not. `strayed`
is history: whether an access has missed its device in any of these ways since the
process started. A vector that has no storage yet has the address zero, through
which an access ends the process; its load and its use are one step. What a late
write does to a piece of the heap that by then belongs to somebody else is left out.

`DeviceRegistry` has the size of `unsigned char` as the constant `IdMod`, so that a
few devices reach its limits.

`DeviceList` splits the same operations where another thread can look in between:
`AddDevice` (the name copied to the heap), `Grow` (the storage replaced) and
`PushBack`; `FreeName` and `GiveName` for a renaming; `FreeName`, `Erase` and
`Shrink` for a removal. Freed places of the heap are given out again. The handler
checks the place against the size (`Check`, line 81), finds the storage (`Load`),
copies the device with its pointer to the name (`Copy`, line 84), follows the
pointer (`Format`) and adds to the reply (`Say`). From a storage that is gone it
copies garbage, from a place of the heap that is free or holds another name
whatever is there. `present`, `disturbed` and `removed` are history: how many
devices there were when the reply was begun, whether anything moved or was freed
since, whether a device was removed since. `AtomicList` has neither slots nor a heap:
a list of devices with names, which `Listed` reads off the vector. A renaming or
removal happens as it frees the old name, an addition with `PushBack`; the other
steps change nothing that counts.

`Network` has the table of descriptors, `fd`, from which POSIX gives out the lowest
number that is free. `main` walks through `enable` (`OpenServer`, `BindServer`,
`Listen`, `OpenUdp`, `SetCallback`, `JoinGroup`) and `addDevice`, then `Disable`
and `EnableAgain`. `Failing` names the calls the system may fail at any time, besides
those that must fail, on a number that is not what it should be or with no number
left: `bind`, `listen`, `accept`, `recvfrom`, `sendto`. A failed `Listen` starts no
accept thread, an error of `accept` ends one (`AcceptFails`, `GiveUp`; `errors`
counts them), one of `recvfrom` ends the UDP thread, and one of `sendto`, or an
address it cannot read, drops the answer and nothing else (`SendToFails`). Each connection has a peer (`link[c]`: whether it is there, has
left, or was cut off by the program) and, once accepted, a receive thread
(`rpc[c]`), which uses the number `sock[c]`, whatever that stands for at the time:
`CallRecv`, `Receive`, `Send`, and in the end `Shutdown` and `Close` twice, by
`Receive` (`tcpsocket.hpp:112`) and by the handler of `onSocketClosed`
(`fauxmoLINUX.cpp:649`). A `recv` that waits (`at[c]`) keeps its connection in the
kernel when the number is closed. `OpenTemp` and `CloseTemp` are a look-up in
`utils.h`. Requests are abstracted to the sockets they make the program use; what
they do besides is in the other modules. `reused` is history: whether a number was
ever given out between the two closes of a connection. `Sessions` is the server
without descriptors: a connection is queued, read, answered, ended and over, all by
itself. `Stages` maps the places of a receive thread to these, and `reused` is
`broken`, after which `Sessions` promises nothing.

Operators with a comment that starts "Mutant:" are faulty variants of the
definition that follows them. Nothing uses them; put in its place they show that
a property notices the fault.

## The runs

| run | configuration | checks | result |
|---|---|---|---|
| `algorithms` | all brightnesses; requests with up to 2 headers and 2 characters of body, both line ends, cut anywhere; addresses of 6 octet values; 5461 texts | `TableIsLinear`, `DigitsSpellNumber`, `FramesIdentifyChannel`, `CutRequestsAreBeginnings`, `AddressesSurvive`, `ReadsAddressesOnly` | hold |
| `remote_serial` | 1 thread, brightness 0, 14, 26, 255, a second device, calls until 6 keys are sent | `TypeOK`, `PowerTracksState`, `CommandsDelivered` (refines `TvCommands` with its fairness) | hold |
| `remote_overlap` | 2 threads, calls until 4 keys | `PowerTracksState` | violated |
| `registry` | 2 names, 1 value, 4 ids, up to 3 devices, 2 removals | `TypeOK`, `RepeatsNeedRemovals`, `CallsMeanWhatTheySay` (refines `NamedDevices`) | hold |
| `light_serial` | 1 connection, 16 requests of every kind, disabling, requests until 4 keys | `LightTypeOK`, `TvFollowsLight`, `RequestsFinish`, `SwitchingDialsFullOnly` | hold |
| `light_threads` | 2 connections, 2 lights, one connection dims the television, one switches both; requests until a key is sent | `LitHasBrightness`, `OnlyEarlyRequestsMiss`, `RequestsFinish`, `OnlyOverlapDesynchronises`, `OnlyOverlapMisleads` | hold |
| `light_ends` | 1 connection, switching only | `RunsUntilInterrupted` | violated |
| `network` | 2 peers, 3 connections in all, 4 numbers, requests with a reply, `recvfrom` and `sendto` may fail | `TypeOK`, `OnlyReuseDisturbs`, `SearchesNotDropped`, `ServesSessions` (refines `Sessions`) | hold |
| `network_live` | 1 peer, 2 connections, 4 numbers, every kind of request, enabled twice, all five calls may fail | `ThreadsEnd`, `OnlyErrorsStopAccepting`, `SearchesAnswered` | hold |
| `network_close` | 2 peers, 2 connections | `ConnectionsKept` | violated |
| `network_disabled` | 1 peer, 1 connection | `DisabledNotDiscovered` | violated |
| `device_list` | 2 names, up to 3 devices, 3 ids, 2 renamings or removals, lists begun at any time | `TypeOK`, `QuietRepliesAreExact`, `IdsStayGood`, `RepliesEnd`, `MainIsAtomic` (refines `AtomicList`) | hold |

What the four violations show:

* `remote_overlap`: two threads pass the comparison before either stores. The
  television gets the power key twice and stays as it was; `_last_state` is wrong
  from then on, and since every later toggle is relative it stays wrong.
* `light_ends`: a request arrives after line 719 and before line 727.
* `network_close`: a peer leaves; its receive thread closes the number; another
  connection is accepted and given it; the `onSocketClosed` handler of the first
  shuts the other down while its peer is there.
* `network_disabled`: a search that arrives after `enable(false)` is answered,
  since `_onUDPData` does not ask `_enabled`.

`network` passes because its property allows for the second: `OnlyReuseDisturbs`
says that nothing is disturbed but by a number given out between two closes. Within
that, the same holds of the UDP socket, which is opened while connections may
already end, and of the numbers of look-ups. `ServesSessions` says what peers get in
the meantime. In the same way `OnlyOverlapMisleads` is what `TvFollowsLight` becomes
with two connections: it holds as long as no two requests for the television are
handled at once and no access to `_devices` has gone astray. `OnlyErrorsStopAccepting`
counts: connections are taken until `accept` has failed as often as `Listen` has not.
`SearchesAnswered` says nothing once `recvfrom` has failed, as no thread is left, and
takes an answer that could not be sent for the end of its search.

### Bounds

`MaxWire`, `MaxAccept` (a call or request is accepted only while fewer keys were
sent), `MaxEarly` (how many requests are in hand at once before main has added its
devices), `AfterStray` (whether any are accepted once an access has gone astray),
`MaxDevices`, `MaxRemovals`, `MaxChanges`, `MaxConnects` and `MaxEnables` are the
bounds; all are guards of the action that starts an operation, so what has
begun runs to its end. Six keys are three toggles or two channels and two toggles in
a row, enough for every pair of commands in any order, with restarts between. Two
threads suffice for a race between compare and store since the property speaks of
pairs, and the proof is for any number. Brightness 14 and 26 dial one and two
digits, 0 dials none, 255 is what the constructor remembers and what "on" fills in.
Four ids and three devices put -1, converted to 3, right behind the last device,
which is the case 256 ids and 255 devices have; at four devices the API no longer
keeps its promise. The requests of `light_serial` include ids 256 and 257, a
brightness of 270, a colour temperature of 65536, ids of no device, and requests cut
short in each of the places that matter.

In `light_threads` a second device makes the vector move, with a request under way in
each of its steps; no request comes in after one has gone astray, as its properties
say nothing more then. One key sent ends the acceptance of requests, not those under
way, so that each thread has handled any number that sent none and one that does,
against each such course of the other.

In `network` a number is used by three connections in turn, one to be closed
twice, one to get its number in between and one to come after; four numbers hold
both servers and both peers, and are all taken with a look-up on top. In
`network_live` a connection follows another, `Listen` is called twice, and any of the
calls that may fail does so in any order; in `network` only those of the UDP server
do, which main and the connections do not see. In
`device_list` three devices make the vector grow from 0 to 1, 2 and 4, two changes
are a removal and what follows it, and three ids make the counter wrap around at
three devices, where `RepliesEnd` promises nothing more and the safety properties
still hold; two names show whose name a place of the heap holds.

Deadlock is checked in the runs of `LightControl`, `DeviceRegistry` and `DeviceList`
where something can always happen; in those of `RemoteControl` too little is left to
say once no call is accepted any more, and in `Network` the process may have ended,
so they switch it off.

### Fairness

`FairSpec` of `RemoteControl`: weak fairness of each thread's steps inside
`actionPerformed`. `FairLightSpec`: weak fairness of each thread's handler,
which includes its ways to end the process. `FairSpec` of `DeviceList`: weak fairness
of the handler of lists. `FairSpec` of `Network`: weak fairness of each receive
thread, of `accept` returning for each connection that is queued, be it with an error,
and of what the UDP thread does of itself, not of its errors. All say that the
operating system does not suspend a runnable thread for good: the code has no lock
and no wait but for a peer, a sleep ends, and the serial port accepts bytes or
throws; a queue of connections is served in turn. Nothing is assumed of main, of
requests, of peers or of restarts. `TvCommands` promises weak fairness of `Transmit`
in turn.

## The theorems

All are of the specifications as they are, for every value of the constants that
satisfies the assumptions `BrightnessAssumption`, `KeysAssumption`,
`MaxWireAssumption`, `LightAssumption`, `OneCaller`, `NetworkAssumption`,
`ListAssumption` and `RegistryAssumption`; TLC evaluates these in the runs.

* `RemoteControlProofs!TypeCorrect`: `Spec => []TypeOK`. `TypeOK` is inductive; the
  conjunct on "remember" is what keeps `_last_value` in `1 .. 255` and `KeysOf`
  applied to its domain.
* `RemoteControlProofs!OverlapIsTheOnlyRace`: `Spec => ([]TogglesApart =>
  []PowerTracksState)`. `PowerTracksState` says nothing while a call is in
  progress, so it is not inductive. The invariant `InStep` follows the parity of
  power keys through a toggle: television and memory are as far apart as `drift`
  says unless a thread has sent the key and not stored, and that thread's argument
  is what the memory will become. It is preserved by every step that keeps
  `TogglesApart`; with two threads between compare and store it is not, which is
  the race.
* `RemoteControlSerialProofs!SerialCallsTrackPower`: one caller cannot overlap with
  itself, so `Spec => []PowerTracksState`.
* `RemoteControlSerialProofs!SerialImplementsCommands`: `Spec => CommandsInOrder`,
  the refinement of `TvCommands` without its fairness: `Call` maps to `Perform`,
  `Toggle` and `Dial` to `Transmit`, `Restart` to `Restart`, all else to a stutter.
* `LightControlProofs!LightTypeCorrect`: `LightSpec => []LightTypeOK`.
* `LightControlProofs!LightsOnlyRaceIsOverlap`: the lemma `LightsUseRemoteControl`,
  that the program's steps are those of `RemoteControl` or leave it alone, carries
  `OnlyOverlapDesynchronises` over to the program. It needs that a handler's arguments
  are brightnesses, wherever they were read.
* `LightControlProofs!MissesAreEarly`: `LightSpec => []OnlyEarlyRequestsMiss`. The
  invariant: a thread is only beyond "dispatch" with an id above 0, a request is
  only in progress while main adds or runs, and devices are complete once main
  runs; so a missing place is one that `addDevice` has not reached.
* `LightControlProofs!OnlyStrayingDarkens`: `LightSpec => []LitHasBrightness`, for any
  number of lights, each dimmed by one connection at most. The property speaks of
  moments without requests, and only until an access goes astray. The invariant `Lit`
  says what holds in between: a light that is on at brightness 0 has a handler that is
  about to test or fill in its brightness, or is the dimming one and about to switch
  it off; and the dimming handler, about to switch a light on, finds a brightness
  there. Without the condition it is false with two devices: a brightness written
  before its device is added, or to storage that is about to be freed, is lost, the
  state written after is not.
* `LightControlProofs!OneLightNeverStrays`: if one device is installed, as in `main`,
  `LightSpec => []~strayed`: the vector moves only when it is full and not empty, and
  an access before it has storage ends the process. So what the other theorems say
  until an access goes astray is so without end for the program as it is.
* `LightControlProofs!OneConnectionSendsCommands`: with one connection, `LightSpec =>
  Serial!CommandsInOrder`. `Serial` is `RemoteControlSerialProofs` with that
  connection's thread as the caller; its steps are those of `RemoteControl`, so
  `LightsUseRemoteControl` and `SerialImplementsCommands` add up.
* `LightFollowsProofs!OverlapAloneMisleads`: if the television is the first device main
  adds and the only one of its name (`TelevisionFirst`, as in `main`), `LightSpec =>
  OnlyOverlapMisleads`. While requests for the television take turns, on whatever
  connections, and until an access goes astray, light and remote control agree whenever
  nothing is handled, and the television is on when the light is, unless it was switched
  behind the program's back. Agreement is broken and restored within a request, so it
  is not inductive. `Course` ties the places of a handler to what it has seen:
  `actionPerformed` is entered for the first light only, unless by an access that has
  gone astray, and devices keep their names. `Following` says that they agree (`Follows`) while no request for the
  television is past its checks, and of the one that is, how far it has come
  (`Progress`): which arguments it has read, what it has stored, and that it has not
  touched the brightness unless it dims. `TurnGoesOn` proves this for that request,
  `Bystander` for all others, in particular those for other lights, of which there may
  be any number and which `AddDevice` may move at any time. `AccessFinds` is what
  an access that has not gone astray knows.
* `LightFollowsProofs!SwitchingDialsNothing`: if `TelevisionFirst`, `LightSpec /\
  []TakingTurns => SwitchingDialsFullOnly`, from `NotDimmed`, a part of `Progress`.
* `LightFollowsProofs!OneConnectionFollows`: with one connection `TakingTurns` always
  holds, so `LightSpec => [](TvFollowsLight /\ LightTellsPower) /\
  SwitchingDialsFullOnly`.

* `NetworkProofs!TypeCorrect`: `Spec => []TypeOK`, for any peers, connections and
  descriptors.
* `NetworkProofs!OnlyReuseIsDangerous`: `Spec => []OnlyReuseDisturbs`. The property
  is about the moment a thread is served by a socket. The invariant `Owned` says, as
  long as no number was given out between the two closes of a connection, whose every
  number is: a thread that has not begun to end holds its own connection, one that
  has closed once holds a number that is free, a look-up its temporary socket, the UDP
  thread its own. Opening keeps it since only free numbers are given out and one that
  a thread is still to close would set `reused`; the second close then finds a free
  number and does nothing.
* `NetworkProofs!ServerServesSessions`: `Spec => ServesSessions`, the refinement of
  `Sessions`, step by step from `Owned`. A step that sets `reused` is one that breaks
  the promise; before that `Owned` says that each thread uses its own number, so what
  it receives, sends and closes is its own connection, and what it closes has been
  left by its peer. `Connect`, `Ask`, `Leave` and `Accept` map to themselves,
  `GiveUp` to `GiveUp`, `Receive` to `Take`, `Send` to `Answer`, `RecvEnds` to
  `End`, the second `Close` to `Finish`, `SendKills` to `Die`; look-ups, `Shutdown` and
  the first `Close` to stutters, which is the work: they must leave every connection
  as it is.
* `NetworkProofs!NoSearchDropped`: `Spec => SearchesNotDropped`. The invariant
  `SearchReady`: once the group is joined, or about to be, the callback is set, and the
  UDP thread has its socket's number until the process ends. `Owned` says that this
  number is still its socket unless one was reused; so of the steps of the UDP thread
  only the answer and its failure apply to a search, and every other step leaves it
  alone.
* `DeviceListProofs!TypeCorrect`: `Spec => []TypeOK`.
* `DeviceListProofs!RepliesExact`: `Spec => []QuietRepliesAreExact`. The property is
  about a finished reply. `HeapOK` says that devices point to different places of the
  heap, none of them free but that of the device main is renaming or removing; `Quiet` says of a reply begun and not disturbed how far it has come
  (`Progress`) and that what it has said so far is exact (`Exact`). Adding devices
  keeps both as long as the storage need not grow; all else sets `disturbed`.
* `DeviceListProofs!IdsGood`: `Spec => []IdsStayGood`. The invariant `KeysGood`: until
  a device is removed or the reply disturbed, every device said so far is still at
  the place its id stands for.
* `DeviceListProofs!ListIsAtomic`: `Spec => MainIsAtomic`, the refinement of
  `AtomicList`. `HeapOK` says that the places of the heap are told apart, so that one
  freed and given out again changes nobody's name; `KeysOwn`, that no device is in the
  vector twice, which is what makes `Add` one of a new device. `AddsOne`, `RenamesOne`
  and `RemovesOne` are the steps that count, the last with the list that `erase` has
  yet to move; `MovesUnseen`, `NameTakenUnseen` and `NameGivenUnseen` the stutters.
* `DeviceRegistryProofs!TypeCorrect`: `Spec => []TypeOK`. It rests on `getDeviceId`
  finding a minimum and on what `erase` leaves of a vector (`Removing`).
* `DeviceRegistryProofs!RepeatsRare`: `Spec => []RepeatsNeedRemovals`. The property
  alone is not inductive: after a removal a later `addDevice` may repeat an id. The
  invariant `Balance` also counts the ids not below the length of the vector, which
  are those that may yet be repeated: devices with a made id and such ids together are
  at most the different ids and the removals. Adding turns one of the latter into a
  repetition, a removal leaves at most one more behind. `Calls` reduces the ten ways
  through the API to four changes of the vector, so that each is proved once.
* `DeviceRegistryProofs!CallsCorrect`: if `MaxDevices < IdMod`, `Spec =>
  CallsMeanWhatTheySay`, the refinement of `NamedDevices`. `EffectiveIds` is the heart:
  the id a call goes on with is below the length exactly if `NamedDevices` knows the
  target, and is then its place; for a name that is not there this needs -1, converted,
  to be no place. The `Listed...` lemmas say that what a call does to the vector it
  does to the entries `NamedDevices` sees. With `MaxDevices = IdMod` the theorem is
  false: `setState` of an unknown name then switches the last device.
* `AlgorithmsProofs!TableRight`, `DigitsRight` and `FramesTell`: `TableIsLinear`,
  `DigitsSpellNumber` and `FramesIdentifyChannel` for every byte. `ChannelIsLine`
  inverts the line, so that the channels begun at a brightness are an interval;
  `DigitsSpelled` solves the recursion of `get_digits`; `CodesDiffer` tells the codes of
  digits apart by vendor and command, whence equal frames have equal digits
  (`SameFrames`).
* `AlgorithmsProofs!TablesFit`: the real tables and `ChannelKeys` satisfy what
  `KeysAssumption` asks of `Keys` and `KeysOf`, so the theorems about `RemoteControl`
  are about the program's tables.
* `AlgorithmsProofs!AddressesKept` and `OnlyAddressesRead`: what `AddressesSurvive` and
  `ReadsAddressesOnly` say of the samples of the run, of every address and every text,
  and with it these properties. A text is read by
  a fold, so both need induction over its length: `Induction` makes it from the
  well-foundedness of `<` for a set of places instead of a predicate, `FoldExists`
  and `FoldOfOneMore` say that a fold of a text one character longer is one step more,
  and `Fold` names the steps that are folded so that this is proved once for `Number`,
  `Read` and `Runs`. The invariant along the text is `ReadAs` for a printed address
  (the octets before the last dot and the number behind it) and `ReadRuns` for any:
  `fromString` has not given up exactly if there are at most four runs, of digits
  only, each at most 255, and it has then read all but the last of them.
* `AlgorithmsProofs!BeginningsRead`: what `CutRequestsAreBeginnings` says, of requests of
  any characters but NUL, any number of non-empty header lines and any body, cut
  anywhere, and with it that property. `ScanAt` is the invariant along
  the text: `BodyStart` has read all of it and counted so many line feeds in a row.
  A line sets the count to 0 (`ScanLine`), its end makes it one more (`ScanEnd`), so
  the first empty line is where it becomes 2 (`HeadScanned`), and behind that no
  character of the body moves it (`BodyScanned`). Method and url are found before
  the search begins, once the cut leaves both spaces (`RequestFound`, `NothingFound`).

Only model-checked is liveness (`RequestsFinish`, `ThreadsEnd`,
`OnlyErrorsStopAccepting`, `SearchesAnswered`, `RepliesEnd`, the fairness in
`CommandsDelivered`), which TLAPS does not do. Every safety property of a passing run
is a theorem.

## Not modelled, and why

Wording and layout of HTTP, SSDP and JSON, and the lengths of their buffers; debug
output; the settings of the serial port; memory that leaks; colours, which nothing
reads; MD5, `Connect`, `setBroadcast`, the overloads of `SendTo` for strings and the
examples, which nothing calls. What the operating system answers when it is asked for an
address is any address. What the search for two spaces finds behind a text
without them is undefined: `RequestText` has it as one outcome, `Overrun`. The order in which objects are
destroyed when main ends is left out: the process ends with main, whatever its
threads do. A short `write_some` is seen as a missed frame.
A value read while it is written is the old or the new one, as byte-sized loads and
stores are on the machines the program is built for. The handlers of `LightControl`
meet only the devices main adds, as no other code of the program adds, renames or
removes any; a program that does is in `DeviceList`.

## Plan

Done: every component that has state, alone or with what it interacts with, and the
proofs above. Left:

1. `Network` composed with `LightControl`: a request that arrives in two pieces, and
   a connection cut off while its command is being dialled.
