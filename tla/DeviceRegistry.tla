--------------------------- MODULE DeviceRegistry ---------------------------
(***************************************************************************)
(* The device API of src/fauxmoLINUX.cpp, called by one thread: the vector *)
(* _devices and the operations that add, find, rename, remove and set its  *)
(* entries.  The handlers of requests, which also write to the entries,    *)
(* are in LightControl.                                                    *)
(*                                                                         *)
(* Ids are of type unsigned char, getDeviceId's answer is an int and a     *)
(* vector is as long as it likes, so ids wrap around at IdMod.             *)
(***************************************************************************)
EXTENDS Integers, Sequences, FiniteSets, SequencesExt

CONSTANTS
  Name,         \* the names given to devices
  Level,        \* the brightness values given to devices
  OwnUniqueId,  \* the unique ids a program sets itself
  IdMod,        \* 256: the values of an unsigned char
  MaxDevices,   \* no device is added to so many
  MaxRemovals   \* no device is removed after so many

ASSUME RegistryAssumption ==
  /\ IdMod \in Nat \ {0}
  /\ MaxDevices \in Nat
  /\ MaxRemovals \in Nat
  /\ Level \subseteq Nat
  /\ OwnUniqueId \cap Nat = {}

VARIABLES
  devices,   \* _devices
  call,      \* the last operation called
  result,    \* what it returned, a Boolean as 0 or 1
  removals   \* the number of devices removed so far

vars == << devices, call, result, removals >>

\* The conversion of an int to an unsigned char.
Byte(n) == n % IdMod

Id == 0 .. IdMod - 1

Init ==
  /\ devices = << >>
  /\ call = [op |-> "none"]
  /\ result = 0
  /\ removals = 0

-----------------------------------------------------------------------------
(***************************************************************************)
(* The operations on an id.                                                *)
(***************************************************************************)
Return(value) == result' = value

renameById(id, new) ==
  IF id < Len(devices)
  THEN devices' = [devices EXCEPT ![id + 1].name = new] /\ Return(1)
  ELSE Return(0) /\ UNCHANGED devices

removeById(id) ==
  IF id < Len(devices)
  THEN /\ devices' = RemoveAt(devices, id + 1)
       /\ removals' = removals + 1
       /\ Return(1)
  ELSE Return(0) /\ UNCHANGED << devices, removals >>

setStateById(id, state, value) ==
  IF id < Len(devices)
  THEN /\ devices' = [devices EXCEPT ![id + 1].state = state,
                                     ![id + 1].value = value]
       /\ Return(1)
  ELSE Return(0) /\ UNCHANGED devices

\* Mutant: the last device of that name.
getLastDeviceId(name) ==
  LET named == {id \in 0 .. Len(devices) - 1 : devices[id + 1].name = name}
  IN  IF named = {} THEN -1
      ELSE CHOOSE id \in named : \A other \in named : other <= id

\* The place of the first device of that name, or -1.
getDeviceId(name) ==
  LET named == {id \in 0 .. Len(devices) - 1 : devices[id + 1].name = name}
  IN  IF named = {} THEN -1
      ELSE CHOOSE id \in named : \A other \in named : id <= other

-----------------------------------------------------------------------------
(***************************************************************************)
(* The calls of the API.  One by name looks the name up and goes on with   *)
(* the id it found; setState does so without looking at what it found.     *)
(***************************************************************************)
\* Mutant: the value of the new device is not initialised.
addDeviceAtAnyValue(name) ==
  /\ Len(devices) < MaxDevices
  /\ \E value \in Id :
       devices' = Append(devices, [name |-> name, state |-> FALSE,
                                   value |-> value, uniqueid |-> Len(devices)])
  /\ call' = [op |-> "add", name |-> name]
  /\ Return(Byte(Len(devices)))
  /\ UNCHANGED removals

\* Mutant: the unique id is made of the id of the name, not yet in the vector.
addDeviceByName(name) ==
  /\ Len(devices) < MaxDevices
  /\ devices' = Append(devices, [name |-> name, state |-> FALSE, value |-> 0,
                                 uniqueid |-> Byte(getDeviceId(name))])
  /\ call' = [op |-> "add", name |-> name]
  /\ Return(Byte(Len(devices)))
  /\ UNCHANGED removals

\* The unique id is made of the size of the vector and the mac address.
addDevice(name) ==
  /\ Len(devices) < MaxDevices
  /\ devices' = Append(devices, [name |-> name, state |-> FALSE, value |-> 0,
                                 uniqueid |-> Len(devices)])
  /\ call' = [op |-> "add", name |-> name]
  /\ Return(Byte(Len(devices)))
  /\ UNCHANGED removals

findDevice(name) ==
  /\ call' = [op |-> "find", name |-> name]
  /\ Return(getDeviceId(name))
  /\ UNCHANGED << devices, removals >>

renameDevice(target, new) ==
  /\ call' = [op |-> "rename", target |-> target]
  /\ IF "id" \in DOMAIN target
     THEN renameById(target.id, new)
     ELSE IF getDeviceId(target.name) < 0
          THEN Return(0) /\ UNCHANGED devices
          ELSE renameById(Byte(getDeviceId(target.name)), new)
  /\ UNCHANGED removals

removeDevice(target) ==
  /\ removals < MaxRemovals
  /\ call' = [op |-> "remove", target |-> target]
  /\ IF "id" \in DOMAIN target
     THEN removeById(target.id)
     ELSE IF getDeviceId(target.name) < 0
          THEN Return(0) /\ UNCHANGED << devices, removals >>
          ELSE removeById(Byte(getDeviceId(target.name)))

setState(target, state, value) ==
  /\ call' = [op |-> "set", target |-> target]
  /\ IF "id" \in DOMAIN target
     THEN setStateById(target.id, state, value)
     ELSE setStateById(Byte(getDeviceId(target.name)), state, value)
  /\ UNCHANGED removals

\* Without a bounds check: only ids of devices may be passed.
setDeviceUniqueId(id, uniqueid) ==
  /\ id < Len(devices)
  /\ devices' = [devices EXCEPT ![id + 1].uniqueid = uniqueid]
  /\ UNCHANGED << call, result, removals >>

Target == [name : Name] \cup [id : Id]

Next ==
  \/ \E name \in Name : addDevice(name) \/ findDevice(name)
  \/ \E target \in Target :
       \/ \E new \in Name : renameDevice(target, new)
       \/ removeDevice(target)
       \/ \E state \in BOOLEAN, value \in Level : setState(target, state, value)
  \/ \E id \in Id, uniqueid \in OwnUniqueId : setDeviceUniqueId(id, uniqueid)

Spec == Init /\ [][Next]_vars
-----------------------------------------------------------------------------
Device ==
  [name : Name, state : BOOLEAN, value : Level \cup {0},
   uniqueid : Nat \cup OwnUniqueId]

TypeOK ==
  /\ devices \in Seq(Device)
  /\ Len(devices) <= MaxDevices
  /\ result \in Int
  /\ removals \in 0 .. MaxRemovals

(***************************************************************************)
(* The ids and names of the API mean what NamedDevices says: a call by     *)
(* name changes the first device of that name and nothing else, a call by  *)
(* id the device at that place, and a call for a device that is not there  *)
(* changes nothing and says so.  The conversions between int, unsigned     *)
(* char and -1 do not get in the way, up to 255 devices.                   *)
(***************************************************************************)
Listed ==
  [i \in DOMAIN devices |->
     [name |-> devices[i].name, state |-> devices[i].state,
      value |-> devices[i].value]]

Named == INSTANCE NamedDevices WITH devices <- Listed

CallsMeanWhatTheySay == Named!Spec

(***************************************************************************)
(* The unique ids the program makes itself repeat no more often than       *)
(* devices have been removed: without a removal they are unique.           *)
(***************************************************************************)
Made == {i \in DOMAIN devices : devices[i].uniqueid \notin OwnUniqueId}

RepeatsNeedRemovals ==
  Cardinality(Made)
    - Cardinality({devices[i].uniqueid : i \in Made}) <= removals
=============================================================================
