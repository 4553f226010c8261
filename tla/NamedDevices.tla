---------------------------- MODULE NamedDevices ----------------------------
(***************************************************************************)
(* What the device API promises its caller: a list of devices in the order *)
(* they were added, in which an operation by name concerns the first       *)
(* device of that name, an operation by id the device at that place, and   *)
(* either fails without effect if there is no such device.  DeviceRegistry *)
(* shows up to how many devices the code keeps this promise.               *)
(***************************************************************************)
EXTENDS Integers, Sequences, SequencesExt

CONSTANTS
  Name,    \* the names of devices
  Level,   \* the values they are set to
  Id       \* the ids operations may name

VARIABLES
  devices,   \* the devices, each with its name, state and value
  call,      \* the last operation called
  result     \* what it returned, a Boolean as 0 or 1

vars == << devices, call, result >>

\* A device is named by its name or by its place in the list.
Target == [name : Name] \cup [id : Id]

Place(target) ==
  IF "name" \in DOMAIN target
  THEN SelectInSeq(devices, LAMBDA device : device.name = target.name)
  ELSE target.id + 1

Init ==
  /\ devices = << >>
  /\ call = [op |-> "none"]
  /\ result = 0

Add(name) ==
  /\ devices' = Append(devices, [name |-> name, state |-> FALSE, value |-> 0])
  /\ call' = [op |-> "add", name |-> name]
  /\ result' = Len(devices)

Find(name) ==
  /\ call' = [op |-> "find", name |-> name]
  /\ result' = Place([name |-> name]) - 1
  /\ UNCHANGED devices

\* Replaces the list by what the operation makes of it, if its target exists.
Apply(op, target, changed) ==
  /\ call' = [op |-> op, target |-> target]
  /\ IF Place(target) \in DOMAIN devices
     THEN devices' = changed /\ result' = 1
     ELSE result' = 0 /\ UNCHANGED devices

Rename(target, new) ==
  Apply("rename", target, [devices EXCEPT ![Place(target)].name = new])

Erase(target) ==
  Apply("remove", target, RemoveAt(devices, Place(target)))

Set(target, state, value) ==
  Apply("set", target, [devices EXCEPT ![Place(target)].state = state,
                                       ![Place(target)].value = value])

Next ==
  \/ \E name \in Name : Add(name) \/ Find(name)
  \/ \E target \in Target :
       \/ \E new \in Name : Rename(target, new)
       \/ Erase(target)
       \/ \E state \in BOOLEAN, value \in Level : Set(target, state, value)

Spec == Init /\ [][Next]_vars
=============================================================================
