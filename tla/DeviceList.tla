----------------------------- MODULE DeviceList -----------------------------
(***************************************************************************)
(* The requests that list the devices, against a program that adds,        *)
(* renames and removes devices as they are answered.  _onTCPList and       *)
(* _deviceJson of src/fauxmoLINUX.cpp run on a receive thread, addDevice,  *)
(* renameDevice and removeDevice on main's; they share the vector and the  *)
(* names on the heap, without a lock.                                      *)
(*                                                                         *)
(* A vector is a storage of slots, which may be larger than the vector,    *)
(* and a size.  When it grows beyond its capacity it moves to a storage    *)
(* twice as large, and who still reads from the old one reads garbage.  A  *)
(* storage is known by its capacity.                                       *)
(***************************************************************************)
EXTENDS Naturals

CONSTANTS
  Key,         \* the devices there may be
  Name,        \* the names given to them
  Cell,        \* the places on the heap that hold names
  IdMod,       \* 256: the values of an unsigned char
  MaxDevices,  \* no device is added to so many
  MaxChanges   \* none is renamed or removed after so many times

ASSUME ListAssumption ==
  /\ IdMod \in Nat \ {0}
  /\ MaxDevices \in Nat /\ MaxChanges \in Nat
  /\ {"free", "garbage"} \cap (Name \cup Key \cup Cell) = {}

VARIABLES
  slots,      \* the storage of _devices
  size,       \* _devices.size()
  capacity,   \* how many devices the storage has room for
  heap,       \* the name each place holds, or "free"
  api,        \* the operation main is in
  changes,    \* the number of renamings and removals begun
  pc,         \* where the handler is
  id,         \* the id in the url, 0 for all devices
  i,          \* the place of the device it is at
  base,       \* the storage it reads the device from
  copy,       \* its copy of the device
  reply,      \* what it says of each id
  present,    \* the number of devices when it began
  disturbed,  \* has main moved or freed what it may be reading?
  removed     \* has a device been removed since it began?

vector  == << slots, size, capacity, heap >>
program == << api, changes >>
handler == << pc, id, i, base, copy, reply >>
history == << present, disturbed, removed >>
vars    == << vector, program, handler, history >>

Device  == [key : Key, name : Cell]
Garbage == [key |-> "garbage", name |-> "garbage"]
NoApi   == [op |-> "none"]
NoReply == [n \in {} |-> Garbage]

Init ==
  /\ slots = [s \in {} |-> Garbage]
  /\ size = 0
  /\ capacity = 0
  /\ heap = [c \in Cell |-> "free"]
  /\ api = NoApi
  /\ changes = 0
  /\ pc = "idle"
  /\ id = 0
  /\ i = 0
  /\ base = 0
  /\ copy = Garbage
  /\ reply = NoReply
  /\ present = 0
  /\ disturbed = FALSE
  /\ removed = FALSE

-----------------------------------------------------------------------------
(***************************************************************************)
(* main: addDevice, renameDevice and removeDevice, a step for each change  *)
(* a handler can see.                                                      *)
(***************************************************************************)
Disturb == disturbed' = (disturbed \/ pc # "idle")

\* Places that are free, such as one whose name has been freed.
FreeCells == {c \in Cell : heap[c] = "free"}

FreeCell == CHOOSE c \in FreeCells : TRUE

Strdup(name) == heap' = [heap EXCEPT ![FreeCell] = name]

UnusedKeys == {key \in Key : \A s \in 0 .. size - 1 : slots[s].key # key}

\* Memory does not run out.
AddDevice(name) ==
  /\ api = NoApi /\ size < MaxDevices
  /\ UnusedKeys # {} /\ FreeCells # {}
  /\ Strdup(name)
  /\ api' = [op |-> "push", device |-> [key  |-> CHOOSE key \in UnusedKeys : TRUE,
                                       name |-> FreeCell]]
  /\ UNCHANGED << slots, size, capacity, changes, handler, history >>

\* push_back finds no room: the devices are copied, the old storage is freed.
Grow ==
  /\ api.op = "push" /\ size = capacity
  /\ api' = [op |-> "grown", device |-> api.device]
  /\ Disturb
  /\ UNCHANGED << vector, changes, handler, present, removed >>

\* Mutant: the storage is moved but no larger.
PushBackTight ==
  /\ \/ api.op = "push" /\ size < capacity /\ UNCHANGED disturbed
     \/ api.op = "grown" /\ Disturb
  /\ slots' = [s \in 0 .. size |-> IF s = size THEN api.device ELSE slots[s]]
  /\ size' = size + 1
  /\ api' = NoApi
  /\ UNCHANGED << capacity, heap, changes, handler, present, removed >>

\* Mutant: the new device goes to the front.
PushFront ==
  /\ \/ api.op = "push" /\ size < capacity /\ UNCHANGED << capacity,
                                                           disturbed >>
     \/ /\ api.op = "grown"
        /\ capacity' = IF capacity = 0 THEN 1 ELSE 2 * capacity
        /\ Disturb
  /\ slots' = [s \in 0 .. size |-> IF s = 0 THEN api.device ELSE slots[s - 1]]
  /\ size' = size + 1
  /\ api' = NoApi
  /\ UNCHANGED << heap, changes, handler, present, removed >>

PushBack ==
  /\ \/ api.op = "push" /\ size < capacity /\ UNCHANGED << capacity,
                                                           disturbed >>
     \/ /\ api.op = "grown"
        /\ capacity' = IF capacity = 0 THEN 1 ELSE 2 * capacity
        /\ Disturb
  /\ slots' = [s \in 0 .. size |-> IF s = size THEN api.device ELSE slots[s]]
  /\ size' = size + 1
  /\ api' = NoApi
  /\ UNCHANGED << heap, changes, handler, present, removed >>

\* Renaming and removing begin with the name freed.
FreeName(s, next) ==
  /\ api = NoApi /\ s < size /\ changes < MaxChanges
  /\ changes' = changes + 1
  /\ heap' = [heap EXCEPT ![slots[s].name] = "free"]
  /\ api' = next
  /\ Disturb
  /\ UNCHANGED << slots, size, capacity, handler, present, removed >>

RenameDevice(s, new) == FreeName(s, [op |-> "name", at |-> s, new |-> new])

\* The place of the old name, for one, is free.
GiveName ==
  /\ api.op = "name" /\ FreeCells # {}
  /\ Strdup(api.new)
  /\ slots' = [slots EXCEPT ![api.at].name = FreeCell]
  /\ api' = NoApi
  /\ Disturb
  /\ UNCHANGED << size, capacity, changes, handler, present, removed >>

RemoveDevice(s) == FreeName(s, [op |-> "erase", at |-> s])

\* Mutant: the device behind it is erased.
EraseNext ==
  /\ api.op = "erase"
  /\ slots' = [s \in DOMAIN slots |->
                 IF s \in api.at + 1 .. size - 2 THEN slots[s + 1] ELSE slots[s]]
  /\ api' = [op |-> "shrink"]
  /\ removed' = TRUE
  /\ Disturb
  /\ UNCHANGED << size, capacity, heap, changes, handler, present >>

\* erase moves the devices behind it up; the last slot stays as it was.
Erase ==
  /\ api.op = "erase"
  /\ slots' = [s \in DOMAIN slots |->
                 IF s \in api.at .. size - 2 THEN slots[s + 1] ELSE slots[s]]
  /\ api' = [op |-> "shrink"]
  /\ removed' = TRUE
  /\ Disturb
  /\ UNCHANGED << size, capacity, heap, changes, handler, present >>

Shrink ==
  /\ api.op = "shrink"
  /\ size' = size - 1
  /\ api' = NoApi
  /\ Disturb
  /\ UNCHANGED << slots, capacity, heap, changes, handler, present, removed >>

Api ==
  \/ \E name \in Name : AddDevice(name)
  \/ Grow \/ PushBack
  \/ \E s \in 0 .. MaxDevices - 1 :
       RemoveDevice(s) \/ \E new \in Name : RenameDevice(s, new)
  \/ GiveName \/ Erase \/ Shrink

-----------------------------------------------------------------------------
(***************************************************************************)
(* The handler: _onTCPList and _deviceJson.                                *)
(***************************************************************************)
\* Mutant: the id for the place.
BeginBehind(n) ==
  /\ pc = "idle"
  /\ id' = n
  /\ i' = n
  /\ pc' = IF n = 0 THEN "loop" ELSE "check"
  /\ reply' = NoReply
  /\ present' = size
  /\ disturbed' = (api.op \in {"grown", "name", "erase", "shrink"})
  /\ removed' = FALSE
  /\ UNCHANGED << vector, program, base, copy >>

\* An id of the url goes through atoi and an unsigned char, which is here;
\* _deviceJson(id - 1) is for one device, the loop for all.
Begin(n) ==
  /\ pc = "idle"
  /\ id' = n
  /\ i' = IF n = 0 THEN 0 ELSE n - 1
  /\ pc' = IF n = 0 THEN "loop" ELSE "check"
  /\ reply' = NoReply
  /\ present' = size
  /\ disturbed' = (api.op \in {"grown", "name", "erase", "shrink"})
  /\ removed' = FALSE
  /\ UNCHANGED << vector, program, base, copy >>

\* Mutant: one device too many.
LoopOnceMore ==
  /\ pc = "loop"
  /\ pc' = IF i <= size THEN "check" ELSE "send"
  /\ UNCHANGED << vector, program, id, i, base, copy, reply, history >>

Loop ==
  /\ pc = "loop"
  /\ pc' = IF i < size THEN "check" ELSE "send"
  /\ UNCHANGED << vector, program, id, i, base, copy, reply, history >>

\* The loop counter is an unsigned char.
NextPlace(j) == (j + 1) % IdMod

Say(what) ==
  /\ reply' = [n \in DOMAIN reply \cup {i + 1} |->
                IF n = i + 1 THEN what ELSE reply[n]]
  /\ \/ id = 0 /\ i' = NextPlace(i) /\ pc' = "loop"
     \/ id # 0 /\ pc' = "send" /\ UNCHANGED i

Nothing == [key |-> "{}", name |-> "{}"]

Check ==
  /\ pc = "check"
  /\ \/ i >= size /\ Say(Nothing)
     \/ i < size /\ pc' = "load" /\ UNCHANGED << i, reply >>
  /\ UNCHANGED << vector, program, id, base, copy, history >>

Load ==
  /\ pc = "load"
  /\ base' = capacity
  /\ pc' = "copy"
  /\ UNCHANGED << vector, program, id, i, copy, reply, history >>

\* The copy keeps the pointer to the name, not the name.
Copy ==
  /\ pc = "copy"
  /\ copy' = IF base = capacity /\ api.op # "grown" /\ i \in DOMAIN slots
             THEN slots[i] ELSE Garbage
  /\ pc' = "format"
  /\ UNCHANGED << vector, program, id, i, base, reply, history >>

Format ==
  /\ pc = "format"
  /\ Say([key  |-> copy.key,
          name |-> IF copy.name \in Cell THEN heap[copy.name] ELSE "garbage"])
  /\ base' = 0
  /\ copy' = Garbage
  /\ UNCHANGED << vector, program, id, history >>

Send ==
  /\ pc = "send"
  /\ pc' = "idle"
  /\ i' = 0
  /\ UNCHANGED << vector, program, id, base, copy, reply, history >>

Handle == Loop \/ Check \/ Load \/ Copy \/ Format \/ Send

Next == Api \/ (\E n \in 0 .. IdMod - 1 : Begin(n)) \/ Handle

Spec == Init /\ [][Next]_vars

\* Nothing holds the receive thread back for good.
FairSpec == Spec /\ WF_vars(Handle)

-----------------------------------------------------------------------------
(***************************************************************************)
(* Properties.                                                             *)
(***************************************************************************)
Operation ==
  {NoApi} \cup [op : {"push", "grown"}, device : Device]
    \cup [op : {"name"}, at : 0 .. MaxDevices - 1, new : Name]
    \cup [op : {"erase"}, at : 0 .. MaxDevices - 1] \cup {[op |-> "shrink"]}

VectorTypeOK ==
  /\ DOMAIN slots \subseteq 0 .. capacity - 1
  /\ \A s \in DOMAIN slots : slots[s] \in Device
  /\ size \in 0 .. MaxDevices /\ 0 .. size - 1 \subseteq DOMAIN slots
  /\ capacity \in Nat
  /\ heap \in [Cell -> Name \cup {"free"}]

ProgramTypeOK ==
  /\ api \in Operation /\ changes \in 0 .. MaxChanges
  /\ api.op \in {"push", "grown"} => size < MaxDevices
  /\ api.op \in {"name", "erase"} => api.at < size
  /\ api.op = "shrink" => size > 0

HandlerTypeOK ==
  /\ pc \in {"idle", "loop", "check", "load", "copy", "format", "send"}
  /\ id \in 0 .. IdMod - 1 /\ i \in 0 .. IdMod - 1
  /\ base \in Nat
  /\ copy \in Device \cup {Garbage}
  /\ DOMAIN reply \subseteq 1 .. IdMod
  /\ present \in 0 .. MaxDevices
  /\ disturbed \in BOOLEAN /\ removed \in BOOLEAN

\* Every variable keeps its type; no more devices than the storage holds, and
\* an operation of main is about a device there is.
TypeOK == VectorTypeOK /\ ProgramTypeOK /\ HandlerTypeOK

\* What a reply should say of id n.
Entry(n) == [key |-> slots[n - 1].key, name |-> heap[slots[n - 1].name]]

\* Unless main renames or removes a device, or its storage moves, while a
\* reply is made, the reply is exact, and devices may be added all the while:
\* the list has every device there was at its start under its id, with its own
\* name; one device asked for is that device, or {} if it is not there
\* (fauxmoLINUX.cpp:81-104, 193-205).
QuietRepliesAreExact ==
  pc = "send" /\ ~disturbed =>
    /\ \A n \in DOMAIN reply :
         \/ n <= size /\ reply[n] = Entry(n)
         \/ id = n /\ n > present /\ reply[n] = Nothing
    /\ \/ id = 0 /\ \E k \in present .. size : DOMAIN reply = 1 .. k
       \/ id # 0 /\ DOMAIN reply = {id}

\* The ids of a list stay good until a device is removed: under the id that a
\* controller has from an undisturbed reply, _devices[--id] is still the device
\* of the reply (fauxmoLINUX.cpp:198, 312, 541).
IdsStayGood ==
  pc = "idle" /\ ~disturbed /\ ~removed =>
    \A n \in DOMAIN reply :
      reply[n] # Nothing => n <= size /\ slots[n - 1].key = reply[n].key

(***************************************************************************)
(* Whatever the handlers may see on the way, main's operations come to     *)
(* single steps on a list of names.  One that renames or removes takes     *)
(* effect as it frees the old name, one that adds when the device is in    *)
(* the vector; that a place of the heap, once free, holds another name     *)
(* later does not give it to a device that had the place before            *)
(* (fauxmoLINUX.cpp:480-545).                                              *)
(***************************************************************************)
Count == IF api.op \in {"erase", "shrink"} THEN size - 1 ELSE size

\* The slot of the nth device, not counting the one that is removed.
Slot(n) == IF api.op = "erase" /\ n > api.at THEN n ELSE n - 1

NameAt(s) ==
  IF api.op = "name" /\ api.at = s THEN api.new ELSE heap[slots[s].name]

Listed ==
  [n \in 1 .. Count |->
     [key |-> slots[Slot(n)].key, name |-> NameAt(Slot(n))]]

Atomic == INSTANCE AtomicList WITH list <- Listed

MainIsAtomic == Atomic!Spec

\* A list comes to its end as long as there are fewer devices than an unsigned
\* char counts (fauxmoLINUX.cpp:193).
RepliesEnd == [](size < IdMod) => (pc # "idle" ~> pc = "idle")
=============================================================================
