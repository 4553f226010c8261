-------------------------- MODULE DeviceListProofs --------------------------
(***************************************************************************)
(* Theorems about the list of devices, for any number of devices, names    *)
(* and changes: what a reply says if main does not disturb it, how long    *)
(* its ids stay good, and that main's operations come to single steps on   *)
(* a list, whatever slots and places of the heap they go through.          *)
(***************************************************************************)
EXTENDS DeviceList, SequenceTheorems, TLAPS

\* The devices that stay once main's operation is done.
Live == IF api.op = "shrink" THEN 0 .. size - 2 ELSE 0 .. size - 1

\* Each device has a name of its own on the heap, but for the one that main is
\* renaming or removing, whose name is free.
HeapOK ==
  /\ \A s, t \in Live : slots[s].name = slots[t].name => s = t
  /\ \A s \in Live : \/ api.op \in {"name", "erase"} /\ api.at = s
                     \/ heap[slots[s].name] # "free"
  /\ api.op \in {"name", "erase"} => heap[slots[api.at].name] = "free"
  /\ api.op \in {"push", "grown"} =>
       /\ heap[api.device.name] # "free"
       /\ \A s \in Live : slots[s].name # api.device.name

\* How far a reply has got.
Progress ==
  /\ present <= size
  /\ pc \in {"load", "copy", "format"} => i < size
  /\ pc = "check" /\ id = 0 => i < size
  /\ pc = "copy" => base = capacity
  /\ pc = "format" => copy = slots[i]
  /\ id = 0 /\ pc # "send" => (DOMAIN reply = 1 .. i /\ i <= size) \/ IdMod <= size
  /\ id # 0 => i = id - 1 /\ pc # "loop" /\ (pc # "send" => DOMAIN reply = {})

Exact ==
  /\ \A n \in DOMAIN reply :
       \/ n <= size /\ reply[n] = Entry(n)
       \/ id = n /\ n > present /\ reply[n] = Nothing
  /\ pc = "send" => \/ id = 0 /\ \E k \in present .. size : DOMAIN reply = 1 .. k
                    \/ id # 0 /\ DOMAIN reply = {id}

\* While nothing disturbs it, a reply is exact as far as it goes.
Quiet ==
  pc # "idle" /\ ~disturbed => api.op \in {"none", "push"} /\ Progress /\ Exact

\* Until a device is removed, its id leads to it.
KeysGood ==
  /\ api.op = "shrink" => removed \/ disturbed
  /\ ~disturbed /\ ~removed =>
       \A n \in DOMAIN reply :
         reply[n] # Nothing => n <= size /\ slots[n - 1].key = reply[n].key

-----------------------------------------------------------------------------
LEMMA TypeInit == Init => TypeOK
<1> SUFFICES ASSUME Init PROVE TypeOK
  OBVIOUS
<1> USE ListAssumption DEF Init
<1>1. VectorTypeOK
  BY DEF VectorTypeOK
<1>2. ProgramTypeOK
  BY DEF ProgramTypeOK, Operation, NoApi
<1>3. HandlerTypeOK
  <2>1. id \in 0 .. IdMod - 1 /\ i \in 0 .. IdMod - 1 /\ present \in 0 .. MaxDevices
    OBVIOUS
  <2>2. DOMAIN reply = {}
    BY DEF NoReply
  <2>3. disturbed \in BOOLEAN /\ removed \in BOOLEAN
    OBVIOUS
  <2>4. QED
    BY <2>1, <2>2, <2>3 DEF HandlerTypeOK
<1>4. QED
  BY <1>1, <1>2, <1>3 DEF TypeOK

LEMMA Places ==
  \A k, c \in Nat : k + 1 <= c => 0 .. k \subseteq 0 .. c - 1
OBVIOUS

LEMMA MemberIsBoolean == \A x, S : (x \in S) \in BOOLEAN
<1> SUFFICES ASSUME NEW x, NEW S PROVE (x \in S) \in BOOLEAN
  OBVIOUS
<1>1. CASE x \in S
  <2>1. (x \in S) = TRUE
    BY <1>1
  <2>2. QED
    BY <2>1
<1>2. CASE x \notin S
  <2>1. (x \in S) = FALSE
    BY <1>2
  <2>2. QED
    BY <2>1
<1>3. QED
  BY <1>1, <1>2

LEMMA TypeApi == TypeOK /\ Api => TypeOK'
<1> SUFFICES ASSUME TypeOK, Api PROVE TypeOK'
  OBVIOUS
<1> USE ListAssumption DEF TypeOK, handler, history
<1>a. NoApi \in Operation /\ NoApi.op = "none"
  BY DEF Operation, NoApi
<1>1. ASSUME NEW name \in Name, AddDevice(name) PROVE TypeOK'
  <2>1. /\ FreeCell \in Cell /\ heap[FreeCell] = "free"
        /\ (CHOOSE key \in UnusedKeys : TRUE) \in Key
    BY <1>1 DEF AddDevice, FreeCell, FreeCells, UnusedKeys
  <2>2. VectorTypeOK'
    BY <1>1, <2>1 DEF AddDevice, Strdup, VectorTypeOK
  <2>3. ProgramTypeOK'
    BY <1>1, <2>1 DEF AddDevice, ProgramTypeOK, VectorTypeOK, Operation, Device
  <2>4. HandlerTypeOK'
    BY <1>1 DEF AddDevice, HandlerTypeOK
  <2>5. QED
    BY <2>2, <2>3, <2>4
<1>2. CASE Grow
  <2>1. VectorTypeOK'
    BY <1>2 DEF Grow, vector, VectorTypeOK
  <2>2. ProgramTypeOK'
    BY <1>2 DEF Grow, vector, ProgramTypeOK, Operation, NoApi
  <2>3. HandlerTypeOK'
    BY <1>2 DEF Grow, Disturb, HandlerTypeOK
  <2>4. QED
    BY <2>1, <2>2, <2>3
<1>3. CASE PushBack
  <2>1. api.op \in {"push", "grown"} /\ api.device \in Device
    BY <1>3 DEF PushBack, ProgramTypeOK, Operation, NoApi
  <2>2. size < MaxDevices /\ size <= capacity
    <3>1. size \in Nat /\ capacity \in Nat /\ 0 .. size - 1 \subseteq 0 .. capacity - 1
      BY DEF VectorTypeOK
    <3>2. size > 0 => size - 1 \in 0 .. size - 1
      BY <3>1
    <3>3. QED
      BY <2>1, <3>1, <3>2 DEF ProgramTypeOK
  <2>3. capacity' \in Nat /\ size + 1 <= capacity'
    BY <1>3, <2>2 DEF PushBack, VectorTypeOK
  <2>4. VectorTypeOK'
    <3>1. /\ slots' = [s \in 0 .. size |-> IF s = size THEN api.device ELSE slots[s]]
          /\ size' = size + 1 /\ heap' = heap
      BY <1>3 DEF PushBack
    <3>2. size \in Nat /\ 0 .. size - 1 \subseteq DOMAIN slots
      BY DEF VectorTypeOK
    <3>3. DOMAIN slots' \subseteq 0 .. capacity' - 1
      <4>1. DOMAIN slots' = 0 .. size
        BY <3>1
      <4>2. QED
        BY <2>3, <3>2, <4>1, Places
    <3>4. \A s \in 0 .. size : slots'[s] \in Device
      BY <2>1, <3>1, <3>2 DEF VectorTypeOK
    <3>5. size' \in 0 .. MaxDevices /\ 0 .. size' - 1 \subseteq DOMAIN slots'
      BY <2>2, <3>1, <3>2
    <3>6. QED
      BY <2>3, <3>1, <3>3, <3>4, <3>5 DEF VectorTypeOK
  <2>5. ProgramTypeOK'
    BY <1>3, <1>a DEF PushBack, ProgramTypeOK
  <2>6. HandlerTypeOK'
    BY <1>3 DEF PushBack, Disturb, HandlerTypeOK
  <2>7. QED
    BY <2>4, <2>5, <2>6
<1>4. ASSUME NEW s \in 0 .. MaxDevices - 1, NEW next \in Operation, FreeName(s, next),
             next.op \in {"name", "erase"}, next.at = s
      PROVE  TypeOK'
  <2>1. VectorTypeOK'
    BY <1>4 DEF FreeName, VectorTypeOK
  <2>2. ProgramTypeOK'
    BY <1>4 DEF FreeName, ProgramTypeOK
  <2>3. HandlerTypeOK'
    BY <1>4 DEF FreeName, Disturb, HandlerTypeOK
  <2>4. QED
    BY <2>1, <2>2, <2>3
<1>5. ASSUME NEW s \in 0 .. MaxDevices - 1, RemoveDevice(s) PROVE TypeOK'
  BY <1>4, <1>5 DEF RemoveDevice, Operation
<1>6. ASSUME NEW s \in 0 .. MaxDevices - 1, NEW new \in Name, RenameDevice(s, new)
      PROVE  TypeOK'
  BY <1>4, <1>6 DEF RenameDevice, Operation
<1>7. CASE GiveName
  <2>1. FreeCells # {}
    BY <1>7 DEF GiveName
  <2>2. FreeCell \in Cell
    BY <2>1 DEF FreeCell, FreeCells
  <2>3. api.op = "name" /\ api.new \in Name /\ api.at \in 0 .. size - 1
    <3>1. api.op = "name" /\ api \in Operation /\ api.at < size
      BY <1>7 DEF GiveName, ProgramTypeOK
    <3>2. api \in [op : {"name"}, at : 0 .. MaxDevices - 1, new : Name]
      BY <3>1 DEF Operation, NoApi
    <3>3. size \in Nat
      BY DEF VectorTypeOK
    <3>4. QED
      BY <3>1, <3>2, <3>3
  <2>4. VectorTypeOK'
    BY <1>7, <2>2, <2>3 DEF GiveName, Strdup, VectorTypeOK, Device
  <2>5. ProgramTypeOK'
    BY <1>7, <1>a DEF GiveName, ProgramTypeOK
  <2>6. HandlerTypeOK'
    BY <1>7 DEF GiveName, Disturb, HandlerTypeOK
  <2>7. QED
    BY <2>4, <2>5, <2>6
<1>8. CASE Erase
  <2>1. VectorTypeOK'
    BY <1>8 DEF Erase, VectorTypeOK
  <2>2. api.at \in Nat /\ api.at < size
    BY <1>8 DEF Erase, ProgramTypeOK, Operation, NoApi
  <2>3. ProgramTypeOK'
    BY <1>8, <2>2 DEF Erase, ProgramTypeOK, VectorTypeOK, Operation
  <2>4. HandlerTypeOK'
    BY <1>8 DEF Erase, Disturb, HandlerTypeOK
  <2>5. QED
    BY <2>1, <2>3, <2>4
<1>9. CASE Shrink
  <2>1. VectorTypeOK'
    BY <1>9 DEF Shrink, VectorTypeOK, ProgramTypeOK
  <2>2. ProgramTypeOK'
    BY <1>9, <1>a DEF Shrink, ProgramTypeOK
  <2>3. HandlerTypeOK'
    BY <1>9 DEF Shrink, Disturb, HandlerTypeOK
  <2>4. QED
    BY <2>1, <2>2, <2>3
<1>10. QED
  BY Zenon, <1>1, <1>2, <1>3, <1>5, <1>6, <1>7, <1>8, <1>9 DEF Api

LEMMA TypeSay ==
  ASSUME TypeOK, NEW what, Say(what)
  PROVE  /\ DOMAIN reply' \subseteq 1 .. IdMod
         /\ i' \in 0 .. IdMod - 1
         /\ pc' \in {"loop", "send"}
BY ListAssumption DEF Say, NextPlace, TypeOK, HandlerTypeOK

LEMMA TypeHandler ==
  ASSUME TypeOK, Handle \/ \E n \in 0 .. IdMod - 1 : Begin(n)
  PROVE  TypeOK'
<1> USE ListAssumption DEF TypeOK, vector, program, history
<1>0. ASSUME UNCHANGED << vector, program >> PROVE VectorTypeOK' /\ ProgramTypeOK'
  BY <1>0 DEF VectorTypeOK, ProgramTypeOK
<1>1. CASE Loop
  BY <1>0, <1>1 DEF Loop, HandlerTypeOK
<1>2. CASE Check
  <2>1. pc' \in {"loop", "send", "load"} /\ i' \in 0 .. IdMod - 1
        /\ DOMAIN reply' \subseteq 1 .. IdMod
    BY <1>2, TypeSay DEF Check, HandlerTypeOK
  <2>2. QED
    BY <1>0, <1>2, <2>1 DEF Check, HandlerTypeOK
<1>3. CASE Load
  BY <1>0, <1>3 DEF Load, HandlerTypeOK, VectorTypeOK
<1>4. CASE Copy
  <2>1. copy' \in Device \cup {Garbage}
    BY <1>4 DEF Copy, VectorTypeOK
  <2>2. QED
    BY <1>0, <1>4, <2>1 DEF Copy, HandlerTypeOK
<1>5. CASE Format
  <2>1. pc' \in {"loop", "send"} /\ i' \in 0 .. IdMod - 1
        /\ DOMAIN reply' \subseteq 1 .. IdMod
    BY <1>5, TypeSay DEF Format
  <2>2. QED
    BY <1>0, <1>5, <2>1 DEF Format, HandlerTypeOK
<1>6. CASE Send
  BY <1>0, <1>6 DEF Send, HandlerTypeOK
<1>7. ASSUME NEW n \in 0 .. IdMod - 1, Begin(n) PROVE TypeOK'
  <2>1. i' \in 0 .. IdMod - 1 /\ id' \in 0 .. IdMod - 1
    BY <1>7 DEF Begin
  <2>2. present' \in 0 .. MaxDevices
    BY <1>7 DEF Begin, VectorTypeOK
  <2>3. disturbed' \in BOOLEAN /\ removed' \in BOOLEAN
    <3>1. /\ disturbed' = (api.op \in {"grown", "name", "erase", "shrink"})
          /\ removed' = FALSE
      BY <1>7 DEF Begin
    <3>2. (api.op \in {"grown", "name", "erase", "shrink"}) \in BOOLEAN
      BY MemberIsBoolean
    <3>3. disturbed' \in BOOLEAN
      BY Zenon, <3>1, <3>2
    <3>4. removed' \in BOOLEAN
      BY <3>1
    <3>5. QED
      BY <3>3, <3>4
  <2>4. pc' \in {"loop", "check"} /\ DOMAIN reply' = {}
    BY <1>7 DEF Begin, NoReply
  <2>5. QED
    BY <1>0, <1>7, <2>1, <2>2, <2>3, <2>4 DEF Begin, HandlerTypeOK
<1>8. QED
  BY <1>1, <1>2, <1>3, <1>4, <1>5, <1>6, <1>7 DEF Handle

LEMMA TypeStep == TypeOK /\ [Next]_vars => TypeOK'
<1> SUFFICES ASSUME TypeOK, [Next]_vars PROVE TypeOK'
  OBVIOUS
<1>1. CASE UNCHANGED vars
  BY <1>1 DEF vars, vector, program, handler, history, TypeOK, VectorTypeOK,
              ProgramTypeOK, HandlerTypeOK
<1>2. QED
  BY <1>1, TypeApi, TypeHandler DEF Next

(***************************************************************************)
(* Type correctness: among others, the vector never holds more devices     *)
(* than its storage has room for (fauxmoLINUX.cpp:497).                    *)
(***************************************************************************)
THEOREM TypeCorrect == Spec => []TypeOK
BY TypeInit, TypeStep, PTL DEF Spec

-----------------------------------------------------------------------------
(***************************************************************************)
(* The heap.                                                               *)
(***************************************************************************)
LEMMA OpKnown ==
  ASSUME TypeOK
  PROVE  /\ api.op \in {"none", "push", "grown", "name", "erase", "shrink"}
         /\ size \in Nat /\ capacity \in Nat
         /\ api.op \in {"push", "grown"} => api.device \in Device
         /\ api.op \in {"name", "erase"} => api.at \in 0 .. size - 1
<1>1. size \in Nat /\ capacity \in Nat
  BY ListAssumption DEF TypeOK, VectorTypeOK
<1>2. api \in Operation
  BY DEF TypeOK, ProgramTypeOK
<1>3. api.op \in {"none", "push", "grown", "name", "erase", "shrink"}
  BY <1>2 DEF Operation, NoApi
<1>4. api.op \in {"push", "grown"} => api.device \in Device
  BY <1>2 DEF Operation, NoApi
<1>5. api.op \in {"name", "erase"} => api.at \in 0 .. size - 1
  <2>1. api.op \in {"name", "erase"} => api.at \in 0 .. MaxDevices - 1 /\ api.at < size
    BY <1>2 DEF Operation, NoApi, TypeOK, ProgramTypeOK
  <2>2. QED
    BY <1>1, <2>1, ListAssumption
<1>6. QED
  BY <1>1, <1>3, <1>4, <1>5

LEMMA LiveDevices ==
  ASSUME TypeOK
  PROVE  /\ Live \subseteq 0 .. size - 1
         /\ api.op # "shrink" => Live = 0 .. size - 1
         /\ \A s \in 0 .. size - 1 : s \in DOMAIN slots /\ slots[s] \in Device
<1>1. \A s \in 0 .. size - 1 : s \in DOMAIN slots /\ slots[s] \in Device
  BY DEF TypeOK, VectorTypeOK
<1>2. Live \subseteq 0 .. size - 1 /\ (api.op # "shrink" => Live = 0 .. size - 1)
  BY OpKnown DEF Live
<1>3. QED
  BY <1>1, <1>2

LEMMA HeapHandler ==
  ASSUME HeapOK, UNCHANGED << vector, program >>
  PROVE  HeapOK'
BY DEF HeapOK, Live, vector, program

LEMMA HeapApi == ASSUME TypeOK, HeapOK, Api PROVE HeapOK'
<1>a. /\ api.op \in {"none", "push", "grown", "name", "erase", "shrink"}
      /\ size \in Nat
      /\ \A s \in 0 .. size - 1 : s \in DOMAIN slots /\ slots[s] \in Device
  BY OpKnown, LiveDevices
<1>b. heap \in [Cell -> Name \cup {"free"}] /\ "free" \notin Name
  BY ListAssumption DEF TypeOK, VectorTypeOK
<1>1. ASSUME NEW name \in Name, AddDevice(name) PROVE HeapOK'
  <2>1. /\ FreeCell \in Cell /\ heap[FreeCell] = "free"
        /\ api.op = "none" /\ api'.op = "push" /\ api'.device.name = FreeCell
        /\ heap' = [heap EXCEPT ![FreeCell] = name]
        /\ slots' = slots /\ size' = size
    BY <1>1 DEF AddDevice, FreeCell, FreeCells, Strdup, NoApi
  <2>2. Live' = Live /\ Live = 0 .. size - 1
    BY <2>1 DEF Live
  <2>3. \A s \in Live : heap[slots[s].name] # "free" /\ slots[s].name \in Cell
    BY <1>a, <2>1, <2>2 DEF HeapOK, Device
  <2>4. \A s \in Live : slots[s].name # FreeCell /\ heap'[slots[s].name] # "free"
    BY <1>b, <2>1, <2>3
  <2>5. QED
    BY <1>b, <2>1, <2>2, <2>4 DEF HeapOK
<1>2. CASE Grow
  <2>1. api.op = "push" /\ api'.op = "grown" /\ api'.device = api.device
        /\ UNCHANGED vector
    BY <1>2 DEF Grow
  <2>2. QED
    BY <2>1 DEF HeapOK, Live, vector
<1>3. CASE PushBack
  <2>1. /\ api.op \in {"push", "grown"} /\ api'.op = "none" /\ heap' = heap
        /\ slots' = [s \in 0 .. size |-> IF s = size THEN api.device ELSE slots[s]]
        /\ size' = size + 1
    BY <1>3 DEF PushBack, NoApi
  <2>2. Live = 0 .. size - 1 /\ Live' = 0 .. size
    BY <1>a, <2>1 DEF Live
  <2>3. \A s \in Live' : \/ s \in Live /\ slots'[s] = slots[s]
                         \/ s = size /\ slots'[s] = api.device
    BY <1>a, <2>1, <2>2
  <2>4. /\ heap[api.device.name] # "free"
        /\ \A s \in Live : /\ slots[s].name # api.device.name
                           /\ heap[slots[s].name] # "free"
    BY <2>1 DEF HeapOK
  <2>5. \A s, t \in Live' : slots'[s].name = slots'[t].name => s = t
    BY <2>3, <2>4 DEF HeapOK
  <2>6. \A s \in Live' : heap'[slots'[s].name] # "free"
    BY <2>1, <2>3, <2>4
  <2>7. QED
    BY <2>1, <2>5, <2>6 DEF HeapOK
<1>4. ASSUME NEW s \in 0 .. MaxDevices - 1, NEW next, FreeName(s, next),
             next.op \in {"name", "erase"}, next.at = s
      PROVE  HeapOK'
  <2>1. /\ api.op = "none" /\ s \in 0 .. size - 1
        /\ api'.op \in {"name", "erase"} /\ api'.at = s
        /\ heap' = [heap EXCEPT ![slots[s].name] = "free"]
        /\ slots' = slots /\ size' = size
    BY <1>4, <1>a, ListAssumption DEF FreeName, NoApi
  <2>2. Live' = Live /\ Live = 0 .. size - 1
    BY <2>1 DEF Live
  <2>3. \A t \in Live : slots[t].name \in Cell /\ heap[slots[t].name] # "free"
    BY <1>a, <2>1, <2>2 DEF HeapOK, Device
  <2>4. \A t \in Live : t = s \/ heap'[slots[t].name] # "free"
    BY <1>b, <2>1, <2>2, <2>3 DEF HeapOK
  <2>5. heap'[slots[s].name] = "free"
    BY <1>b, <2>1, <2>2, <2>3
  <2>6. QED
    BY <2>1, <2>2, <2>4, <2>5 DEF HeapOK
<1>5. ASSUME NEW s \in 0 .. MaxDevices - 1, RemoveDevice(s) PROVE HeapOK'
  BY <1>4, <1>5 DEF RemoveDevice
<1>6. ASSUME NEW s \in 0 .. MaxDevices - 1, NEW new \in Name, RenameDevice(s, new)
      PROVE  HeapOK'
  BY <1>4, <1>6 DEF RenameDevice
<1>7. CASE GiveName
  <2>1. api.op = "name" /\ FreeCells # {}
    BY <1>7 DEF GiveName
  <2>2. /\ FreeCell \in Cell /\ heap[FreeCell] = "free"
        /\ api.at \in 0 .. size - 1 /\ api.new \in Name
    <3>1. FreeCell \in Cell /\ heap[FreeCell] = "free"
      BY <2>1 DEF FreeCell, FreeCells
    <3>2. api.at \in 0 .. size - 1
      BY <2>1, OpKnown
    <3>3. api.new \in Name
      BY <2>1 DEF TypeOK, ProgramTypeOK, Operation, NoApi
    <3>4. QED
      BY <3>1, <3>2, <3>3
  <2>3. /\ heap' = [heap EXCEPT ![FreeCell] = api.new] /\ api'.op = "none"
        /\ slots' = [slots EXCEPT ![api.at].name = FreeCell] /\ size' = size
    BY <1>7 DEF GiveName, Strdup, NoApi
  <2>4. Live = 0 .. size - 1 /\ Live' = Live
    BY <2>1, <2>3 DEF Live
  <2>5. \A s \in Live : s # api.at => /\ heap[slots[s].name] # "free"
                                    /\ slots[s].name \in Cell
                                    /\ slots'[s] = slots[s]
    BY <1>a, <2>1, <2>3, <2>4 DEF HeapOK, Device
  <2>6. slots'[api.at].name = FreeCell /\ heap'[FreeCell] # "free"
    BY <1>a, <1>b, <2>2, <2>3 DEF Device
  <2>7. \A s \in Live : s # api.at => /\ slots'[s].name # FreeCell
                                    /\ heap'[slots'[s].name] # "free"
    BY <1>b, <2>2, <2>3, <2>5
  <2>8. \A s, t \in Live' : slots'[s].name = slots'[t].name => s = t
    BY <2>4, <2>5, <2>6, <2>7 DEF HeapOK
  <2>9. QED
    BY <2>3, <2>4, <2>6, <2>7, <2>8 DEF HeapOK
<1>8. CASE Erase
  <2>1. api.op = "erase" /\ api'.op = "shrink" /\ heap' = heap /\ size' = size
    BY <1>8 DEF Erase
  <2>2. api.at \in 0 .. size - 1
    BY <2>1, OpKnown
  <2>3. Live = 0 .. size - 1 /\ Live' = 0 .. size - 2
    BY <2>1 DEF Live
  <2> DEFINE Was(s) == IF s \in api.at .. size - 2 THEN s + 1 ELSE s
  <2>4. \A s \in Live' : slots'[s] = slots[Was(s)]
    BY <1>8, <1>a, <2>3 DEF Erase
  <2>5. \A s \in Live' : Was(s) \in Live /\ Was(s) # api.at
    BY <1>a, <2>2, <2>3
  <2>6. \A s, t \in Live' : Was(s) = Was(t) => s = t
    BY <1>a, <2>2, <2>3
  <2> HIDE DEF Was
  <2>7. \A s, t \in Live' : slots'[s].name = slots'[t].name => s = t
    BY <2>4, <2>5, <2>6 DEF HeapOK
  <2>8. \A s \in Live' : heap'[slots'[s].name] # "free"
    BY <2>1, <2>4, <2>5 DEF HeapOK
  <2>9. QED
    BY <2>1, <2>7, <2>8 DEF HeapOK
<1>9. CASE Shrink
  <2>1. /\ api.op = "shrink" /\ api'.op = "none" /\ size' = size - 1
        /\ heap' = heap /\ slots' = slots
    BY <1>9 DEF Shrink, NoApi
  <2>2. Live' = Live
    BY <1>a, <2>1 DEF Live
  <2>3. QED
    BY <2>1, <2>2 DEF HeapOK
<1>10. QED
  BY Zenon, <1>1, <1>2, <1>3, <1>5, <1>6, <1>7, <1>8, <1>9 DEF Api

-----------------------------------------------------------------------------
(***************************************************************************)
(* The reply.                                                              *)
(***************************************************************************)
\* What main does that leaves a handler alone: nothing has moved, and only a
\* free place of the heap is written to.
LEMMA ApiLeavesAlone ==
  ASSUME TypeOK, HeapOK, Api, ~disturbed', pc # "idle"
  PROVE  /\ ~disturbed
         /\ UNCHANGED << handler, present, removed >>
         /\ api.op \in {"none", "push"} =>
              /\ api'.op \in {"none", "push"}
              /\ capacity' = capacity /\ size' \in Nat /\ size <= size'
              /\ \A s \in 0 .. size - 1 :
                   /\ slots'[s] = slots[s]
                   /\ heap'[slots[s].name] = heap[slots[s].name]
<1>a. /\ size \in Nat
      /\ \A s \in 0 .. size - 1 : s \in DOMAIN slots /\ slots[s] \in Device
  BY OpKnown, LiveDevices
<1> DEFINE Goal == /\ ~disturbed
                   /\ UNCHANGED << handler, present, removed >>
                   /\ api.op \in {"none", "push"} =>
                        /\ api'.op \in {"none", "push"}
                        /\ capacity' = capacity /\ size' \in Nat /\ size <= size'
                        /\ \A s \in 0 .. size - 1 :
                             /\ slots'[s] = slots[s]
                             /\ heap'[slots[s].name] = heap[slots[s].name]
<1>1. ASSUME NEW name \in Name, AddDevice(name) PROVE Goal
  <2>1. /\ FreeCell \in Cell /\ heap[FreeCell] = "free" /\ api.op = "none"
        /\ heap' = [heap EXCEPT ![FreeCell] = name]
    BY <1>1 DEF AddDevice, FreeCell, FreeCells, Strdup, NoApi
  <2>2. Live = 0 .. size - 1
    BY <2>1 DEF Live
  <2>3. \A s \in 0 .. size - 1 :
          slots[s].name \in Cell /\ heap[slots[s].name] # "free"
    BY <1>a, <2>1, <2>2 DEF HeapOK, Device
  <2>4. \A s \in 0 .. size - 1 : heap'[slots[s].name] = heap[slots[s].name]
    BY <2>1, <2>3 DEF TypeOK, VectorTypeOK
  <2>5. slots' = slots /\ size' = size /\ capacity' = capacity /\ api'.op = "push"
        /\ UNCHANGED << handler, history >>
    BY <1>1 DEF AddDevice
  <2>6. QED
    BY <1>a, <2>4, <2>5 DEF history
<1>2. ASSUME PushBack PROVE Goal
  <2>1. \/ api.op = "push" /\ size < capacity /\ UNCHANGED << capacity, disturbed >>
        \/ api.op = "grown"
    BY <1>2 DEF PushBack
  <2>2. api.op # "grown"
    BY <1>2 DEF PushBack, Disturb
  <2>3. /\ slots' = [s \in 0 .. size |-> IF s = size THEN api.device ELSE slots[s]]
        /\ size' = size + 1 /\ api'.op = "none" /\ heap' = heap
        /\ UNCHANGED << handler, present, removed >>
    BY <1>2 DEF PushBack, NoApi
  <2>4. \A s \in 0 .. size - 1 : slots'[s] = slots[s]
    BY <1>a, <2>3
  <2>5. QED
    BY <1>a, <2>1, <2>2, <2>3, <2>4
<1>3. ASSUME Disturb PROVE FALSE
  BY <1>3 DEF Disturb
<1>4. ASSUME NEW s \in 0 .. MaxDevices - 1,
             RemoveDevice(s) \/ \E new \in Name : RenameDevice(s, new)
      PROVE  Disturb
  BY <1>4 DEF RemoveDevice, RenameDevice, FreeName
<1>5. Grow \/ GiveName \/ Erase \/ Shrink => Disturb
  BY DEF Grow, GiveName, Erase, Shrink
<1> HIDE DEF Goal
<1>6. Goal
  <2>1. \/ \E name \in Name : AddDevice(name)
        \/ PushBack \/ Disturb
    BY Zenon, <1>4, <1>5 DEF Api
  <2>2. QED
    BY Zenon, <1>1, <1>2, <1>3, <2>1
<1>7. QED
  BY <1>6 DEF Goal

LEMMA IdleStaysIdle == ASSUME Api, pc = "idle" PROVE pc' = "idle"
BY DEF Api, AddDevice, Grow, PushBack, RemoveDevice, RenameDevice, FreeName,
       GiveName, Erase, Shrink, handler

LEMMA QuietApi == ASSUME TypeOK, HeapOK, Quiet, Api PROVE Quiet'
<1> SUFFICES ASSUME pc' # "idle", ~disturbed'
             PROVE  api'.op \in {"none", "push"} /\ Progress' /\ Exact'
  BY DEF Quiet
<1>1. pc # "idle"
  BY IdleStaysIdle
<1>2. ~disturbed /\ UNCHANGED << handler, present, removed >>
  BY <1>1, ApiLeavesAlone
<1>3. api.op \in {"none", "push"} /\ Progress /\ Exact
  BY <1>1, <1>2 DEF Quiet
<1>4. /\ api'.op \in {"none", "push"}
      /\ capacity' = capacity /\ size' \in Nat /\ size <= size'
      /\ \A s \in 0 .. size - 1 : /\ slots'[s] = slots[s]
                                 /\ heap'[slots[s].name] = heap[slots[s].name]
  BY <1>1, <1>3, ApiLeavesAlone
<1>5. /\ pc' = pc /\ id' = id /\ i' = i /\ base' = base /\ copy' = copy
      /\ reply' = reply /\ present' = present
  BY <1>2 DEF handler
<1>6. /\ size \in Nat /\ i \in Nat /\ present \in Nat /\ IdMod \in Nat
      /\ DOMAIN reply \subseteq 1 .. IdMod
  BY OpKnown, ListAssumption DEF TypeOK, HandlerTypeOK
<1>7. Progress'
  <2>1. pc = "format" => i < size
    BY <1>3 DEF Progress
  <2>2. pc' = "format" => copy' = slots'[i']
    <3>1. pc = "format" => copy = slots[i] /\ i \in 0 .. size - 1
      BY <1>3, <1>6, <2>1 DEF Progress
    <3>2. QED
      BY <1>4, <1>5, <3>1
  <2>3. /\ present' <= size'
        /\ pc' \in {"load", "copy", "format"} => i' < size'
        /\ pc' = "check" /\ id' = 0 => i' < size'
    BY <1>3, <1>4, <1>5, <1>6 DEF Progress
  <2>4. /\ pc' = "copy" => base' = capacity'
        /\ id' # 0 => i' = id' - 1 /\ pc' # "loop"
                      /\ (pc' # "send" => DOMAIN reply' = {})
    BY <1>3, <1>4, <1>5 DEF Progress
  <2>5. id' = 0 /\ pc' # "send" =>
          (DOMAIN reply' = 1 .. i' /\ i' <= size') \/ IdMod <= size'
    BY <1>3, <1>4, <1>5, <1>6 DEF Progress
  <2>6. QED
    BY <2>2, <2>3, <2>4, <2>5 DEF Progress
<1>8. Exact'
  <2>1. \A n \in DOMAIN reply' :
          \/ n <= size' /\ reply'[n] = Entry(n)'
          \/ id' = n /\ n > present' /\ reply'[n] = Nothing'
    <3> SUFFICES ASSUME NEW n \in DOMAIN reply
                 PROVE  \/ n <= size' /\ reply'[n] = Entry(n)'
                        \/ id' = n /\ n > present' /\ reply'[n] = Nothing'
      BY <1>5
    <3>1. n \in Nat /\ n > 0
      BY <1>6
    <3>2. CASE n <= size /\ reply[n] = Entry(n)
      <4>1. n - 1 \in 0 .. size - 1
        BY <1>6, <3>1, <3>2
      <4>2. slots'[n - 1] = slots[n - 1]
            /\ heap'[slots[n - 1].name] = heap[slots[n - 1].name]
        BY <1>4, <4>1
      <4>3. Entry(n)' = Entry(n)
        BY <4>2 DEF Entry
      <4>4. n <= size'
        BY <1>4, <1>6, <3>1, <3>2
      <4>5. QED
        BY <1>5, <3>2, <4>3, <4>4
    <3>3. CASE id = n /\ n > present /\ reply[n] = Nothing
      BY <1>5, <3>3 DEF Nothing
    <3>4. QED
      BY <1>3, <3>2, <3>3 DEF Exact
  <2>2. pc' = "send" => \/ id' = 0 /\ \E k \in present' .. size' : DOMAIN reply' = 1 .. k
                        \/ id' # 0 /\ DOMAIN reply' = {id'}
    <3>1. present .. size \subseteq present' .. size'
      BY <1>4, <1>5, <1>6
    <3>2. QED
      BY <1>3, <1>5, <3>1 DEF Exact
  <2>3. QED
    BY <2>1, <2>2 DEF Exact
<1>9. QED
  BY <1>4, <1>7, <1>8

LEMMA QuietHandler ==
  ASSUME TypeOK, Quiet, Handle \/ \E n \in 0 .. IdMod - 1 : Begin(n)
  PROVE  Quiet'
<1> SUFFICES ASSUME pc' # "idle", ~disturbed'
             PROVE  api'.op \in {"none", "push"} /\ Progress' /\ Exact'
  BY DEF Quiet
<1>a. /\ size \in Nat /\ i \in 0 .. IdMod - 1 /\ id \in 0 .. IdMod - 1
      /\ present \in Nat /\ IdMod \in Nat /\ IdMod > 0
      /\ DOMAIN reply \subseteq 1 .. IdMod
      /\ pc \in {"idle", "loop", "check", "load", "copy", "format", "send"}
  BY OpKnown, ListAssumption DEF TypeOK, HandlerTypeOK
<1>1. ASSUME NEW n \in 0 .. IdMod - 1, Begin(n)
      PROVE  api'.op \in {"none", "push"} /\ Progress' /\ Exact'
  <2>1. /\ id' = n /\ i' = (IF n = 0 THEN 0 ELSE n - 1) /\ DOMAIN reply' = {}
        /\ pc' = (IF n = 0 THEN "loop" ELSE "check")
        /\ present' = size /\ size' = size /\ api' = api
        /\ api.op \notin {"grown", "name", "erase", "shrink"}
    BY <1>1 DEF Begin, NoReply, vector, program
  <2>2. api'.op \in {"none", "push"}
    BY <2>1, OpKnown
  <2>3. Progress'
    BY <1>a, <2>1 DEF Progress
  <2>4. Exact'
    BY <2>1 DEF Exact
  <2>5. QED
    BY <2>2, <2>3, <2>4
<1>2. ASSUME Handle PROVE api'.op \in {"none", "push"} /\ Progress' /\ Exact'
  <2>1. /\ vector' = vector /\ program' = program /\ history' = history /\ id' = id
        /\ pc # "idle"
    BY <1>2 DEF Handle, Loop, Check, Load, Copy, Format, Send
  <2>2. /\ slots' = slots /\ size' = size /\ capacity' = capacity /\ heap' = heap
        /\ api' = api /\ present' = present /\ disturbed' = disturbed
    BY <2>1 DEF vector, program, history
  <2>3. api.op \in {"none", "push"} /\ Progress /\ Exact
    BY <2>1, <2>2 DEF Quiet
  <2>4. \A n : Entry(n)' = Entry(n)
    BY <2>2 DEF Entry
  <2>5. ASSUME NEW what, Say(what), pc # "send",
               \/ i < size /\ what = Entry(i + 1)
               \/ id # 0 /\ i >= size /\ what = Nothing
        PROVE  Progress' /\ Exact'
    <3>1. /\ DOMAIN reply' = DOMAIN reply \cup {i + 1} /\ reply'[i + 1] = what
          /\ \A n \in DOMAIN reply : n # i + 1 => reply'[n] = reply[n]
      BY <2>5 DEF Say
    <3>2. \A n \in DOMAIN reply' :
            \/ n <= size' /\ reply'[n] = Entry(n)'
            \/ id' = n /\ n > present' /\ reply'[n] = Nothing'
      <4>1. \A n \in DOMAIN reply :
              \/ n <= size /\ reply[n] = Entry(n)
              \/ id = n /\ n > present /\ reply[n] = Nothing
        BY <2>3 DEF Exact
      <4>2. \/ i + 1 <= size /\ what = Entry(i + 1)
            \/ id = i + 1 /\ i + 1 > present /\ what = Nothing
        BY <1>a, <2>3, <2>5 DEF Progress
      <4>3. Nothing' = Nothing
        BY DEF Nothing
      <4>4. \A n \in DOMAIN reply' :
              \/ n <= size /\ reply'[n] = Entry(n)
              \/ id = n /\ n > present /\ reply'[n] = Nothing
        BY <3>1, <4>1, <4>2
      <4>5. QED
        BY <2>1, <2>2, <2>4, <4>3, <4>4
    <3>3. CASE id = 0
      <4>1. /\ pc' = "loop" /\ i' = (i + 1) % IdMod
            /\ i < size
        BY <2>5, <3>3 DEF Say, NextPlace
      <4>2. (DOMAIN reply = 1 .. i /\ i <= size) \/ IdMod <= size
        BY <2>3, <2>5, <3>3 DEF Progress
      <4>3. CASE IdMod <= size
        BY <1>a, <2>1, <2>2, <2>3, <3>2, <3>3, <4>1, <4>3 DEF Progress, Exact
      <4>4. CASE DOMAIN reply = 1 .. i /\ size < IdMod
        <5>1. i' = i + 1
          BY <1>a, <4>1, <4>4
        <5>2. DOMAIN reply' = 1 .. i'
          BY <1>a, <3>1, <4>4, <5>1
        <5>3. Progress'
          BY <1>a, <2>1, <2>2, <2>3, <3>3, <4>1, <5>1, <5>2 DEF Progress
        <5>4. QED
          BY <3>2, <4>1, <5>3 DEF Exact
      <4>5. QED
        BY <1>a, <4>2, <4>3, <4>4
    <3>4. CASE id # 0
      <4>1. pc' = "send" /\ i' = i
        BY <2>5, <3>4 DEF Say
      <4>2. i + 1 = id /\ DOMAIN reply' = {id}
        BY <1>a, <2>3, <2>5, <3>1, <3>4 DEF Progress
      <4>3. Progress'
        BY <2>1, <2>2, <2>3, <3>4, <4>1 DEF Progress
      <4>4. QED
        BY <2>1, <3>2, <3>4, <4>1, <4>2, <4>3 DEF Exact
    <3>5. QED
      BY <3>3, <3>4
  <2>6. ASSUME reply' = reply, pc' # "send" PROVE Exact'
    <3>1. Nothing' = Nothing
      BY DEF Nothing
    <3>2. QED
      BY <2>1, <2>2, <2>3, <2>4, <2>6, <3>1 DEF Exact
  <2>7. ASSUME Loop PROVE Progress' /\ Exact'
    <3>1. /\ pc = "loop" /\ pc' = (IF i < size THEN "check" ELSE "send")
          /\ i' = i /\ base' = base /\ copy' = copy /\ reply' = reply
      BY <2>7 DEF Loop
    <3>2. id = 0
      BY <2>3, <3>1 DEF Progress
    <3>3. Progress'
      BY <1>a, <2>1, <2>2, <2>3, <3>1, <3>2 DEF Progress
    <3>4. CASE i < size
      BY <2>6, <3>1, <3>3, <3>4
    <3>5. CASE ~(i < size)
      <4>1. DOMAIN reply = 1 .. size /\ size \in present .. size
        BY <1>a, <2>3, <3>1, <3>2, <3>5 DEF Progress
      <4>2. Nothing' = Nothing
        BY DEF Nothing
      <4>3. QED
        BY <2>1, <2>2, <2>3, <2>4, <3>1, <3>2, <3>3, <4>1, <4>2 DEF Exact
    <3>6. QED
      BY <3>4, <3>5
  <2>8. ASSUME Check PROVE Progress' /\ Exact'
    <3>1. CASE i >= size
      <4>1. pc = "check" /\ Say(Nothing)
        BY <1>a, <2>8, <3>1 DEF Check
      <4>2. id # 0
        BY <1>a, <2>3, <3>1, <4>1 DEF Progress
      <4>3. QED
        BY <2>5, <3>1, <4>1, <4>2
    <3>2. CASE i < size
      <4>1. /\ pc = "check" /\ pc' = "load" /\ i' = i /\ base' = base
            /\ copy' = copy /\ reply' = reply
        BY <1>a, <2>8, <3>2 DEF Check
      <4>2. Progress'
        BY <2>1, <2>2, <2>3, <3>2, <4>1 DEF Progress
      <4>3. QED
        BY <2>6, <4>1, <4>2
    <3>3. QED
      BY <1>a, <3>1, <3>2
  <2>9. ASSUME Load PROVE Progress' /\ Exact'
    <3>1. /\ pc = "load" /\ pc' = "copy" /\ i' = i /\ base' = capacity
          /\ copy' = copy /\ reply' = reply
      BY <2>9 DEF Load
    <3>2. Progress'
      BY <2>1, <2>2, <2>3, <3>1 DEF Progress
    <3>3. QED
      BY <2>6, <3>1, <3>2
  <2>10. ASSUME Copy PROVE Progress' /\ Exact'
    <3>1. pc = "copy" /\ base = capacity /\ i \in 0 .. size - 1
      BY <1>a, <2>3, <2>10 DEF Progress, Copy
    <3>2. i \in DOMAIN slots
      BY <3>1, LiveDevices
    <3>3. /\ pc' = "format" /\ i' = i /\ base' = base
          /\ copy' = slots[i] /\ reply' = reply
      BY <2>3, <2>10, <3>1, <3>2 DEF Copy
    <3>4. Progress'
      BY <1>a, <2>1, <2>2, <2>3, <3>1, <3>3 DEF Progress
    <3>5. QED
      BY <2>6, <3>3, <3>4
  <2>11. ASSUME Format PROVE Progress' /\ Exact'
    <3>1. pc = "format" /\ i \in 0 .. size - 1 /\ copy = slots[i]
      BY <1>a, <2>3, <2>11 DEF Progress, Format
    <3>2. copy.name \in Cell
      BY <3>1, LiveDevices DEF Device
    <3>3. Say([key |-> copy.key, name |-> heap[copy.name]])
      BY <2>11, <3>2 DEF Format
    <3>4. [key |-> copy.key, name |-> heap[copy.name]] = Entry(i + 1)
      BY <1>a, <3>1 DEF Entry
    <3>5. QED
      BY <1>a, <2>5, <3>1, <3>3, <3>4
  <2>12. ASSUME Send PROVE FALSE
    BY <2>12 DEF Send
  <2>13. QED
    <3>1. Progress' /\ Exact'
      BY Zenon, <1>2, <2>7, <2>8, <2>9, <2>10, <2>11, <2>12 DEF Handle
    <3>2. QED
      BY <2>2, <2>3, <3>1
<1>3. QED
  BY <1>1, <1>2

LEMMA KeysApi == ASSUME TypeOK, KeysGood, Api PROVE KeysGood'
<1>a. /\ size \in Nat
      /\ \A s \in 0 .. size - 1 : s \in DOMAIN slots /\ slots[s] \in Device
      /\ \A n \in DOMAIN reply : n \in Nat /\ n > 0
  BY OpKnown, LiveDevices DEF TypeOK, HandlerTypeOK
<1>b. Nothing' = Nothing
  BY DEF Nothing
<1>1. reply' = reply /\ (disturbed => disturbed') /\ (removed => removed')
  <2>1. reply' = reply
    BY DEF Api, AddDevice, Grow, PushBack, RemoveDevice, RenameDevice, FreeName,
           GiveName, Erase, Shrink, handler
  <2>2. Disturb \/ disturbed' = disturbed
    BY DEF Api, AddDevice, Grow, PushBack, RemoveDevice, RenameDevice, FreeName,
           GiveName, Erase, Shrink, history
  <2>3. removed' = removed \/ removed' = TRUE
    BY DEF Api, AddDevice, Grow, PushBack, RemoveDevice, RenameDevice, FreeName,
           GiveName, Erase, Shrink, history
  <2>4. disturbed => disturbed'
    BY <2>2 DEF Disturb
  <2>5. removed => removed'
    BY <2>3
  <2>6. QED
    BY <2>1, <2>4, <2>5
<1>2. CASE Erase
  BY <1>2 DEF Erase, KeysGood
<1>3. CASE Shrink
  <2>1. removed \/ disturbed
    BY <1>3 DEF Shrink, KeysGood
  <2>2. api'.op = "none"
    BY <1>3 DEF Shrink, NoApi
  <2>3. QED
    BY <1>1, <2>1, <2>2 DEF KeysGood
<1>4. ASSUME api'.op # "shrink", size <= size', size' \in Nat,
             \A s \in 0 .. size - 1 : slots'[s].key = slots[s].key
      PROVE  KeysGood'
  <2> SUFFICES ASSUME ~disturbed', ~removed', NEW n \in DOMAIN reply, reply[n] # Nothing
               PROVE  n <= size' /\ slots'[n - 1].key = reply[n].key
    BY <1>1, <1>4, <1>b DEF KeysGood
  <2>1. n <= size /\ slots[n - 1].key = reply[n].key
    BY <1>1 DEF KeysGood
  <2>2. n - 1 \in 0 .. size - 1 /\ n <= size'
    BY <1>4, <1>a, <2>1
  <2>3. QED
    BY <1>4, <2>1, <2>2
<1>5. ASSUME NEW name \in Name, AddDevice(name) PROVE KeysGood'
  BY <1>4, <1>5, <1>a DEF AddDevice
<1>6. CASE Grow
  BY <1>4, <1>6, <1>a DEF Grow, vector
<1>7. CASE PushBack
  <2>1. /\ slots' = [s \in 0 .. size |-> IF s = size THEN api.device ELSE slots[s]]
        /\ size' = size + 1 /\ api'.op # "shrink"
    BY <1>7 DEF PushBack, NoApi
  <2>2. \A s \in 0 .. size - 1 : slots'[s].key = slots[s].key
    BY <1>a, <2>1
  <2>3. QED
    BY <1>4, <1>a, <2>1, <2>2
<1>8. ASSUME NEW s \in 0 .. MaxDevices - 1, RemoveDevice(s) PROVE KeysGood'
  BY <1>4, <1>8, <1>a DEF RemoveDevice, FreeName
<1>9. ASSUME NEW s \in 0 .. MaxDevices - 1, NEW new \in Name, RenameDevice(s, new)
      PROVE  KeysGood'
  BY <1>4, <1>9, <1>a DEF RenameDevice, FreeName
<1>10. CASE GiveName
  <2>1. \A s \in 0 .. size - 1 : slots'[s].key = slots[s].key
    BY <1>10, <1>a DEF GiveName, Device
  <2>2. QED
    BY <1>4, <1>10, <1>a, <2>1 DEF GiveName, NoApi
<1>11. QED
  BY Zenon, <1>2, <1>3, <1>5, <1>6, <1>7, <1>8, <1>9, <1>10 DEF Api

LEMMA KeysHandler ==
  ASSUME TypeOK, Quiet, KeysGood, Handle \/ \E n \in 0 .. IdMod - 1 : Begin(n)
  PROVE  KeysGood'
<1>a. Nothing' = Nothing
  BY DEF Nothing
<1>1. ASSUME NEW n \in 0 .. IdMod - 1, Begin(n) PROVE KeysGood'
  BY <1>1 DEF Begin, KeysGood, NoReply, program
<1>2. CASE Handle
  <2>1. /\ vector' = vector /\ program' = program /\ history' = history
    BY <1>2 DEF Handle, Loop, Check, Load, Copy, Format, Send
  <2>2. /\ slots' = slots /\ size' = size /\ api' = api
        /\ disturbed' = disturbed /\ removed' = removed
    BY <2>1 DEF vector, program, history
  <2>3. ASSUME reply' = reply PROVE KeysGood'
    BY <2>2, <2>3, <1>a DEF KeysGood
  <2>4. ASSUME NEW what, Say(what),
               \/ what = Nothing \/ disturbed
               \/ i + 1 <= size /\ slots[i].key = what.key /\ i \in Nat
        PROVE  KeysGood'
    <3>1. /\ DOMAIN reply' = DOMAIN reply \cup {i + 1} /\ reply'[i + 1] = what
          /\ \A n \in DOMAIN reply : n # i + 1 => reply'[n] = reply[n]
      BY <2>4 DEF Say
    <3> SUFFICES ASSUME ~disturbed, ~removed, NEW n \in DOMAIN reply', reply'[n] # Nothing
                 PROVE  n <= size /\ slots[n - 1].key = reply'[n].key
      BY <2>2, <1>a DEF KeysGood
    <3>2. CASE n = i + 1
      <4>1. i + 1 <= size /\ slots[i].key = what.key /\ i \in Nat
        BY <2>4, <3>1, <3>2
      <4>2. n - 1 = i
        BY <3>2, <4>1
      <4>3. QED
        BY <3>1, <3>2, <4>1, <4>2
    <3>3. CASE n # i + 1
      BY <3>1, <3>3 DEF KeysGood
    <3>4. QED
      BY <3>2, <3>3
  <2>5. CASE Format
    <3>1. pc = "format" /\ i \in Nat /\ size \in Nat
      BY <2>5, OpKnown, ListAssumption DEF Format, TypeOK, HandlerTypeOK
    <3>2. disturbed \/ (i + 1 <= size /\ copy = slots[i])
      BY <3>1 DEF Quiet, Progress
    <3>3. PICK what : Say(what) /\ what.key = copy.key
      BY <2>5 DEF Format
    <3>4. QED
      BY <2>4, <3>1, <3>2, <3>3
  <2>6. CASE Check
    BY <2>3, <2>4, <2>6 DEF Check
  <2>7. CASE Loop \/ Load \/ Copy \/ Send
    BY <2>3, <2>7 DEF Loop, Load, Copy, Send
  <2>8. QED
    BY <1>2, <2>5, <2>6, <2>7 DEF Handle
<1>3. QED
  BY <1>1, <1>2

-----------------------------------------------------------------------------
IInv == TypeOK /\ HeapOK /\ Quiet /\ KeysGood

LEMMA InitIInv == Init => IInv
<1> SUFFICES ASSUME Init PROVE IInv
  OBVIOUS
<1>1. HeapOK
  BY DEF Init, HeapOK, Live, NoApi
<1>2. Quiet /\ KeysGood
  BY DEF Init, Quiet, KeysGood, NoReply, NoApi
<1>3. QED
  BY <1>1, <1>2, TypeInit DEF IInv

LEMMA StepIInv == IInv /\ [Next]_vars => IInv'
<1> SUFFICES ASSUME TypeOK, HeapOK, Quiet, KeysGood, [Next]_vars
             PROVE  TypeOK' /\ HeapOK' /\ Quiet' /\ KeysGood'
  BY DEF IInv
<1>1. TypeOK'
  BY TypeStep
<1>2. CASE UNCHANGED vars
  <2>1. HeapOK'
    BY <1>2, HeapHandler DEF vars
  <2>2. Quiet' /\ KeysGood'
    BY <1>2 DEF vars, vector, program, handler, history, Quiet, KeysGood,
                Progress, Exact, Entry, Nothing
  <2>3. QED
    BY <1>1, <2>1, <2>2
<1>3. CASE Api
  BY <1>1, <1>3, HeapApi, QuietApi, KeysApi
<1>4. CASE Handle \/ \E n \in 0 .. IdMod - 1 : Begin(n)
  <2>1. UNCHANGED << vector, program >>
    BY <1>4 DEF Handle, Begin, Loop, Check, Load, Copy, Format, Send
  <2>2. QED
    BY <1>1, <1>4, <2>1, HeapHandler, QuietHandler, KeysHandler
<1>5. QED
  BY <1>2, <1>3, <1>4 DEF Next

(***************************************************************************)
(* A reply that main does not disturb has each device there was when it    *)
(* began, under its id and with its own name, however many devices are     *)
(* added meanwhile (fauxmoLINUX.cpp:81-104, 193-205).                      *)
(***************************************************************************)
THEOREM RepliesExact == Spec => []QuietRepliesAreExact
<1>1. IInv => QuietRepliesAreExact
  BY DEF IInv, Quiet, Exact, QuietRepliesAreExact
<1>2. QED
  BY <1>1, InitIInv, StepIInv, PTL DEF Spec

(***************************************************************************)
(* The ids of such a reply lead to their devices until a device is removed *)
(* (fauxmoLINUX.cpp:198, 312, 541).                                        *)
(***************************************************************************)
THEOREM IdsGood == Spec => []IdsStayGood
<1>1. IInv => IdsStayGood
  BY DEF IInv, KeysGood, IdsStayGood
<1>2. QED
  BY <1>1, InitIInv, StepIInv, PTL DEF Spec

-----------------------------------------------------------------------------
(***************************************************************************)
(* main's operations as steps on a list.                                   *)
(***************************************************************************)
Label == [key : Key, name : Name]

\* No device is in the vector twice, nor the one that is being added.
KeysOwn ==
  /\ \A s, t \in Live : slots[s].key = slots[t].key => s = t
  /\ api.op \in {"push", "grown"} =>
       \A s \in Live : slots[s].key # api.device.key

\* The list has the live devices but for the one that is removed.
LEMMA ListedEntries ==
  ASSUME TypeOK, HeapOK
  PROVE  /\ Count \in Nat
         /\ \A n \in 1 .. Count : /\ Slot(n) \in Live
                                  /\ api.op = "erase" => Slot(n) # api.at
                                  /\ Listed[n] = [key |-> slots[Slot(n)].key,
                                                  name |-> NameAt(Slot(n))]
                                  /\ Listed[n] \in Label
         /\ Listed \in Seq(Label) /\ Len(Listed) = Count
         /\ DOMAIN Listed = 1 .. Count
<1>a. /\ api.op \in {"none", "push", "grown", "name", "erase", "shrink"}
      /\ size \in Nat
      /\ api.op \in {"name", "erase"} => api.at \in 0 .. size - 1
      /\ \A s \in 0 .. size - 1 : s \in DOMAIN slots /\ slots[s] \in Device
      /\ Live \subseteq 0 .. size - 1
  BY OpKnown, LiveDevices
<1>b. heap \in [Cell -> Name \cup {"free"}]
  BY DEF TypeOK, VectorTypeOK
<1>c. api.op = "shrink" => size > 0
  BY DEF TypeOK, ProgramTypeOK
<1>d. api.op = "name" => api.new \in Name
  BY DEF TypeOK, ProgramTypeOK, Operation, NoApi
<1>1. Count \in Nat
  BY <1>a, <1>c DEF Count
<1>2. ASSUME NEW n \in 1 .. Count
      PROVE  Slot(n) \in Live /\ (api.op = "erase" => Slot(n) # api.at)
  BY <1>a, <1>c DEF Count, Slot, Live
<1>3. ASSUME NEW n \in 1 .. Count
      PROVE  [key |-> slots[Slot(n)].key, name |-> NameAt(Slot(n))] \in Label
  <2>1. slots[Slot(n)] \in Device /\ Slot(n) \in Live
    BY <1>a, <1>2
  <2>2. NameAt(Slot(n)) \in Name
    <3>1. CASE api.op = "name" /\ api.at = Slot(n)
      BY <3>1, <1>d DEF NameAt
    <3>2. CASE ~(api.op = "name" /\ api.at = Slot(n))
      <4>1. heap[slots[Slot(n)].name] # "free"
        BY <1>2, <2>1, <3>2 DEF HeapOK
      <4>2. slots[Slot(n)].name \in Cell
        BY <2>1 DEF Device
      <4>3. QED
        BY <1>b, <3>2, <4>1, <4>2 DEF NameAt
    <3>3. QED
      BY <3>1, <3>2
  <2>3. QED
    BY <2>1, <2>2 DEF Label, Device
<1>4. \A n \in 1 .. Count : Listed[n] = [key |-> slots[Slot(n)].key,
                                         name |-> NameAt(Slot(n))]
  BY DEF Listed
<1>5. Listed \in [1 .. Count -> Label]
  BY <1>3 DEF Listed
<1>6. Listed \in Seq(Label) /\ Len(Listed) = Count /\ DOMAIN Listed = 1 .. Count
  BY <1>1, <1>5
<1>7. QED
  BY <1>1, <1>2, <1>3, <1>4, <1>6

\* A list of as many devices with the same labels is the same list.
LEMMA ListedIs ==
  ASSUME TypeOK', HeapOK', NEW list \in Seq(Label), Len(list) = Count',
         \A n \in 1 .. Count' : Listed'[n] = list[n]
  PROVE  Listed' = list
<1>1. Listed' \in Seq(Label) /\ Len(Listed') = Count'
  <2>1. (Listed \in Seq(Label) /\ Len(Listed) = Count)'
    BY ListedEntries, PTL
  <2>2. QED
    BY <2>1 DEF Label
<1>2. QED
  BY <1>1, SeqEqual

LEMMA KeysOwnHandler ==
  ASSUME KeysOwn, UNCHANGED << vector, program >>
  PROVE  KeysOwn'
BY DEF KeysOwn, Live, vector, program

LEMMA KeysOwnApi == ASSUME TypeOK, KeysOwn, Api PROVE KeysOwn'
<1>a. /\ size \in Nat
      /\ \A s \in 0 .. size - 1 : s \in DOMAIN slots /\ slots[s] \in Device
      /\ api.op \in {"name", "erase"} => api.at \in 0 .. size - 1
  BY OpKnown, LiveDevices
<1>1. ASSUME NEW name \in Name, AddDevice(name) PROVE KeysOwn'
  <2>1. /\ api.op = "none" /\ api'.op = "push" /\ slots' = slots /\ size' = size
        /\ api'.device.key \in UnusedKeys
    BY <1>1 DEF AddDevice, NoApi
  <2>2. Live' = 0 .. size - 1 /\ Live = 0 .. size - 1
    BY <2>1 DEF Live
  <2>3. \A s \in Live' : slots'[s].key # api'.device.key
    BY <2>1, <2>2 DEF UnusedKeys
  <2>4. QED
    BY <2>1, <2>2, <2>3 DEF KeysOwn
<1>2. CASE Grow
  <2>1. api.op = "push" /\ api'.op = "grown" /\ api'.device = api.device
        /\ UNCHANGED vector
    BY <1>2 DEF Grow
  <2>2. QED
    BY <2>1 DEF KeysOwn, Live, vector
<1>3. CASE PushBack
  <2>1. /\ api.op \in {"push", "grown"} /\ api'.op = "none"
        /\ slots' = [s \in 0 .. size |-> IF s = size THEN api.device ELSE slots[s]]
        /\ size' = size + 1
    BY <1>3 DEF PushBack, NoApi
  <2>2. Live = 0 .. size - 1 /\ Live' = 0 .. size
    BY <1>a, <2>1 DEF Live
  <2>3. \A s \in Live' : \/ s \in Live /\ slots'[s] = slots[s]
                         \/ s = size /\ slots'[s] = api.device
    BY <1>a, <2>1, <2>2
  <2>4. \A s \in Live : slots[s].key # api.device.key
    BY <2>1 DEF KeysOwn
  <2>5. \A s, t \in Live' : slots'[s].key = slots'[t].key => s = t
    BY <2>3, <2>4 DEF KeysOwn
  <2>6. QED
    BY <2>1, <2>5 DEF KeysOwn
<1>4. ASSUME NEW s, NEW next, FreeName(s, next), next.op \in {"name", "erase"}
      PROVE  KeysOwn'
  <2>1. api.op = "none" /\ api'.op \in {"name", "erase"} /\ UNCHANGED << slots, size >>
    BY <1>4 DEF FreeName, NoApi
  <2>2. QED
    BY <2>1 DEF KeysOwn, Live
<1>5. ASSUME NEW s \in 0 .. MaxDevices - 1, RemoveDevice(s) PROVE KeysOwn'
  BY <1>4, <1>5 DEF RemoveDevice
<1>6. ASSUME NEW s \in 0 .. MaxDevices - 1, NEW new \in Name, RenameDevice(s, new)
      PROVE  KeysOwn'
  BY <1>4, <1>6 DEF RenameDevice
<1>7. CASE GiveName
  <2>1. api.op = "name" /\ api'.op = "none" /\ size' = size
        /\ slots' = [slots EXCEPT ![api.at].name = FreeCell]
    BY <1>7 DEF GiveName, NoApi
  <2>2. Live = 0 .. size - 1 /\ Live' = Live
    BY <2>1 DEF Live
  <2>3. \A s \in Live : slots'[s].key = slots[s].key
    BY <1>a, <2>1, <2>2 DEF Device
  <2>4. QED
    BY <2>1, <2>2, <2>3 DEF KeysOwn
<1>8. CASE Erase
  <2>1. api.op = "erase" /\ api'.op = "shrink" /\ size' = size
    BY <1>8 DEF Erase
  <2>2. Live = 0 .. size - 1 /\ Live' = 0 .. size - 2
    BY <2>1 DEF Live
  <2> DEFINE Was(s) == IF s \in api.at .. size - 2 THEN s + 1 ELSE s
  <2>3. \A s \in Live' : slots'[s] = slots[Was(s)]
    BY <1>8, <1>a, <2>2 DEF Erase
  <2>4. \A s \in Live' : Was(s) \in Live
    BY <1>a, <2>2
  <2>5. \A s, t \in Live' : Was(s) = Was(t) => s = t
    BY <1>a, <2>1, <2>2
  <2> HIDE DEF Was
  <2>6. \A s, t \in Live' : slots'[s].key = slots'[t].key => s = t
    BY <2>3, <2>4, <2>5 DEF KeysOwn
  <2>7. QED
    BY <2>1, <2>6 DEF KeysOwn
<1>9. CASE Shrink
  <2>1. /\ api.op = "shrink" /\ api'.op = "none" /\ size' = size - 1 /\ slots' = slots
    BY <1>9 DEF Shrink, NoApi
  <2>2. Live' = Live
    BY <1>a, <2>1 DEF Live
  <2>3. QED
    BY <2>1, <2>2 DEF KeysOwn
<1>10. QED
  BY Zenon, <1>1, <1>2, <1>3, <1>5, <1>6, <1>7, <1>8, <1>9 DEF Api

\* What erase leaves of a list.
LEMMA Removed ==
  ASSUME NEW S, NEW s \in Seq(S), NEW k \in 1 .. Len(s)
  PROVE  /\ Atomic!RemoveAt(s, k) \in Seq(S)
         /\ Len(Atomic!RemoveAt(s, k)) = Len(s) - 1
         /\ \A n \in 1 .. Len(s) - 1 :
              Atomic!RemoveAt(s, k)[n] = IF n < k THEN s[n] ELSE s[n + 1]
<1> DEFINE front == SubSeq(s, 1, k - 1)
           back  == SubSeq(s, k + 1, Len(s))
<1>1. Len(s) \in Nat /\ \A n \in 1 .. Len(s) : s[n] \in S
  BY LenProperties, ElementOfSeq
<1>2. /\ front \in Seq(S) /\ Len(front) = k - 1
      /\ \A n \in 1 .. k - 1 : front[n] = s[n]
  <2>1. \A n \in 1 .. k - 1 : s[n] \in S
    BY <1>1
  <2>2. /\ front \in Seq(S)
        /\ Len(front) = IF 1 <= k - 1 THEN k - 1 - 1 + 1 ELSE 0
        /\ \A n \in 1 .. k - 1 - 1 + 1 : front[n] = s[1 + n - 1]
    BY <2>1, <1>1, SubSeqProperties
  <2>3. QED
    BY <2>2, <1>1
<1>3. /\ back \in Seq(S) /\ Len(back) = Len(s) - k
      /\ \A n \in 1 .. Len(s) - k : back[n] = s[k + n]
  <2>1. \A n \in k + 1 .. Len(s) : s[n] \in S
    BY <1>1
  <2>2. /\ back \in Seq(S)
        /\ Len(back) = IF k + 1 <= Len(s) THEN Len(s) - (k + 1) + 1 ELSE 0
        /\ \A n \in 1 .. Len(s) - (k + 1) + 1 : back[n] = s[k + 1 + n - 1]
    BY <2>1, <1>1, SubSeqProperties
  <2>3. QED
    BY <2>2, <1>1
<1> HIDE DEF front, back
<1>4. Atomic!RemoveAt(s, k) = front \o back
  BY DEF Atomic!RemoveAt, front, back
<1>5. /\ front \o back \in Seq(S)
      /\ Len(front \o back) = Len(front) + Len(back)
      /\ \A n \in 1 .. Len(front) + Len(back) :
           (front \o back)[n] = IF n <= Len(front) THEN front[n]
                                ELSE back[n - Len(front)]
  BY <1>2, <1>3, ConcatProperties
<1>6. ASSUME NEW n \in 1 .. Len(s) - 1
      PROVE  (front \o back)[n] = IF n < k THEN s[n] ELSE s[n + 1]
  <2>1. CASE n < k
    BY <2>1, <1>1, <1>2, <1>3, <1>5
  <2>2. CASE ~(n < k)
    <3>1. n - (k - 1) \in 1 .. Len(s) - k /\ k + (n - (k - 1)) = n + 1
      BY <2>2, <1>1
    <3>2. back[n - (k - 1)] = s[n + 1]
      BY <3>1, <1>3
    <3>3. QED
      BY <2>2, <3>2, <1>1, <1>2, <1>3, <1>5
  <2>3. QED
    BY <2>1, <2>2
<1>7. Len(front) + Len(back) = Len(s) - 1
  BY <1>1, <1>2, <1>3
<1>8. QED
  BY <1>4, <1>5, <1>6, <1>7

LEMMA ListedStays ==
  ASSUME TypeOK, HeapOK, TypeOK', HeapOK', Count' = Count,
         \A n \in 1 .. Count : /\ slots'[Slot(n)'].key = slots[Slot(n)].key
                              /\ NameAt(Slot(n))' = NameAt(Slot(n))
  PROVE  UNCHANGED Listed
BY DEF Listed

\* The steps that take effect.
LEMMA AddsOne ==
  ASSUME TypeOK, HeapOK, KeysOwn, TypeOK', HeapOK', PushBack
  PROVE  \E key \in Key, name \in Name : Atomic!Add(key, name)
<1> DEFINE key == api.device.key
           name == heap[api.device.name]
           label == [key |-> key, name |-> name]
<1>1. /\ api.op \in {"push", "grown"} /\ api'.op = "none" /\ heap' = heap
      /\ slots' = [s \in 0 .. size |-> IF s = size THEN api.device ELSE slots[s]]
      /\ size' = size + 1 /\ size \in Nat /\ api.device \in Device
  BY OpKnown DEF PushBack, NoApi
<1>2. Count = size /\ Count' = size + 1 /\ Live = 0 .. size - 1
  BY <1>1 DEF Count, Live
<1>3. key \in Key /\ name \in Name
  <2>1. name # "free"
    BY <1>1 DEF HeapOK
  <2>2. QED
    BY <1>1, <2>1 DEF Device, TypeOK, VectorTypeOK
<1>4. \A n \in 1 .. size : Slot(n) = n - 1 /\ Slot(n)' = n - 1
  BY <1>1 DEF Slot
<1>5. Listed \in Seq(Label) /\ Len(Listed) = size /\ DOMAIN Listed = 1 .. size
  BY <1>2, ListedEntries
<1>6. ASSUME NEW n \in 1 .. size PROVE Listed'[n] = Listed[n] /\ Listed[n].key # key
  <2>1. /\ Listed[n] = [key |-> slots[n - 1].key, name |-> NameAt(n - 1)]
        /\ n - 1 \in Live
    BY <1>2, <1>4, ListedEntries
  <2>2. slots'[n - 1] = slots[n - 1]
    BY <1>1
  <2>3. NameAt(n - 1) = heap[slots[n - 1].name] /\ NameAt(n - 1)' = heap[slots[n - 1].name]
    BY <1>1, <2>2 DEF NameAt
  <2>4. Listed'[n] = [key |-> slots'[n - 1].key, name |-> NameAt(n - 1)']
    BY <1>1, <1>2, <1>4 DEF Listed, NameAt
  <2>5. slots[n - 1].key # key
    BY <1>1, <2>1 DEF KeysOwn
  <2>6. QED
    BY <2>1, <2>2, <2>3, <2>4, <2>5
<1>7. ASSUME NEW n, n = size + 1 PROVE Listed'[n] = label
  <2>1. Slot(n)' = size /\ slots'[size] = api.device
    BY <1>1, <1>7 DEF Slot
  <2>2. NameAt(Slot(n))' = name
    BY <1>1, <2>1 DEF NameAt
  <2>3. QED
    BY <1>1, <1>2, <1>7, <2>1, <2>2 DEF Listed
<1>8. Listed' = Append(Listed, label)
  <2>1. label \in Label
    BY <1>3 DEF Label
  <2> HIDE DEF label
  <2>2. /\ Append(Listed, label) \in Seq(Label)
        /\ Len(Append(Listed, label)) = size + 1
        /\ \A n \in 1 .. size : Append(Listed, label)[n] = Listed[n]
        /\ Append(Listed, label)[size + 1] = label
    BY <1>5, <2>1, AppendProperties
  <2>3. \A n \in 1 .. size + 1 : Listed'[n] = Append(Listed, label)[n]
    BY <1>1, <1>6, <1>7, <2>2
  <2>4. QED
    BY <1>2, <2>2, <2>3, ListedIs
<1>9. key \notin Atomic!Keys
  BY <1>5, <1>6 DEF Atomic!Keys
<1>10. QED
  BY <1>3, <1>8, <1>9 DEF Atomic!Add

LEMMA RenamesOne ==
  ASSUME TypeOK, HeapOK, TypeOK', HeapOK',
         NEW s \in 0 .. MaxDevices - 1, NEW new \in Name, RenameDevice(s, new)
  PROVE  s + 1 \in DOMAIN Listed /\ Atomic!Rename(s + 1, new)
<1>1. /\ api.op = "none" /\ s < size /\ size \in Nat
      /\ heap' = [heap EXCEPT ![slots[s].name] = "free"]
      /\ api'.op = "name" /\ api'.at = s /\ api'.new = new
      /\ slots' = slots /\ size' = size
  BY OpKnown DEF RenameDevice, FreeName, NoApi
<1>2. /\ Count = size /\ Count' = size /\ s + 1 \in 1 .. size
      /\ Live = 0 .. size - 1 /\ s \in Live
  BY <1>1, ListAssumption DEF Count, Live
<1>3. \A n \in 1 .. size : Slot(n) = n - 1 /\ Slot(n)' = n - 1
  BY <1>1 DEF Slot
<1>4. Listed \in Seq(Label) /\ Len(Listed) = size /\ DOMAIN Listed = 1 .. size
  BY <1>2, ListedEntries
<1>5. ASSUME NEW n \in 1 .. size
      PROVE  Listed'[n] = [key |-> slots[n - 1].key, name |-> NameAt(n - 1)']
  BY <1>1, <1>2, <1>3 DEF Listed, NameAt
<1>6. ASSUME NEW n \in 1 .. size
      PROVE  Listed[n] = [key |-> slots[n - 1].key, name |-> heap[slots[n - 1].name]]
  BY <1>1, <1>2, <1>3 DEF Listed, NameAt
<1>7. ASSUME NEW n \in 1 .. size, n # s + 1 PROVE Listed'[n] = Listed[n]
  <2>1. n - 1 \in Live /\ n - 1 # s
    BY <1>1, <1>2, <1>7
  <2>2. slots[n - 1].name # slots[s].name
    BY <1>2, <2>1 DEF HeapOK
  <2>3. slots[n - 1].name \in Cell
    BY <1>2, <2>1, LiveDevices DEF Device
  <2>4. heap'[slots[n - 1].name] = heap[slots[n - 1].name]
    BY <1>1, <2>2, <2>3 DEF TypeOK, VectorTypeOK
  <2>5. NameAt(n - 1)' = heap[slots[n - 1].name]
    BY <1>1, <2>1, <2>4 DEF NameAt
  <2>6. QED
    BY <2>5, <1>5, <1>6
<1>8. Listed'[s + 1] = [Listed[s + 1] EXCEPT !.name = new]
  <2>1. NameAt(s)' = new
    BY <1>1 DEF NameAt
  <2>2. Listed'[s + 1] = [key |-> slots[s].key, name |-> new]
    BY <1>1, <1>2, <1>5, <2>1
  <2>3. Listed[s + 1] = [key |-> slots[s].key, name |-> heap[slots[s].name]]
    BY <1>1, <1>2, <1>6
  <2>4. QED
    BY <2>2, <2>3
<1>9. Listed' = [Listed EXCEPT ![s + 1].name = new]
  <2> DEFINE label == [Listed[s + 1] EXCEPT !.name = new]
             renamed == [Listed EXCEPT ![s + 1] = label]
  <2>0. Listed[s + 1] \in Label
    BY <1>2, <1>4, ElementOfSeq
  <2>1. label \in Label
    BY <2>0 DEF Label
  <2> HIDE DEF label
  <2>2. /\ renamed \in Seq(Label) /\ Len(renamed) = size
        /\ \A n \in 1 .. size : renamed[n] = IF n = s + 1 THEN label ELSE Listed[n]
    BY <1>2, <1>4, <2>1, ExceptSeq
  <2> HIDE DEF renamed
  <2>3. \A n \in 1 .. size : Listed'[n] = renamed[n]
    BY <1>2, <1>7, <1>8, <2>2 DEF label
  <2>4. Listed' = renamed
    BY <1>2, <2>2, <2>3, ListedIs
  <2>5. QED
    BY <2>4 DEF renamed, label
<1>10. QED
  BY <1>2, <1>4, <1>9 DEF Atomic!Rename

LEMMA RemovesOne ==
  ASSUME TypeOK, HeapOK, TypeOK', HeapOK',
         NEW s \in 0 .. MaxDevices - 1, RemoveDevice(s)
  PROVE  s + 1 \in DOMAIN Listed /\ Atomic!Erase(s + 1)
<1>1. /\ api.op = "none" /\ s < size /\ size \in Nat
      /\ heap' = [heap EXCEPT ![slots[s].name] = "free"]
      /\ api'.op = "erase" /\ api'.at = s
      /\ slots' = slots /\ size' = size
  BY OpKnown DEF RemoveDevice, FreeName, NoApi
<1>2. /\ Count = size /\ Count' = size - 1 /\ s + 1 \in 1 .. size
      /\ Live = 0 .. size - 1 /\ s \in Live
  BY <1>1, ListAssumption DEF Count, Live
<1>3. /\ \A n \in 1 .. size : Slot(n) = n - 1
      /\ \A n \in 1 .. size - 1 : Slot(n)' = IF n > s THEN n ELSE n - 1
  BY <1>1 DEF Slot
<1>4. Listed \in Seq(Label) /\ Len(Listed) = size /\ DOMAIN Listed = 1 .. size
  BY <1>2, ListedEntries
<1>5. ASSUME NEW t \in Live, t # s
      PROVE  Listed[t + 1] = [key |-> slots'[t].key, name |-> NameAt(t)']
  <2>1. slots[t].name # slots[s].name /\ slots[t].name \in Cell
    BY <1>2, <1>5, LiveDevices DEF HeapOK, Device
  <2>2. heap'[slots[t].name] = heap[slots[t].name]
    BY <1>1, <2>1 DEF TypeOK, VectorTypeOK
  <2>3. NameAt(t)' = heap[slots[t].name]
    BY <1>1, <2>2 DEF NameAt
  <2>4. t + 1 \in 1 .. size /\ Slot(t + 1) = t
    BY <1>1, <1>2, <1>3, <1>5
  <2>5. NameAt(t) = heap[slots[t].name]
    BY <1>1 DEF NameAt
  <2>6. QED
    BY <1>1, <1>2, <2>3, <2>4, <2>5 DEF Listed
<1>6. ASSUME NEW n \in 1 .. size - 1
      PROVE  Listed'[n] = IF n < s + 1 THEN Listed[n] ELSE Listed[n + 1]
  <2> DEFINE t == IF n > s THEN n ELSE n - 1
  <2>1. t \in Live /\ t # s /\ Slot(n)' = t
    BY <1>1, <1>2, <1>3
  <2>2. t + 1 = IF n < s + 1 THEN n ELSE n + 1
    BY <1>1
  <2> HIDE DEF t
  <2>3. Listed'[n] = [key |-> slots'[t].key, name |-> NameAt(t)']
    BY <1>2, <2>1 DEF Listed, NameAt
  <2>4. Listed'[n] = Listed[t + 1]
    BY <2>1, <2>3, <1>5
  <2>5. QED
    BY <2>2, <2>4
<1>7. Listed' = Atomic!RemoveAt(Listed, s + 1)
  <2> DEFINE rest == Atomic!RemoveAt(Listed, s + 1)
  <2>1. /\ rest \in Seq(Label) /\ Len(rest) = size - 1
        /\ \A n \in 1 .. size - 1 :
             rest[n] = IF n < s + 1 THEN Listed[n] ELSE Listed[n + 1]
    BY <1>2, <1>4, Removed
  <2> HIDE DEF rest
  <2>2. Listed' = rest
    BY <1>2, <1>6, <2>1, ListedIs
  <2>3. QED
    BY <2>2 DEF rest
<1>8. QED
  BY <1>2, <1>4, <1>7 DEF Atomic!Erase

\* The steps that no list shows.
LEMMA NameTakenUnseen ==
  ASSUME TypeOK, HeapOK, TypeOK', HeapOK', NEW name \in Name, AddDevice(name)
  PROVE  UNCHANGED Listed
<1>1. /\ api.op = "none" /\ api'.op = "push" /\ size \in Nat
      /\ FreeCell \in Cell /\ heap[FreeCell] = "free"
      /\ heap' = [heap EXCEPT ![FreeCell] = name]
      /\ slots' = slots /\ size' = size
  BY OpKnown DEF AddDevice, FreeCell, FreeCells, Strdup, NoApi
<1>2. Count' = Count /\ \A n \in 1 .. Count : Slot(n)' = Slot(n)
  BY <1>1 DEF Count, Slot
<1>3. ASSUME NEW n \in 1 .. Count PROVE NameAt(Slot(n))' = NameAt(Slot(n))
  <2>1. Slot(n) \in Live
    BY ListedEntries
  <2>2. heap[slots[Slot(n)].name] # "free" /\ slots[Slot(n)].name \in Cell
    BY <1>1, <2>1, LiveDevices DEF HeapOK, Device
  <2>3. heap'[slots[Slot(n)].name] = heap[slots[Slot(n)].name]
    BY <1>1, <2>2 DEF TypeOK, VectorTypeOK
  <2>4. QED
    BY <1>1, <1>2, <2>3 DEF NameAt
<1>4. QED
  BY <1>1, <1>2, <1>3, ListedStays

LEMMA NameGivenUnseen ==
  ASSUME TypeOK, HeapOK, TypeOK', HeapOK', GiveName
  PROVE  UNCHANGED Listed
<1>1. api.op = "name" /\ FreeCells # {} /\ api'.op = "none" /\ size' = size
      /\ size \in Nat /\ api.at \in 0 .. size - 1
  BY OpKnown DEF GiveName, NoApi
<1>2. /\ FreeCell \in Cell /\ heap[FreeCell] = "free"
      /\ heap' = [heap EXCEPT ![FreeCell] = api.new]
      /\ slots' = [slots EXCEPT ![api.at].name = FreeCell]
  BY <1>1 DEF GiveName, FreeCell, FreeCells, Strdup
<1>3. heap \in [Cell -> Name \cup {"free"}]
  BY DEF TypeOK, VectorTypeOK
<1>4. Count' = Count /\ \A n \in 1 .. Count : Slot(n) = n - 1 /\ Slot(n)' = n - 1
  BY <1>1 DEF Count, Slot
<1>5. ASSUME NEW n \in 1 .. Count
      PROVE  /\ slots'[Slot(n)'].key = slots[Slot(n)].key
             /\ NameAt(Slot(n))' = NameAt(Slot(n))
  <2>1. /\ Slot(n) \in Live /\ Slot(n)' = Slot(n)
        /\ Slot(n) \in DOMAIN slots /\ slots[Slot(n)] \in Device
    BY <1>4, ListedEntries, LiveDevices
  <2> DEFINE s == Slot(n)
  <2>2. slots'[s].key = slots[s].key
    BY <1>2, <2>1 DEF Device
  <2>3. CASE s = api.at
    <3>1. slots'[s].name = FreeCell
      BY <1>2, <2>1, <2>3 DEF Device
    <3>2. heap'[FreeCell] = api.new
      BY <1>2, <1>3
    <3>3. QED
      BY <1>1, <2>1, <2>2, <2>3, <3>1, <3>2 DEF NameAt
  <2>4. CASE s # api.at
    <3>1. heap[slots[s].name] # "free" /\ slots[s].name \in Cell
      BY <2>1, <2>4 DEF HeapOK, Device
    <3>2. slots'[s] = slots[s]
      BY <1>2, <2>1, <2>4
    <3>3. heap'[slots[s].name] = heap[slots[s].name]
      BY <1>2, <1>3, <3>1
    <3>4. QED
      BY <1>1, <2>1, <2>2, <2>4, <3>2, <3>3 DEF NameAt
  <2>5. QED
    BY <2>3, <2>4
<1>6. QED
  BY <1>4, <1>5, ListedStays

LEMMA MovesUnseen ==
  ASSUME TypeOK, HeapOK, TypeOK', HeapOK', Erase \/ Shrink \/ Grow
  PROVE  UNCHANGED Listed
<1>a. size \in Nat /\ \A s \in 0 .. size - 1 : s \in DOMAIN slots
  BY OpKnown, LiveDevices
<1>1. CASE Erase
  <2>1. /\ api.op = "erase" /\ api'.op = "shrink" /\ heap' = heap /\ size' = size
        /\ api.at \in 0 .. size - 1
        /\ slots' = [s \in DOMAIN slots |->
                       IF s \in api.at .. size - 2 THEN slots[s + 1] ELSE slots[s]]
    BY <1>1, OpKnown DEF Erase
  <2>2. Count = size - 1 /\ Count' = size - 1
    BY <2>1 DEF Count
  <2>3. ASSUME NEW n \in 1 .. Count
        PROVE  /\ slots'[Slot(n)'].key = slots[Slot(n)].key
               /\ NameAt(Slot(n))' = NameAt(Slot(n))
    <3>1. Slot(n)' = n - 1 /\ Slot(n) = IF n > api.at THEN n ELSE n - 1
      BY <2>1 DEF Slot
    <3>2. slots'[n - 1] = slots[Slot(n)]
      <4>1. n - 1 \in DOMAIN slots
        BY <1>a, <2>2
      <4>2. CASE n > api.at
        BY <1>a, <2>1, <2>2, <3>1, <4>1, <4>2
      <4>3. CASE ~(n > api.at)
        BY <1>a, <2>1, <2>2, <3>1, <4>1, <4>3
      <4>4. QED
        BY <4>2, <4>3
    <3>3. QED
      BY <2>1, <3>1, <3>2 DEF NameAt
  <2>4. QED
    BY <2>2, <2>3, ListedStays
<1>2. CASE Shrink
  <2>1. /\ api.op = "shrink" /\ api'.op = "none" /\ size' = size - 1
        /\ heap' = heap /\ slots' = slots
    BY <1>2 DEF Shrink, NoApi
  <2>2. QED
    BY <2>1 DEF Listed, Count, Slot, NameAt
<1>3. CASE Grow
  <2>1. api.op = "push" /\ api'.op = "grown" /\ UNCHANGED vector
    BY <1>3 DEF Grow
  <2>2. QED
    BY <2>1 DEF Listed, Count, Slot, NameAt, vector
<1>4. QED
  BY <1>1, <1>2, <1>3

LEMMA StepAtomic ==
  ASSUME TypeOK, HeapOK, KeysOwn, TypeOK', HeapOK', [Next]_vars
  PROVE  [Atomic!Next]_Listed
<1>1. CASE UNCHANGED << vector, program >>
  BY <1>1 DEF Listed, Count, Slot, NameAt, vector, program
<1>2. CASE Handle \/ (\E n \in 0 .. IdMod - 1 : Begin(n)) \/ UNCHANGED vars
  BY <1>1, <1>2
     DEF Handle, Begin, Loop, Check, Load, Copy, Format, Send, vars
<1>3. ASSUME NEW name \in Name, AddDevice(name) PROVE UNCHANGED Listed
  BY <1>3, NameTakenUnseen
<1>4. CASE PushBack
  BY <1>4, AddsOne DEF Atomic!Next
<1>5. ASSUME NEW s \in 0 .. MaxDevices - 1, NEW new \in Name, RenameDevice(s, new)
      PROVE  Atomic!Next
  BY <1>5, RenamesOne DEF Atomic!Next
<1>6. ASSUME NEW s \in 0 .. MaxDevices - 1, RemoveDevice(s)
      PROVE  Atomic!Next
  BY <1>6, RemovesOne DEF Atomic!Next
<1>7. CASE GiveName
  BY <1>7, NameGivenUnseen
<1>8. CASE Erase \/ Shrink \/ Grow
  BY <1>8, MovesUnseen
<1>9. QED
  BY <1>2, <1>3, <1>4, <1>5, <1>6, <1>7, <1>8 DEF Next, Api

LEMMA InitAtomic == Init => Atomic!Init /\ KeysOwn
<1> SUFFICES ASSUME Init PROVE Atomic!Init /\ KeysOwn
  OBVIOUS
<1>1. Count = 0 /\ Live = {}
  BY DEF Init, Count, Live, NoApi
<1>2. Listed = << >>
  BY <1>1 DEF Listed
<1>3. KeysOwn
  BY <1>1 DEF Init, KeysOwn, NoApi
<1>4. QED
  BY <1>2, <1>3 DEF Atomic!Init

LEMMA KeysOwnStep == TypeOK /\ KeysOwn /\ [Next]_vars => KeysOwn'
<1> SUFFICES ASSUME TypeOK, KeysOwn, [Next]_vars PROVE KeysOwn'
  OBVIOUS
<1>1. CASE Api
  BY <1>1, KeysOwnApi
<1>2. CASE Handle \/ (\E n \in 0 .. IdMod - 1 : Begin(n)) \/ UNCHANGED vars
  BY <1>2, KeysOwnHandler
     DEF Handle, Begin, Loop, Check, Load, Copy, Format, Send, vars
<1>3. QED
  BY <1>1, <1>2 DEF Next

(***************************************************************************)
(* Adding, renaming and removing devices come to single steps on a list of *)
(* names: slots that move, a size that lags behind and places of the heap  *)
(* that are used again never give a device another's name or place         *)
(* (fauxmoLINUX.cpp:480-545).                                              *)
(***************************************************************************)
THEOREM ListIsAtomic == Spec => MainIsAtomic
<1>1. Init => TypeOK /\ HeapOK /\ KeysOwn /\ Atomic!Init
  BY InitIInv, InitAtomic DEF IInv
<1>2. IInv /\ KeysOwn /\ [Next]_vars => IInv' /\ KeysOwn'
  BY StepIInv, KeysOwnStep DEF IInv
<1>3. IInv /\ KeysOwn /\ IInv' /\ [Next]_vars => [Atomic!Next]_Listed
  BY StepAtomic DEF IInv
<1>4. QED
  BY <1>1, <1>2, <1>3, InitIInv, PTL DEF Spec, MainIsAtomic, Atomic!Spec
=============================================================================
