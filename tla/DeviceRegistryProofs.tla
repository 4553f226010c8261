------------------------ MODULE DeviceRegistryProofs ------------------------
(***************************************************************************)
(* Proofs about DeviceRegistry: every call keeps the vector a sequence of  *)
(* devices, a unique id the program made repeats only after a removal, and *)
(* the API implements NamedDevices up to 255 devices.                      *)
(***************************************************************************)
EXTENDS DeviceRegistry, FiniteSetTheorems, SequenceTheorems, TLAPS

-----------------------------------------------------------------------------
(***************************************************************************)
(* What the calls are made of.                                             *)
(***************************************************************************)
\* There is a place where getDeviceId's loop stops.
LEMMA LeastOfIds ==
  ASSUME NEW S \in SUBSET Nat, S # {}
  PROVE  \E id \in S : \A other \in S : id <= other
<1> DEFINE below == {0 .. n : n \in S}
           Less  == StrictSubsetOrdering(Nat)
<1>1. \A n \in S : IsFiniteSet(0 .. n)
  BY FS_Interval
<1>2. below \subseteq FiniteSubsetsOf(Nat) /\ below # {}
  <2>1. \A n \in S : 0 .. n \in FiniteSubsetsOf(Nat)
    <3>1. \A n \in S : 0 .. n \subseteq Nat
      OBVIOUS
    <3> QED BY <1>1, <3>1, Zenon DEF FiniteSubsetsOf
  <2> QED BY <2>1, Zenon
<1>3. PICK x \in below : \A y \in below : ~ (<< y, x >> \in Less)
  <2> HIDE DEF below, Less
  <2>1. IsWellFoundedOn(Less, FiniteSubsetsOf(Nat))
    BY FS_StrictSubsetOrderingWellFounded DEF Less
  <2> QED BY <1>2, <2>1, WFMin, Zenon
<1>4. PICK m \in S : x = 0 .. m
  OBVIOUS
<1>5. ASSUME NEW n \in S, n < m PROVE FALSE
  <2>1. 0 .. n \subseteq 0 .. m /\ 0 .. n # 0 .. m
    <3>1. m \in 0 .. m /\ m \notin 0 .. n
      BY <1>5
    <3> QED BY <3>1, <1>5
  <2>2. << 0 .. n, 0 .. m >> \in Less
    BY <2>1 DEF StrictSubsetOrdering
  <2> QED BY <1>3, <1>4, <2>2
<1>6. \A n \in S : m <= n
  BY <1>5
<1> QED BY <1>6

LEMMA IdIsInt ==
  ASSUME devices \in Seq(Device), NEW name
  PROVE  getDeviceId(name) \in -1 .. Len(devices) - 1
<1> DEFINE named == {id \in 0 .. Len(devices) - 1 : devices[id + 1].name = name}
<1>1. CASE named = {}
  BY <1>1, LenProperties DEF getDeviceId
<1>2. CASE named # {}
  <2>1. named \in SUBSET Nat /\ Len(devices) \in Nat
    BY LenProperties
  <2>2. (CHOOSE id \in named : \A other \in named : id <= other) \in named
    BY <1>2, <2>1, LeastOfIds, Zenon
  <2>3. getDeviceId(name) = CHOOSE id \in named : \A other \in named : id <= other
    BY <1>2, Zenon DEF getDeviceId
  <2>4. getDeviceId(name) \in named
    BY <2>2, <2>3, Zenon
  <2> QED BY <2>1, <2>4
<1> QED BY <1>1, <1>2

LEMMA BytesAreIds == \A n \in Int : Byte(n) \in Id
BY RegistryAssumption DEF Byte, Id

LEMMA SmallBytes == \A n \in Nat : n < IdMod => Byte(n) = n
BY RegistryAssumption DEF Byte

\* What erase leaves behind.
LEMMA Removing ==
  ASSUME NEW S, NEW s \in Seq(S), NEW k \in 1 .. Len(s)
  PROVE  /\ RemoveAt(s, k) \in Seq(S)
         /\ Len(RemoveAt(s, k)) = Len(s) - 1
         /\ \A i \in 1 .. Len(s) - 1 :
              RemoveAt(s, k)[i] = IF i < k THEN s[i] ELSE s[i + 1]
<1> DEFINE front == SubSeq(s, 1, k - 1)
           back  == SubSeq(s, k + 1, Len(s))
<1>1. Len(s) \in Nat /\ \A i \in 1 .. Len(s) : s[i] \in S
  BY LenProperties, ElementOfSeq
<1>2. /\ front \in Seq(S)
      /\ Len(front) = k - 1
      /\ \A i \in 1 .. k - 1 : front[i] = s[i]
  <2>1. \A i \in 1 .. k - 1 : s[i] \in S
    BY <1>1
  <2>2. /\ front \in Seq(S)
        /\ Len(front) = IF 1 <= k - 1 THEN k - 1 - 1 + 1 ELSE 0
        /\ \A i \in 1 .. k - 1 - 1 + 1 : front[i] = s[1 + i - 1]
    BY <2>1, <1>1, SubSeqProperties
  <2> QED BY <2>2, <1>1
<1>3. /\ back \in Seq(S)
      /\ Len(back) = Len(s) - k
      /\ \A i \in 1 .. Len(s) - k : back[i] = s[k + i]
  <2>1. \A i \in k + 1 .. Len(s) : s[i] \in S
    BY <1>1
  <2>2. /\ back \in Seq(S)
        /\ Len(back) = IF k + 1 <= Len(s) THEN Len(s) - (k + 1) + 1 ELSE 0
        /\ \A i \in 1 .. Len(s) - (k + 1) + 1 : back[i] = s[k + 1 + i - 1]
    BY <2>1, <1>1, SubSeqProperties
  <2> QED BY <2>2, <1>1
<1> HIDE DEF front, back
<1>4. RemoveAt(s, k) = front \o back
  BY DEF RemoveAt, front, back
<1>5. /\ front \o back \in Seq(S)
      /\ Len(front \o back) = Len(front) + Len(back)
      /\ \A i \in 1 .. Len(front) + Len(back) :
           (front \o back)[i] = IF i <= Len(front) THEN front[i]
                                ELSE back[i - Len(front)]
  BY <1>2, <1>3, ConcatProperties
<1>6. ASSUME NEW i \in 1 .. Len(s) - 1
      PROVE  RemoveAt(s, k)[i] = IF i < k THEN s[i] ELSE s[i + 1]
  <2>1. CASE i < k
    BY <2>1, <1>1, <1>2, <1>3, <1>4, <1>5
  <2>2. CASE ~ (i < k)
    <3>1. i - (k - 1) \in 1 .. Len(s) - k
      BY <2>2, <1>1
    <3>2. back[i - (k - 1)] = s[k + (i - (k - 1))]
      BY <3>1, <1>3
    <3>3. k + (i - (k - 1)) = i + 1
      BY <1>1
    <3> QED BY <2>2, <1>1, <1>2, <1>3, <1>4, <1>5, <3>2, <3>3
  <2> QED BY <2>1, <2>2
<1> QED BY <1>1, <1>2, <1>3, <1>4, <1>5, <1>6

-----------------------------------------------------------------------------
(***************************************************************************)
(* Every call that changes the vector does one of four things to it.       *)
(***************************************************************************)
Extended == \E name \in Name :
  /\ Len(devices) < MaxDevices
  /\ devices' = Append(devices, [name |-> name, state |-> FALSE, value |-> 0,
                                 uniqueid |-> Len(devices)])
  /\ UNCHANGED removals

Edited == \E k \in DOMAIN devices, new \in Device :
  /\ new.uniqueid = devices[k].uniqueid
  /\ devices' = [devices EXCEPT ![k] = new]
  /\ UNCHANGED removals

Relabelled == \E k \in DOMAIN devices, u \in OwnUniqueId :
  /\ devices' = [devices EXCEPT ![k].uniqueid = u]
  /\ UNCHANGED removals

Shortened == \E k \in DOMAIN devices :
  /\ removals < MaxRemovals
  /\ devices' = RemoveAt(devices, k)
  /\ removals' = removals + 1

LEMMA Calls ==
  ASSUME TypeOK, [Next]_vars
  PROVE  /\ result' \in Int
         /\ \/ Extended
            \/ Edited
            \/ Relabelled
            \/ Shortened
            \/ UNCHANGED << devices, removals >>
<1> DEFINE Goal == /\ result' \in Int
                   /\ \/ Extended
                      \/ Edited
                      \/ Relabelled
                      \/ Shortened
                      \/ UNCHANGED << devices, removals >>
<1> USE DEF TypeOK, Return
<1>1. /\ Len(devices) \in Nat
      /\ DOMAIN devices = 1 .. Len(devices)
      /\ \A k \in DOMAIN devices : devices[k] \in Device
  BY LenProperties, ElementOfSeq
<1>2. \A name : getDeviceId(name) \in Int
  BY IdIsInt
<1>3. Id \subseteq Nat
  BY RegistryAssumption DEF Id
<1>4. \A id \in Id : id < Len(devices) => id + 1 \in DOMAIN devices
  BY <1>1, <1>3
<1>5. \A target \in Target :
        /\ "id" \in DOMAIN target => target.id \in Id
        /\ Byte(getDeviceId(target.name)) \in Id
  BY <1>2, BytesAreIds DEF Target
<1>6. ASSUME NEW id \in Id, NEW new \in Name, renameById(id, new), UNCHANGED removals
      PROVE  Goal
  <2>1. CASE id < Len(devices)
    <3>1. id + 1 \in DOMAIN devices /\ devices[id + 1] \in Device
      BY <2>1, <1>1, <1>4
    <3> DEFINE d == [devices[id + 1] EXCEPT !.name = new]
    <3>2. d \in Device /\ d.uniqueid = devices[id + 1].uniqueid
      BY <3>1 DEF Device
    <3>3. devices' = [devices EXCEPT ![id + 1] = d] /\ result' = 1
      BY <1>6, <2>1 DEF renameById
    <3> HIDE DEF d
    <3>4. Edited
      BY <3>1, <3>2, <3>3, <1>6 DEF Edited
    <3> QED BY <3>3, <3>4
  <2>2. CASE ~ (id < Len(devices))
    BY <1>6, <2>2 DEF renameById
  <2> QED BY <2>1, <2>2
<1>7. ASSUME NEW id \in Id, removeById(id), removals < MaxRemovals
      PROVE  Goal
  BY <1>7, <1>4 DEF removeById, Shortened
<1>8. ASSUME NEW id \in Id, NEW state \in BOOLEAN, NEW value \in Level,
             setStateById(id, state, value), UNCHANGED removals
      PROVE  Goal
  <2>1. CASE id < Len(devices)
    <3>1. id + 1 \in DOMAIN devices /\ devices[id + 1] \in Device
      BY <2>1, <1>1, <1>4
    <3> DEFINE d == [devices[id + 1] EXCEPT !.state = state, !.value = value]
    <3>2. d \in Device /\ d.uniqueid = devices[id + 1].uniqueid
      BY <3>1 DEF Device
    <3>3. devices' = [devices EXCEPT ![id + 1] = d] /\ result' = 1
      BY <1>1, <3>1, <1>8, <2>1 DEF setStateById
    <3> HIDE DEF d
    <3>4. Edited
      BY <3>1, <3>2, <3>3, <1>8 DEF Edited
    <3> QED BY <3>3, <3>4
  <2>2. CASE ~ (id < Len(devices))
    BY <1>8, <2>2 DEF setStateById
  <2> QED BY <2>1, <2>2
<1>9. ASSUME NEW name \in Name, addDevice(name) PROVE Goal
  <2>1. result' \in Int
    <3>1. result' = Byte(Len(devices))
      BY <1>9, Zenon DEF addDevice
    <3>2. Len(devices) \in Int
      BY <1>1
    <3>3. Byte(Len(devices)) \in Id
      BY <3>2, BytesAreIds, Zenon
    <3>4. Id \subseteq Int
      BY <1>3
    <3> QED BY <3>1, <3>3, <3>4, Zenon
  <2>2. Extended
    BY <1>9, Zenon DEF addDevice, Extended
  <2> QED BY <2>1, <2>2
<1>10. ASSUME NEW name \in Name, findDevice(name) PROVE Goal
  BY <1>10, <1>2 DEF findDevice
<1>11. ASSUME NEW target \in Target, NEW new \in Name, renameDevice(target, new)
       PROVE  Goal
  BY <1>11, <1>5, <1>6 DEF renameDevice
<1>12. ASSUME NEW target \in Target, removeDevice(target) PROVE Goal
  BY <1>12, <1>5, <1>7 DEF removeDevice
<1>13. ASSUME NEW target \in Target, NEW state \in BOOLEAN, NEW value \in Level,
              setState(target, state, value)
       PROVE  Goal
  BY <1>13, <1>5, <1>8 DEF setState
<1>14. ASSUME NEW id \in Id, NEW u \in OwnUniqueId, setDeviceUniqueId(id, u)
       PROVE  Goal
  BY <1>14, <1>4 DEF setDeviceUniqueId, Relabelled
<1>15. ASSUME UNCHANGED vars PROVE Goal
  BY <1>15 DEF vars
<1> QED BY <1>9, <1>10, <1>11, <1>12, <1>13, <1>14, <1>15 DEF Next

-----------------------------------------------------------------------------
(***************************************************************************)
(* The vector is one of devices, result an int, and the bounds hold.       *)
(***************************************************************************)
LEMMA TypeInit == Init => TypeOK
BY RegistryAssumption, EmptySeq DEF Init, TypeOK

LEMMA TypeStep == TypeOK /\ [Next]_vars => TypeOK'
<1> SUFFICES ASSUME TypeOK, [Next]_vars PROVE TypeOK'
  OBVIOUS
<1> USE DEF TypeOK
<1>1. /\ Len(devices) \in Nat
      /\ DOMAIN devices = 1 .. Len(devices)
      /\ \A k \in DOMAIN devices : devices[k] \in Device
  BY LenProperties, ElementOfSeq
<1>2. result' \in Int
  BY Calls
<1>3. CASE Extended
  <2> PICK name \in Name :
        devices' = Append(devices, [name |-> name, state |-> FALSE, value |-> 0,
                                    uniqueid |-> Len(devices)])
    BY <1>3 DEF Extended
  <2> DEFINE d == [name |-> name, state |-> FALSE, value |-> 0,
                   uniqueid |-> Len(devices)]
  <2>1. d \in Device
    BY <1>1 DEF Device
  <2>2. devices' \in Seq(Device) /\ Len(devices') = Len(devices) + 1
    BY <2>1, AppendProperties
  <2> QED BY <1>1, <1>2, <1>3, <2>2, RegistryAssumption DEF Extended
<1>4. CASE Edited
  <2> PICK k \in DOMAIN devices, new \in Device :
        devices' = [devices EXCEPT ![k] = new]
    BY <1>4 DEF Edited
  <2>1. devices' \in Seq(Device) /\ Len(devices') = Len(devices)
    BY <1>1, ExceptSeq
  <2> QED BY <1>2, <1>4, <2>1 DEF Edited
<1>5. CASE Relabelled
  <2> PICK k \in DOMAIN devices, u \in OwnUniqueId :
        devices' = [devices EXCEPT ![k].uniqueid = u]
    BY <1>5 DEF Relabelled
  <2> DEFINE d == [devices[k] EXCEPT !.uniqueid = u]
  <2>1. d \in Device
    BY <1>1 DEF Device
  <2>2. devices' = [devices EXCEPT ![k] = d]
    OBVIOUS
  <2>3. devices' \in Seq(Device) /\ Len(devices') = Len(devices)
    BY <1>1, <2>1, <2>2, ExceptSeq
  <2> QED BY <1>2, <1>5, <2>3 DEF Relabelled
<1>6. CASE Shortened
  <2> PICK k \in DOMAIN devices : devices' = RemoveAt(devices, k)
    BY <1>6 DEF Shortened
  <2>1. devices' \in Seq(Device) /\ Len(devices') = Len(devices) - 1
    BY <1>1, Removing
  <2> QED BY <1>1, <1>2, <1>6, <2>1, RegistryAssumption DEF Shortened
<1>7. CASE UNCHANGED << devices, removals >>
  BY <1>2, <1>7
<1> QED BY <1>3, <1>4, <1>5, <1>6, <1>7, Calls

THEOREM TypeCorrect == Spec => []TypeOK
BY TypeInit, TypeStep, PTL DEF Spec
-----------------------------------------------------------------------------
(***************************************************************************)
(* Ids that repeat.  A new id is the length of the vector: it repeats one  *)
(* that is there only if that one is not below the length, and every such  *)
(* id has been left ahead of the length by a removal.                      *)
(***************************************************************************)
Uids == {devices[i].uniqueid : i \in Made}

Ahead == {u \in Uids : u >= Len(devices)}

Balance == Cardinality(Made) + Cardinality(Ahead) <= Cardinality(Uids) + removals

LEMMA Counted ==
  ASSUME TypeOK
  PROVE  /\ Len(devices) \in Nat
         /\ DOMAIN devices = 1 .. Len(devices)
         /\ \A i \in DOMAIN devices : devices[i] \in Device
         /\ removals \in Nat
         /\ Uids \subseteq Nat
         /\ IsFiniteSet(Made) /\ IsFiniteSet(Uids) /\ IsFiniteSet(Ahead)
         /\ Cardinality(Made) \in Nat
         /\ Cardinality(Uids) \in Nat
         /\ Cardinality(Ahead) \in Nat
<1>1. /\ Len(devices) \in Nat
      /\ DOMAIN devices = 1 .. Len(devices)
      /\ \A i \in DOMAIN devices : devices[i] \in Device
  BY LenProperties, ElementOfSeq DEF TypeOK
<1>2. removals \in Nat
  BY DEF TypeOK
<1>3. Uids \subseteq Nat
  BY <1>1 DEF Uids, Made, Device
<1>4. IsFiniteSet(Made)
  <2>1. Made \subseteq 1 .. Len(devices)
    BY <1>1 DEF Made
  <2>2. IsFiniteSet(1 .. Len(devices))
    BY <1>1, FS_Interval
  <2> QED BY <2>1, <2>2, FS_Subset
<1>5. IsFiniteSet(Uids)
  <2> DEFINE uid == [i \in Made |-> devices[i].uniqueid]
  <2>1. uid \in Surjection(Made, Uids)
    BY DEF Surjection, Uids
  <2> QED BY <2>1, <1>4, FS_Surjection
<1>6. IsFiniteSet(Ahead)
  <2>1. Ahead \subseteq Uids
    BY DEF Ahead
  <2> QED BY <2>1, <1>5, FS_Subset
<1> QED BY <1>1, <1>2, <1>3, <1>4, <1>5, <1>6, FS_CardinalityType

\* What is counted stays so if the ids that are made stay where they are.
LEMMA SameCount ==
  ASSUME DOMAIN devices' = DOMAIN devices, Len(devices') = Len(devices),
         \A i \in DOMAIN devices : devices'[i].uniqueid = devices[i].uniqueid
  PROVE  Made' = Made /\ Uids' = Uids /\ Ahead' = Ahead
<1>1. Made' = Made
  BY DEF Made
<1>2. Uids' = Uids
  BY <1>1 DEF Uids, Made
<1> QED BY <1>1, <1>2 DEF Ahead

LEMMA BalanceExtended ==
  ASSUME TypeOK, Balance, Extended
  PROVE  Balance'
<1> PICK name \in Name :
      /\ devices' = Append(devices, [name |-> name, state |-> FALSE, value |-> 0,
                                     uniqueid |-> Len(devices)])
      /\ UNCHANGED removals
  BY DEF Extended
<1> DEFINE L == Len(devices)
           d == [name |-> name, state |-> FALSE, value |-> 0, uniqueid |-> L]
<1>1. /\ L \in Nat
      /\ DOMAIN devices = 1 .. L
      /\ Uids \subseteq Nat
      /\ removals \in Nat
  BY Counted
<1>2. d \in Device /\ d.uniqueid = L /\ d.uniqueid \notin OwnUniqueId
  BY <1>1, RegistryAssumption DEF Device
<1>3. /\ Len(devices') = L + 1
      /\ DOMAIN devices' = 1 .. L + 1
      /\ \A i \in 1 .. L : devices'[i] = devices[i]
      /\ devices'[L + 1] = d
  <2>1. /\ devices' \in Seq(Device)
        /\ Len(devices') = L + 1
        /\ \A i \in 1 .. L : devices'[i] = devices[i]
        /\ devices'[L + 1] = d
    BY <1>2, AppendProperties DEF TypeOK
  <2> QED BY <2>1, LenProperties
<1>0. L = Len(devices)
  OBVIOUS
<1> HIDE DEF L, d
<1>4. Made' = Made \cup {L + 1}
  <2>1. \A i \in 1 .. L + 1 : i \in Made' <=> i \in Made \cup {L + 1}
    BY <1>1, <1>2, <1>3 DEF Made
  <2>2. Made' \subseteq 1 .. L + 1 /\ Made \subseteq 1 .. L + 1
    BY <1>1, <1>3 DEF Made
  <2>3. Made \cup {L + 1} \subseteq 1 .. L + 1
    BY <2>2, <1>1
  <2> QED BY <2>1, <2>2, <2>3, Zenon
<1>5. L + 1 \notin Made
  BY <1>1 DEF Made
<1>6. Uids' = Uids \cup {L}
  <2>1. \A i \in Made : devices'[i].uniqueid = devices[i].uniqueid
    BY <1>1, <1>3 DEF Made
  <2>2. devices'[L + 1].uniqueid = L
    BY <1>2, <1>3
  <2> QED BY <1>4, <2>1, <2>2 DEF Uids
<1>7. Ahead' = Ahead \ {L}
  <2>1. Ahead = {u \in Uids : u >= L} /\ Ahead' = {u \in Uids' : u >= L + 1}
    BY <1>0, <1>3 DEF Ahead
  <2>2. \A u \in Uids : u >= L + 1 <=> u >= L /\ u # L
    BY <1>1
  <2>3. ~ (L >= L + 1)
    BY <1>1
  <2> QED BY <1>6, <2>1, <2>2, <2>3
<1>8. Cardinality(Made') = Cardinality(Made) + 1
  BY <1>4, <1>5, Counted, FS_AddElement
<1>9. Cardinality(Uids') =
        IF L \in Uids THEN Cardinality(Uids) ELSE Cardinality(Uids) + 1
  BY <1>6, Counted, FS_AddElement
<1>10. Cardinality(Ahead') =
         IF L \in Ahead THEN Cardinality(Ahead) - 1 ELSE Cardinality(Ahead)
  BY <1>7, Counted, FS_RemoveElement
<1>11. L \in Uids <=> L \in Ahead
  BY <1>0, <1>1 DEF Ahead
<1> QED BY <1>8, <1>9, <1>10, <1>11, Counted DEF Balance

LEMMA BalanceEdited ==
  ASSUME TypeOK, Balance, Edited
  PROVE  Balance'
<1> PICK k \in DOMAIN devices, new \in Device :
      /\ new.uniqueid = devices[k].uniqueid
      /\ devices' = [devices EXCEPT ![k] = new]
      /\ UNCHANGED removals
  BY DEF Edited
<1>1. /\ Len(devices') = Len(devices)
      /\ DOMAIN devices' = DOMAIN devices
      /\ \A i \in DOMAIN devices : devices'[i].uniqueid = devices[i].uniqueid
  <2>1. /\ devices' \in Seq(Device)
        /\ Len(devices') = Len(devices)
        /\ \A i \in 1 .. Len(devices) :
             devices'[i] = IF i = k THEN new ELSE devices[i]
    BY Counted, ExceptSeq DEF TypeOK
  <2> QED BY <2>1, Counted
<1> QED BY <1>1, SameCount DEF Balance

\* Two vectors of which the second lost at most one of the ids that are made.
LEMMA BalanceFewer ==
  ASSUME TypeOK, Balance,
         NEW u, NEW lost \in {0, 1},
         Cardinality(Made') = Cardinality(Made) - lost,
         IF lost = 1 THEN Uids \ {u} \subseteq Uids' ELSE Uids \subseteq Uids',
         IsFiniteSet(Uids'), IsFiniteSet(Ahead'),
         NEW more \in {0, 1},
         Cardinality(Ahead') <= Cardinality(Ahead) + more,
         removals' = removals + more
  PROVE  Balance'
<1>1. /\ Cardinality(Uids') \in Nat
      /\ Cardinality(Ahead') \in Nat
  BY FS_CardinalityType
<1>2. Cardinality(Uids) - lost <= Cardinality(Uids')
  <2>1. CASE lost = 1
    <3>1. /\ IsFiniteSet(Uids \ {u})
          /\ Cardinality(Uids \ {u}) =
               IF u \in Uids THEN Cardinality(Uids) - 1 ELSE Cardinality(Uids)
      BY Counted, FS_RemoveElement
    <3>2. Cardinality(Uids \ {u}) <= Cardinality(Uids')
      BY <2>1, FS_Subset
    <3> QED BY <2>1, <3>1, <3>2, <1>1, Counted
  <2>2. CASE lost = 0
    <3>1. Cardinality(Uids) <= Cardinality(Uids')
      BY <2>2, FS_Subset
    <3> QED BY <2>2, <3>1, <1>1, Counted
  <2> QED BY <2>1, <2>2
<1> QED BY <1>1, <1>2, Counted DEF Balance

\* Setting a unique id takes one of those that are made away.
LEMMA BalanceRelabelled ==
  ASSUME TypeOK, Balance, Relabelled
  PROVE  Balance'
<1> PICK k \in DOMAIN devices, u \in OwnUniqueId :
      /\ devices' = [devices EXCEPT ![k].uniqueid = u]
      /\ UNCHANGED removals
  BY DEF Relabelled
<1>1. /\ Len(devices') = Len(devices)
      /\ DOMAIN devices' = DOMAIN devices
      /\ devices'[k].uniqueid \in OwnUniqueId
      /\ \A i \in DOMAIN devices \ {k} : devices'[i] = devices[i]
  <2> DEFINE d == [devices[k] EXCEPT !.uniqueid = u]
  <2>1. d \in Device /\ d.uniqueid = u
    BY Counted DEF Device
  <2>2. devices' = [devices EXCEPT ![k] = d]
    OBVIOUS
  <2> HIDE DEF d
  <2>3. /\ devices' \in Seq(Device)
        /\ Len(devices') = Len(devices)
        /\ \A i \in 1 .. Len(devices) :
             devices'[i] = IF i = k THEN d ELSE devices[i]
    BY <2>1, <2>2, Counted, ExceptSeq DEF TypeOK
  <2> QED BY <2>1, <2>3, Counted, LenProperties
<1>2. Made' = Made \ {k}
  BY <1>1 DEF Made
<1>3. Uids' = {devices[i].uniqueid : i \in Made \ {k}}
  <2>1. \A i \in Made \ {k} : devices'[i].uniqueid = devices[i].uniqueid
    BY <1>1 DEF Made
  <2> QED BY <1>2, <2>1 DEF Uids
<1>4. Uids' \subseteq Uids /\ Uids \ {devices[k].uniqueid} \subseteq Uids'
  BY <1>3 DEF Uids
<1>5. Ahead' \subseteq Ahead
  BY <1>1, <1>4 DEF Ahead
<1>6. /\ IsFiniteSet(Uids') /\ IsFiniteSet(Ahead')
      /\ Cardinality(Ahead') \in Nat
      /\ Cardinality(Ahead') <= Cardinality(Ahead) + 0
  BY <1>4, <1>5, Counted, FS_Subset, FS_CardinalityType
<1>7. CASE k \in Made
  <2>1. Cardinality(Made') = Cardinality(Made) - 1
    BY <1>2, <1>7, Counted, FS_RemoveElement
  <2>2. removals' = removals + 0
    BY Counted
  <2> QED BY <2>1, <2>2, <1>4, <1>6, BalanceFewer
<1>8. CASE k \notin Made
  <2>1. Made \ {k} = Made
    BY <1>8
  <2>2. Made' = Made
    BY <1>2, <2>1
  <2>3. Cardinality(Made') = Cardinality(Made) - 0 /\ removals' = removals + 0
    BY <2>2, Counted
  <2>4. Uids \subseteq Uids'
    BY <1>3, <2>1 DEF Uids
  <2> QED BY <2>3, <2>4, <1>6, BalanceFewer
<1> QED BY <1>7, <1>8

\* A removal shortens the vector, which may leave one more id ahead.
LEMMA BalanceShortened ==
  ASSUME TypeOK, Balance, Shortened
  PROVE  Balance'
<1> PICK k \in DOMAIN devices :
      /\ devices' = RemoveAt(devices, k)
      /\ removals' = removals + 1
  BY DEF Shortened
<1> DEFINE L == Len(devices)
           move == [i \in Made \ {k} |-> IF i < k THEN i ELSE i - 1]
<1>1. L \in Nat /\ DOMAIN devices = 1 .. L /\ k \in 1 .. L /\ Uids \subseteq Nat
  BY Counted
<1>2. /\ Len(devices') = L - 1
      /\ DOMAIN devices' = 1 .. L - 1
      /\ \A i \in 1 .. L - 1 : devices'[i] = IF i < k THEN devices[i] ELSE devices[i + 1]
  <2>1. /\ devices' \in Seq(Device)
        /\ Len(devices') = L - 1
        /\ \A i \in 1 .. L - 1 :
             devices'[i] = IF i < k THEN devices[i] ELSE devices[i + 1]
    BY <1>1, Removing DEF TypeOK
  <2> QED BY <2>1, LenProperties
<1>0. L = Len(devices)
  OBVIOUS
<1> HIDE DEF L
<1>3. ASSUME NEW i \in Made \ {k}
      PROVE  /\ i \in 1 .. L
             /\ move[i] \in Made'
             /\ devices'[move[i]] = devices[i]
  <2>1. i \in 1 .. L /\ devices[i].uniqueid \notin OwnUniqueId
    BY <1>1 DEF Made
  <2>2. CASE i < k
    <3>1. move[i] = i /\ i \in 1 .. L - 1
      BY <2>1, <2>2, <1>1
    <3>2. devices'[move[i]] = devices[i]
      BY <3>1, <2>2, <1>2
    <3> QED BY <2>1, <3>1, <3>2, <1>2 DEF Made
  <2>3. CASE ~ (i < k)
    <3>1. move[i] = i - 1 /\ i - 1 \in 1 .. L - 1 /\ ~ (i - 1 < k) /\ (i - 1) + 1 = i
      BY <2>1, <2>3, <1>1
    <3>2. devices'[move[i]] = devices[i]
      BY <3>1, <1>2
    <3> QED BY <2>1, <3>1, <3>2, <1>2 DEF Made
  <2> QED BY <2>1, <2>2, <2>3
<1>4. ASSUME NEW j \in Made'
      PROVE  \E i \in Made \ {k} : move[i] = j
  <2>1. j \in 1 .. L - 1 /\ devices'[j].uniqueid \notin OwnUniqueId
    BY <1>2 DEF Made
  <2>2. CASE j < k
    <3>1. j \in Made \ {k}
      BY <2>1, <2>2, <1>1, <1>2 DEF Made
    <3> QED BY <3>1, <2>2
  <2>3. CASE ~ (j < k)
    <3>1. j + 1 \in Made \ {k}
      BY <2>1, <2>3, <1>1, <1>2 DEF Made
    <3>2. ~ (j + 1 < k) /\ (j + 1) - 1 = j
      BY <2>1, <2>3, <1>1
    <3> QED BY <3>1, <3>2
  <2> QED BY <2>2, <2>3
<1>5. Cardinality(Made') = Cardinality(Made \ {k})
  <2>1. \A i, j \in Made \ {k} : move[i] = move[j] => i = j
    <3> SUFFICES ASSUME NEW i \in Made \ {k}, NEW j \in Made \ {k}, move[i] = move[j]
                 PROVE  i = j
      OBVIOUS
    <3>1. i \in Int /\ j \in Int /\ k \in Int /\ i # k /\ j # k
      BY <1>3, <1>1
    <3> QED BY <3>1
  <2> HIDE DEF move
  <2>2. move \in [Made \ {k} -> Made']
    <3>1. move = [i \in Made \ {k} |-> move[i]]
      BY DEF move
    <3> QED BY <3>1, <1>3
  <2>3. move \in Bijection(Made \ {k}, Made')
    BY <2>1, <2>2, <1>4 DEF Bijection, Injection, Surjection, IsInjective
  <2>4. ExistsBijection(Made \ {k}, Made')
    BY <2>3 DEF ExistsBijection
  <2>5. IsFiniteSet(Made \ {k})
    BY Counted, FS_RemoveElement
  <2> QED BY <2>4, <2>5, FS_Bijection
<1>6. Uids' = {devices[i].uniqueid : i \in Made \ {k}}
  <2> HIDE DEF move
  <2>1. \A u : u \in Uids' <=> \E j \in Made' : u = devices'[j].uniqueid
    BY DEF Uids
  <2>2. \A u : u \in Uids' => \E i \in Made \ {k} : u = devices[i].uniqueid
    BY <2>1, <1>3, <1>4
  <2>3. \A i \in Made \ {k} : devices[i].uniqueid \in Uids'
    BY <2>1, <1>3
  <2> QED BY <2>2, <2>3
<1>7. Uids' \subseteq Uids /\ Uids \ {devices[k].uniqueid} \subseteq Uids'
  BY <1>6 DEF Uids
<1>8. Ahead' \subseteq Ahead \cup {L - 1}
  <2>1. Ahead = {u \in Uids : u >= L} /\ Ahead' = {u \in Uids' : u >= L - 1}
    BY <1>0, <1>2 DEF Ahead
  <2>2. \A u \in Uids : u >= L - 1 => u >= L \/ u = L - 1
    BY <1>1
  <2> QED BY <1>7, <2>1, <2>2
<1>9. /\ IsFiniteSet(Uids') /\ IsFiniteSet(Ahead')
      /\ Cardinality(Ahead') <= Cardinality(Ahead) + 1
  <2>1. /\ IsFiniteSet(Ahead \cup {L - 1})
        /\ Cardinality(Ahead \cup {L - 1}) =
             IF L - 1 \in Ahead THEN Cardinality(Ahead) ELSE Cardinality(Ahead) + 1
    BY Counted, FS_AddElement
  <2>2. /\ IsFiniteSet(Ahead')
        /\ Cardinality(Ahead') <= Cardinality(Ahead \cup {L - 1})
    BY <2>1, <1>8, FS_Subset
  <2>3. Cardinality(Ahead') \in Nat
    BY <2>2, FS_CardinalityType
  <2> QED BY <2>1, <2>2, <2>3, <1>7, Counted, FS_Subset
<1>10. CASE k \in Made
  <2>1. Cardinality(Made') = Cardinality(Made) - 1
    BY <1>5, <1>10, Counted, FS_RemoveElement
  <2> QED BY <2>1, <1>7, <1>9, BalanceFewer
<1>11. CASE k \notin Made
  <2>1. Made \ {k} = Made
    BY <1>11
  <2>2. Cardinality(Made') = Cardinality(Made) - 0
    <3>1. Cardinality(Made') = Cardinality(Made)
      BY <1>5, <2>1, Zenon
    <3> QED BY <3>1, Counted
  <2>3. Uids \subseteq Uids'
    BY <1>6, <2>1 DEF Uids
  <2> QED BY <2>2, <2>3, <1>9, BalanceFewer
<1> QED BY <1>10, <1>11

-----------------------------------------------------------------------------
LEMMA BalanceInit == Init => Balance
<1> SUFFICES ASSUME Init PROVE Balance
  OBVIOUS
<1>1. Made = {}
  BY DEF Init, Made
<1>2. Uids = {} /\ Ahead = {}
  BY <1>1 DEF Uids, Ahead
<1> QED BY <1>1, <1>2, FS_EmptySet DEF Balance, Init

LEMMA BalanceStep == TypeOK /\ Balance /\ [Next]_vars => Balance'
<1> SUFFICES ASSUME TypeOK, Balance, [Next]_vars PROVE Balance'
  OBVIOUS
<1>1. CASE UNCHANGED << devices, removals >>
  <2>1. Made' = Made /\ Uids' = Uids /\ Ahead' = Ahead
    BY <1>1, SameCount
  <2> QED BY <1>1, <2>1 DEF Balance
<1> QED BY <1>1, Calls, BalanceExtended, BalanceEdited, BalanceRelabelled,
           BalanceShortened

(***************************************************************************)
(* The unique ids addDevice makes of the size of the vector repeat no more *)
(* often than devices have been removed, for however many devices, names   *)
(* and removals; in particular they are unique as long as none has been.   *)
(***************************************************************************)
THEOREM RepeatsRare == Spec => []RepeatsNeedRemovals
<1>1. TypeOK /\ Balance => RepeatsNeedRemovals
  BY Counted DEF Balance, RepeatsNeedRemovals, Uids
<1> QED BY <1>1, TypeInit, TypeStep, BalanceInit, BalanceStep, PTL DEF Spec

-----------------------------------------------------------------------------
(***************************************************************************)
(* The API keeps what NamedDevices promises as long as -1, converted to an *)
(* unsigned char, is no device.                                            *)
(***************************************************************************)
Entry == [name : Name, state : BOOLEAN, value : Level \cup {0}]

LEMMA ListedEntries ==
  ASSUME TypeOK
  PROVE  /\ Listed \in Seq(Entry)
         /\ DOMAIN Listed = DOMAIN devices
         /\ Len(Listed) = Len(devices)
         /\ \A i \in DOMAIN devices :
              Listed[i] = [name |-> devices[i].name, state |-> devices[i].state,
                           value |-> devices[i].value]
<1>1. \A i \in DOMAIN devices :
        Listed[i] = [name |-> devices[i].name, state |-> devices[i].state,
                     value |-> devices[i].value]
  BY DEF Listed
<1>2. DOMAIN Listed = 1 .. Len(devices)
  BY Counted DEF Listed
<1>3. \A i \in DOMAIN devices : Listed[i] \in Entry
  <2> SUFFICES ASSUME NEW i \in DOMAIN devices PROVE Listed[i] \in Entry
    OBVIOUS
  <2>1. devices[i] \in Device
    BY Counted
  <2>2. /\ devices[i].name \in Name
        /\ devices[i].state \in BOOLEAN
        /\ devices[i].value \in Level \cup {0}
    BY <2>1 DEF Device
  <2>3. Listed[i] = [name |-> devices[i].name, state |-> devices[i].state,
                     value |-> devices[i].value]
    BY <1>1, Zenon
  <2>4. [name |-> devices[i].name, state |-> devices[i].state,
         value |-> devices[i].value] \in Entry
    BY <2>2 DEF Entry
  <2> QED BY <2>3, <2>4, Zenon
<1>4. Listed \in [1 .. Len(devices) -> Entry]
  <2>1. Listed = [i \in DOMAIN devices |-> Listed[i]]
    BY DEF Listed
  <2> QED BY <2>1, <1>3, Counted
<1>5. Listed \in Seq(Entry)
  BY <1>4, Counted, SeqDef
<1>6. Len(Listed) = Len(devices)
  BY <1>2, <1>5, Counted, LenProperties
<1> QED BY <1>1, <1>2, <1>5, <1>6, Counted

\* getDeviceId counts from 0 what NamedDevices counts from 1.
LEMMA PlaceByName ==
  ASSUME TypeOK, NEW target, "name" \in DOMAIN target
  PROVE  Named!Place(target) = getDeviceId(target.name) + 1
<1> DEFINE L      == Len(devices)
           ids    == {id \in 0 .. L - 1 : devices[id + 1].name = target.name}
           places == {i \in 1 .. Len(Listed) : Listed[i].name = target.name}
           first  == CHOOSE i \in places : \A j \in places : i <= j
<1>1. Named!Place(target) = IF places # {} THEN first ELSE 0
  BY Zenon DEF Named!Place, Named!SelectInSeq, Named!Min
<1>2. L \in Nat /\ places = {i \in 1 .. L : devices[i].name = target.name}
  BY ListedEntries, Counted
<1>3. \A id \in ids : id + 1 \in places /\ id \in 0 .. L - 1
  BY <1>2
<1>4. \A i \in places : i - 1 \in ids /\ i \in 1 .. L
  <2> SUFFICES ASSUME NEW i \in places PROVE i - 1 \in ids /\ i \in 1 .. L
    OBVIOUS
  <2>1. i \in 1 .. L /\ devices[i].name = target.name
    BY <1>2
  <2>2. i - 1 \in 0 .. L - 1 /\ (i - 1) + 1 = i
    BY <2>1, <1>2
  <2> QED BY <2>1, <2>2
<1>5. CASE ids = {}
  <2>1. places = {}
    BY <1>4, <1>5
  <2>2. getDeviceId(target.name) = -1
    BY <1>5, Zenon DEF getDeviceId
  <2> HIDE DEF places
  <2> QED BY <2>1, <2>2, <1>1
<1>6. CASE ids # {}
  <2> DEFINE found == CHOOSE id \in ids : \A other \in ids : id <= other
  <2>1. getDeviceId(target.name) = found
    BY <1>6, Zenon DEF getDeviceId
  <2>2. ids \subseteq Nat
    BY <1>2
  <2>3. \E id \in ids : \A other \in ids : id <= other
    BY <2>2, <1>6, LeastOfIds, Zenon
  <2>4. found \in ids /\ \A other \in ids : found <= other
    BY <2>3, Zenon
  <2> HIDE DEF ids, found
  <2>5. found + 1 \in places /\ \A j \in places : found + 1 <= j
    <3>1. found + 1 \in places /\ found \in Int
      BY <1>3, <2>4
    <3>2. ASSUME NEW j \in places PROVE found + 1 <= j
      <4>1. j \in Int /\ found <= j - 1
        BY <1>4, <2>4
      <4> QED BY <4>1, <3>1
    <3> QED BY <3>1, <3>2
  <2> HIDE DEF places
  <2>6. first \in places /\ \A j \in places : first <= j
    BY <2>5, Zenon
  <2> HIDE DEF first
  <2>7. first = found + 1
    <3>1. first <= found + 1 /\ found + 1 <= first
      BY <2>5, <2>6
    <3>2. first \in Int /\ found \in Int
      BY <1>3, <1>4, <2>4, <2>6
    <3> QED BY <3>1, <3>2
  <2>8. places # {}
    BY <2>5
  <2> QED BY <2>1, <2>7, <2>8, <1>1
<1> QED BY <1>5, <1>6

\* The id a call goes on with names a device exactly if there is the one meant.
Effective(target) ==
  IF "id" \in DOMAIN target THEN target.id ELSE Byte(getDeviceId(target.name))

LEMMA EffectiveIds ==
  ASSUME TypeOK, MaxDevices < IdMod, NEW target \in Target
  PROVE  /\ Effective(target) \in Nat
         /\ Effective(target) < Len(devices)
              => /\ Named!Place(target) = Effective(target) + 1
                 /\ Named!Place(target) \in DOMAIN devices
         /\ ~ (Effective(target) < Len(devices))
              => Named!Place(target) \notin DOMAIN devices
         /\ "id" \notin DOMAIN target /\ getDeviceId(target.name) < 0
              => ~ (Effective(target) < Len(devices))
<1> DEFINE L == Len(devices)
           g == getDeviceId(target.name)
<1>1. /\ L \in Nat /\ L < IdMod /\ IdMod \in Nat
      /\ DOMAIN devices = 1 .. L
  BY Counted, RegistryAssumption DEF TypeOK
<1> HIDE DEF L
<1>2. CASE target \in [id : Id]
  <2>1. "id" \in DOMAIN target /\ "name" \notin DOMAIN target /\ target.id \in Nat
    BY <1>2, <1>1 DEF Id
  <2>2. Effective(target) = target.id /\ Named!Place(target) = target.id + 1
    BY <2>1 DEF Effective, Named!Place
  <2> QED BY <2>1, <2>2, <1>1 DEF L
<1>3. CASE target \in [name : Name]
  <2>1. "id" \notin DOMAIN target /\ "name" \in DOMAIN target
    BY <1>3
  <2>2. Effective(target) = Byte(g) /\ Named!Place(target) = g + 1
    BY <2>1, PlaceByName, Zenon DEF Effective
  <2>3. g \in -1 .. L - 1
    BY IdIsInt DEF TypeOK, L
  <2> HIDE DEF g
  <2>4. CASE g = -1
    <3>1. Byte(g) = IdMod - 1
      BY <2>4, <1>1 DEF Byte
    <3> QED BY <3>1, <2>1, <2>2, <2>4, <1>1 DEF L
  <2>5. CASE g \in 0 .. L - 1
    <3>1. Byte(g) = g
      BY <2>5, <1>1 DEF Byte
    <3> QED BY <3>1, <2>1, <2>2, <2>5, <1>1 DEF L, g
  <2> QED BY <2>3, <2>4, <2>5, <1>1
<1> QED BY <1>2, <1>3 DEF Target

\* NamedDevices sees a change of one device as one of its entry.
LEMMA ListedEdited ==
  ASSUME TypeOK, NEW k \in DOMAIN devices, NEW d, devices' = [devices EXCEPT ![k] = d]
  PROVE  Listed' = [Listed EXCEPT ![k] = [name |-> d.name, state |-> d.state,
                                          value |-> d.value]]
<1>1. DOMAIN devices' = DOMAIN devices
  OBVIOUS
<1>2. /\ devices'[k] = d
      /\ \A i \in DOMAIN devices \ {k} : devices'[i] = devices[i]
  OBVIOUS
<1> QED BY <1>1, <1>2 DEF Listed

LEMMA ListedUnchanged == UNCHANGED devices => UNCHANGED Listed
BY DEF Listed

LEMMA ListedExtended ==
  ASSUME TypeOK, NEW name \in Name,
         devices' = Append(devices, [name |-> name, state |-> FALSE, value |-> 0,
                                     uniqueid |-> Len(devices)])
  PROVE  Listed' = Append(Listed, [name |-> name, state |-> FALSE, value |-> 0])
<1> DEFINE L == Len(devices)
           d == [name |-> name, state |-> FALSE, value |-> 0, uniqueid |-> L]
           e == [name |-> name, state |-> FALSE, value |-> 0]
           longer == Append(Listed, e)
<1>1. d \in Device /\ e \in Entry /\ L \in Nat
  BY Counted DEF Device, Entry
<1>2. /\ devices' \in Seq(Device)
      /\ Len(devices') = L + 1
      /\ \A i \in 1 .. L : devices'[i] = devices[i]
      /\ devices'[L + 1] = d
      /\ DOMAIN devices' = 1 .. L + 1
  <2>1. devices' = Append(devices, d) /\ devices \in Seq(Device)
    BY DEF TypeOK
  <2> HIDE DEF d
  <2> QED BY <1>1, <2>1, AppendProperties, LenProperties
<1>3. /\ longer \in Seq(Entry)
      /\ Len(longer) = L + 1
      /\ \A i \in 1 .. L : longer[i] = Listed[i]
      /\ longer[L + 1] = e
      /\ DOMAIN longer = 1 .. L + 1
  <2> HIDE DEF e
  <2> QED BY <1>1, ListedEntries, AppendProperties, LenProperties
<1>4. /\ d.name = name /\ d.state = FALSE /\ d.value = 0
  OBVIOUS
<1>5. ASSUME NEW i \in 1 .. L + 1
      PROVE  [name |-> devices'[i].name, state |-> devices'[i].state,
              value |-> devices'[i].value] = longer[i]
  <2> HIDE DEF d, longer
  <2>1. CASE i = L + 1
    BY <2>1, <1>2, <1>3, <1>4
  <2>2. CASE i \in 1 .. L
    BY <2>2, <1>2, <1>3, ListedEntries, Counted
  <2>3. i = L + 1 \/ i \in 1 .. L
    BY <1>1
  <2> QED BY <2>1, <2>2, <2>3, Zenon
<1>6. Listed' = [i \in 1 .. L + 1 |-> longer[i]]
  <2> HIDE DEF longer
  <2> QED BY <1>2, <1>5 DEF Listed
<1>7. longer = [i \in 1 .. L + 1 |-> longer[i]]
  <2> HIDE DEF longer
  <2> QED BY <1>3, LenProperties
<1> QED BY <1>6, <1>7, Zenon

LEMMA ListedShortened ==
  ASSUME TypeOK, NEW k \in DOMAIN devices, devices' = RemoveAt(devices, k)
  PROVE  Listed' = RemoveAt(Listed, k)
<1> DEFINE L == Len(devices)
           shorter == RemoveAt(Listed, k)
<1>1. L \in Nat /\ DOMAIN devices = 1 .. L /\ k \in 1 .. L
  BY Counted
<1>2. /\ Len(devices') = L - 1
      /\ DOMAIN devices' = 1 .. L - 1
      /\ \A i \in 1 .. L - 1 : devices'[i] = IF i < k THEN devices[i] ELSE devices[i + 1]
  <2>1. /\ devices' \in Seq(Device)
        /\ Len(devices') = L - 1
        /\ \A i \in 1 .. L - 1 :
             devices'[i] = IF i < k THEN devices[i] ELSE devices[i + 1]
    BY <1>1, Removing DEF TypeOK
  <2> QED BY <2>1, LenProperties
<1>3. /\ shorter \in Seq(Entry)
      /\ Len(shorter) = L - 1
      /\ DOMAIN shorter = 1 .. L - 1
      /\ \A i \in 1 .. L - 1 : shorter[i] = IF i < k THEN Listed[i] ELSE Listed[i + 1]
  <2>1. Listed \in Seq(Entry) /\ Len(Listed) = L
    BY ListedEntries
  <2>2. /\ shorter \in Seq(Entry)
        /\ Len(shorter) = L - 1
        /\ \A i \in 1 .. L - 1 : shorter[i] = IF i < k THEN Listed[i] ELSE Listed[i + 1]
    BY <2>1, <1>1, Removing
  <2> HIDE DEF shorter
  <2> QED BY <2>2, LenProperties
<1> HIDE DEF shorter
<1>4. ASSUME NEW i \in 1 .. L - 1
      PROVE  [name |-> devices'[i].name, state |-> devices'[i].state,
              value |-> devices'[i].value] = shorter[i]
  <2>1. i \in DOMAIN devices /\ i + 1 \in DOMAIN devices
    BY <1>1
  <2>2. CASE i < k
    BY <2>1, <2>2, <1>2, <1>3, ListedEntries
  <2>3. CASE ~ (i < k)
    BY <2>1, <2>3, <1>2, <1>3, ListedEntries
  <2> QED BY <2>2, <2>3
<1>5. Listed' = [i \in 1 .. L - 1 |-> shorter[i]]
  BY <1>2, <1>4 DEF Listed
<1>6. shorter = [i \in 1 .. L - 1 |-> shorter[i]]
  BY <1>3, LenProperties
<1> QED BY <1>5, <1>6, Zenon DEF shorter

\* setState writes two fields of an entry.
LEMMA TwoFields ==
  ASSUME NEW entry \in Entry, NEW state, NEW value
  PROVE  [entry EXCEPT !.state = state, !.value = value]
           = [name |-> entry.name, state |-> state, value |-> value]
<1>1. [entry EXCEPT !.state = state]
        = [name |-> entry.name, state |-> state, value |-> entry.value]
  BY DEF Entry
<1>2. [[name |-> entry.name, state |-> state, value |-> entry.value] EXCEPT !.value = value]
        = [name |-> entry.name, state |-> state, value |-> value]
  OBVIOUS
<1>3. [[entry EXCEPT !.state = state] EXCEPT !.value = value]
        = [entry EXCEPT !.state = state, !.value = value]
  OBVIOUS
<1>4. [[entry EXCEPT !.state = state] EXCEPT !.value = value]
        = [name |-> entry.name, state |-> state, value |-> value]
  BY <1>1, <1>2, Zenon
<1> QED BY <1>3, <1>4, Zenon

-----------------------------------------------------------------------------
(***************************************************************************)
(* Every call is the one of NamedDevices it looks like; setting a unique   *)
(* id, of which NamedDevices knows nothing, is a stutter.                  *)
(***************************************************************************)
LEMMA CallStep ==
  ASSUME TypeOK, MaxDevices < IdMod, [Next]_vars
  PROVE  [Named!Next]_<< Listed, call, result >>
<1> DEFINE Goal == [Named!Next]_<< Listed, call, result >>
<1> USE DEF Return
<1>1. Len(devices) \in Nat /\ DOMAIN devices = 1 .. Len(devices)
  BY Counted
<1>2. DOMAIN Listed = DOMAIN devices
  BY ListedEntries
<1>3. ASSUME NEW name \in Name, addDevice(name) PROVE Goal
  <2>1. Listed' = Append(Listed, [name |-> name, state |-> FALSE, value |-> 0])
    BY <1>3, ListedExtended DEF addDevice
  <2>2. Byte(Len(devices)) = Len(devices)
    <3>1. Len(devices) < IdMod /\ IdMod \in Nat
      BY <1>1, RegistryAssumption DEF TypeOK
    <3> QED BY <3>1, <1>1, SmallBytes
  <2>3. result' = Len(Listed)
    BY <1>3, <2>2, ListedEntries, Zenon DEF addDevice
  <2>4. Named!Add(name)
    BY <1>3, <2>1, <2>3, Zenon DEF addDevice, Named!Add
  <2> QED BY <2>4, Zenon DEF Named!Next
<1>4. ASSUME NEW name \in Name, findDevice(name) PROVE Goal
  <2> DEFINE target == [name |-> name]
  <2>1. "name" \in DOMAIN target /\ target.name = name
    OBVIOUS
  <2>2. Named!Place(target) = getDeviceId(name) + 1
    <3> HIDE DEF target
    <3> QED BY <2>1, PlaceByName
  <2>3. getDeviceId(name) \in Int
    BY <1>1, IdIsInt DEF TypeOK
  <2>4. result' = Named!Place(target) - 1
    <3>1. result' = getDeviceId(name)
      BY <1>4, Zenon DEF findDevice
    <3> HIDE DEF target
    <3> QED BY <3>1, <2>2, <2>3
  <2>5. UNCHANGED Listed
    BY <1>4, ListedUnchanged, Zenon DEF findDevice
  <2>6. Named!Find(name)
    BY <1>4, <2>4, <2>5, Zenon DEF findDevice, Named!Find
  <2> QED BY <2>6, Zenon DEF Named!Next
<1>5. ASSUME NEW target \in Target, NEW new \in Name, renameDevice(target, new)
      PROVE  Goal
  <2> DEFINE e == Effective(target)
  <2>1. call' = [op |-> "rename", target |-> target]
    BY <1>5, Zenon DEF renameDevice
  <2>2. CASE e < Len(devices)
    <3>1. /\ e + 1 \in DOMAIN devices
          /\ Named!Place(target) = e + 1
          /\ ~ ("id" \notin DOMAIN target /\ getDeviceId(target.name) < 0)
      BY <2>2, EffectiveIds
    <3>2. renameById(e, new)
      BY <1>5, <3>1, Zenon DEF renameDevice, Effective
    <3>3. devices' = [devices EXCEPT ![e + 1].name = new] /\ result' = 1
      BY <2>2, <3>2, Zenon DEF renameById
    <3> DEFINE d == [devices[e + 1] EXCEPT !.name = new]
    <3> HIDE DEF e
    <3>4. devices[e + 1] \in Device
      BY <3>1, Counted
    <3>5. d.name = new /\ d.state = devices[e + 1].state /\ d.value = devices[e + 1].value
      BY <3>4 DEF Device
    <3>6. devices' = [devices EXCEPT ![e + 1] = d]
      BY <3>3
    <3>7. Listed' = [Listed EXCEPT ![e + 1] = [name |-> new, state |-> devices[e + 1].state,
                                               value |-> devices[e + 1].value]]
      <4> HIDE DEF d
      <4>1. Listed' = [Listed EXCEPT ![e + 1] = [name |-> d.name, state |-> d.state,
                                                 value |-> d.value]]
        BY <3>1, <3>6, ListedEdited
      <4> QED BY <4>1, <3>5, Zenon
    <3>8. Listed[e + 1] = [name |-> devices[e + 1].name, state |-> devices[e + 1].state,
                           value |-> devices[e + 1].value]
      BY <3>1, ListedEntries
    <3>9. Listed' = [Listed EXCEPT ![e + 1].name = new]
      <4>1. [Listed[e + 1] EXCEPT !.name = new]
              = [name |-> new, state |-> devices[e + 1].state,
                 value |-> devices[e + 1].value]
        BY <3>8
      <4>2. [Listed EXCEPT ![e + 1].name = new]
              = [Listed EXCEPT ![e + 1] = [Listed[e + 1] EXCEPT !.name = new]]
        OBVIOUS
      <4> QED BY <4>1, <4>2, <3>7, Zenon
    <3>10. Named!Rename(target, new)
      BY <2>1, <3>1, <3>3, <3>9, <1>2, Zenon DEF Named!Rename, Named!Apply
    <3> QED BY <3>10, Zenon DEF Named!Next, Named!Target, Target
  <2>3. CASE ~ (e < Len(devices))
    <3>1. Named!Place(target) \notin DOMAIN devices
      BY <2>3, EffectiveIds
    <3>2. result' = 0 /\ UNCHANGED devices
      BY <1>5, <2>3, Zenon DEF renameDevice, renameById, Effective
    <3>3. UNCHANGED Listed
      BY <3>2, ListedUnchanged
    <3>4. Named!Rename(target, new)
      BY <2>1, <3>1, <3>2, <3>3, <1>2, Zenon DEF Named!Rename, Named!Apply
    <3> QED BY <3>4, Zenon DEF Named!Next, Named!Target, Target
  <2> QED BY <2>2, <2>3
<1>6. ASSUME NEW target \in Target, removeDevice(target) PROVE Goal
  <2> DEFINE e == Effective(target)
  <2>1. call' = [op |-> "remove", target |-> target]
    BY <1>6, Zenon DEF removeDevice
  <2>2. CASE e < Len(devices)
    <3>1. /\ e + 1 \in DOMAIN devices
          /\ Named!Place(target) = e + 1
          /\ ~ ("id" \notin DOMAIN target /\ getDeviceId(target.name) < 0)
      BY <2>2, EffectiveIds
    <3>2. removeById(e)
      BY <1>6, <3>1, Zenon DEF removeDevice, Effective
    <3>3. devices' = RemoveAt(devices, e + 1) /\ result' = 1
      BY <2>2, <3>2, Zenon DEF removeById
    <3>4. Listed' = RemoveAt(Listed, e + 1)
      BY <3>1, <3>3, ListedShortened
    <3>5. Named!RemoveAt(Listed, e + 1) = RemoveAt(Listed, e + 1)
      BY Zenon DEF Named!RemoveAt, RemoveAt
    <3>6. Named!Erase(target)
      BY <2>1, <3>1, <3>3, <3>4, <3>5, <1>2, Zenon DEF Named!Erase, Named!Apply
    <3> QED BY <3>6, Zenon DEF Named!Next, Named!Target, Target
  <2>3. CASE ~ (e < Len(devices))
    <3>1. Named!Place(target) \notin DOMAIN devices
      BY <2>3, EffectiveIds
    <3>2. result' = 0 /\ UNCHANGED devices
      BY <1>6, <2>3, Zenon DEF removeDevice, removeById, Effective
    <3>3. UNCHANGED Listed
      BY <3>2, ListedUnchanged
    <3>4. Named!Erase(target)
      BY <2>1, <3>1, <3>2, <3>3, <1>2, Zenon DEF Named!Erase, Named!Apply
    <3> QED BY <3>4, Zenon DEF Named!Next, Named!Target, Target
  <2> QED BY <2>2, <2>3
<1>7. ASSUME NEW target \in Target, NEW state \in BOOLEAN, NEW value \in Level,
             setState(target, state, value)
      PROVE  Goal
  <2> DEFINE e == Effective(target)
  <2>1. call' = [op |-> "set", target |-> target] /\ setStateById(e, state, value)
    BY <1>7, Zenon DEF setState, Effective
  <2>2. CASE e < Len(devices)
    <3>1. e + 1 \in DOMAIN devices /\ Named!Place(target) = e + 1
      BY <2>2, EffectiveIds
    <3>2. /\ devices' = [devices EXCEPT ![e + 1].state = state, ![e + 1].value = value]
          /\ result' = 1
      BY <2>1, <2>2, Zenon DEF setStateById
    <3> DEFINE d == [devices[e + 1] EXCEPT !.state = state, !.value = value]
    <3> HIDE DEF e
    <3>3. devices[e + 1] \in Device
      BY <3>1, Counted
    <3>4. d.name = devices[e + 1].name /\ d.state = state /\ d.value = value
      BY <3>3 DEF Device
    <3>5. devices' = [devices EXCEPT ![e + 1] = d]
      BY <3>1, <3>2, <3>3 DEF Device
    <3>6. Listed' = [Listed EXCEPT ![e + 1] = [name |-> devices[e + 1].name, state |-> state,
                                               value |-> value]]
      <4> HIDE DEF d
      <4> QED BY <3>1, <3>4, <3>5, ListedEdited
    <3>7. Listed[e + 1] = [name |-> devices[e + 1].name, state |-> devices[e + 1].state,
                           value |-> devices[e + 1].value]
      BY <3>1, ListedEntries
    <3>8. Listed' = [Listed EXCEPT ![e + 1].state = state, ![e + 1].value = value]
      <4> DEFINE same == [Listed[e + 1] EXCEPT !.state = state, !.value = value]
      <4>1. same = [name |-> devices[e + 1].name, state |-> state, value |-> value]
        <5>1. Listed[e + 1] \in Entry /\ Listed[e + 1].name = devices[e + 1].name
          <6> HIDE DEF same, d
          <6>1. Listed \in Seq(Entry) /\ e + 1 \in 1 .. Len(Listed)
            BY <3>1, <1>1, ListedEntries
          <6>2. Listed[e + 1] \in Entry
            BY <6>1, ElementOfSeq
          <6>3. Listed[e + 1].name = devices[e + 1].name
            BY <3>7
          <6> QED BY <6>2, <6>3, Zenon
        <5>2. PICK entry : entry = Listed[e + 1]
          OBVIOUS
        <5>3. entry \in Entry /\ entry.name = devices[e + 1].name
          BY <5>1, <5>2, Zenon
        <5>4. [entry EXCEPT !.state = state, !.value = value]
                = [name |-> entry.name, state |-> state, value |-> value]
          BY <5>3, TwoFields
        <5> QED BY <5>2, <5>3, <5>4, Zenon
      <4>2. [Listed EXCEPT ![e + 1].state = state, ![e + 1].value = value]
              = [Listed EXCEPT ![e + 1] = same]
        BY <3>1, <3>7, <1>2
      <4> HIDE DEF same
      <4> QED BY <4>1, <4>2, <3>6, Zenon
    <3>9. Named!Set(target, state, value)
      BY <2>1, <3>1, <3>2, <3>8, <1>2, Zenon DEF Named!Set, Named!Apply
    <3> QED BY <3>9, Zenon DEF Named!Next, Named!Target, Target
  <2>3. CASE ~ (e < Len(devices))
    <3>1. Named!Place(target) \notin DOMAIN devices
      BY <2>3, EffectiveIds
    <3>2. result' = 0 /\ UNCHANGED devices
      BY <2>1, <2>3, Zenon DEF setStateById
    <3>3. UNCHANGED Listed
      BY <3>2, ListedUnchanged
    <3>4. Named!Set(target, state, value)
      BY <2>1, <3>1, <3>2, <3>3, <1>2, Zenon DEF Named!Set, Named!Apply
    <3> QED BY <3>4, Zenon DEF Named!Next, Named!Target, Target
  <2> QED BY <2>2, <2>3
<1>8. ASSUME NEW id \in Id, NEW u \in OwnUniqueId, setDeviceUniqueId(id, u)
      PROVE  Goal
  <2>1. /\ devices' = [devices EXCEPT ![id + 1].uniqueid = u]
        /\ UNCHANGED << call, result >>
        /\ id + 1 \in DOMAIN devices
    BY <1>8, <1>1 DEF setDeviceUniqueId, Id
  <2> DEFINE d == [devices[id + 1] EXCEPT !.uniqueid = u]
  <2>2. devices[id + 1] \in Device
    BY <2>1, Counted
  <2>3. /\ d.name = devices[id + 1].name
        /\ d.state = devices[id + 1].state
        /\ d.value = devices[id + 1].value
    BY <2>2 DEF Device
  <2>4. devices' = [devices EXCEPT ![id + 1] = d]
    BY <2>1
  <2>5. Listed' = [Listed EXCEPT ![id + 1] = [name |-> devices[id + 1].name,
                                              state |-> devices[id + 1].state,
                                              value |-> devices[id + 1].value]]
    <3> HIDE DEF d
    <3>1. Listed' = [Listed EXCEPT ![id + 1] = [name |-> d.name, state |-> d.state,
                                                value |-> d.value]]
      BY <2>1, <2>4, ListedEdited
    <3> QED BY <3>1, <2>3, Zenon
  <2>6. Listed' = [Listed EXCEPT ![id + 1] = Listed[id + 1]]
    BY <2>1, <2>5, ListedEntries
  <2>7. Listed' = Listed
    BY <2>1, <2>6, ListedEntries, LenProperties
  <2> QED BY <2>1, <2>7
<1>9. ASSUME UNCHANGED vars PROVE Goal
  BY <1>9, ListedUnchanged DEF vars
<1> QED BY <1>3, <1>4, <1>5, <1>6, <1>7, <1>8, <1>9 DEF Next

LEMMA CallInit == Init => Named!Init
<1> SUFFICES ASSUME Init PROVE Named!Init
  OBVIOUS
<1>1. Listed = << >>
  BY DEF Init, Listed
<1> QED BY <1>1 DEF Init, Named!Init

(***************************************************************************)
(* A call of the API means what NamedDevices says, for any names, values   *)
(* and calls, if there are never more devices than an unsigned char counts *)
(* without its last value, which -1 becomes when setState passes it on.    *)
(***************************************************************************)
THEOREM CallsCorrect ==
  ASSUME MaxDevices < IdMod
  PROVE  Spec => CallsMeanWhatTheySay
<1>1. TypeOK /\ [Next]_vars => [Named!Next]_<< Listed, call, result >>
  BY CallStep
<1>2. Init => Named!Init
  BY CallInit
<1> QED BY <1>1, <1>2, TypeInit, TypeStep, PTL
        DEF Spec, CallsMeanWhatTheySay, Named!Spec, Named!vars

=============================================================================
