----------------------------- MODULE AtomicList -----------------------------
(***************************************************************************)
(* What main takes addDevice, renameDevice and removeDevice for: each one  *)
(* step on a list of devices with names.  No two devices are the same, a   *)
(* device keeps its place until one before it is removed, and its name     *)
(* until it is given another.  DeviceList shows that slots, pointers and a *)
(* heap whose places are used again come to no more than this.             *)
(***************************************************************************)
EXTENDS Naturals, Sequences, SequencesExt

CONSTANTS
  Key,    \* the devices there may be
  Name    \* the names given to them

VARIABLE list

Keys == {list[n].key : n \in DOMAIN list}

Init == list = << >>

Add(key, name) ==
  /\ key \notin Keys
  /\ list' = Append(list, [key |-> key, name |-> name])

Rename(n, new) == list' = [list EXCEPT ![n].name = new]

Erase(n) == list' = RemoveAt(list, n)

Next ==
  \/ \E key \in Key, name \in Name : Add(key, name)
  \/ \E n \in DOMAIN list : Erase(n) \/ \E new \in Name : Rename(n, new)

Spec == Init /\ [][Next]_list
=============================================================================
