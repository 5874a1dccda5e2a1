-------------------------- MODULE RegistryMachine --------------------------
(***************************************************************************)
(* A registry under any sequence of its operations, and the map it is      *)
(* meant to be.  This is the module test_register.c samples at random.     *)
(***************************************************************************)
EXTENDS Registry

CONSTANT MaxKeyId   \* bound on the registrations

ASSUME MaxKeyIdAssumption == MaxKeyId \in Nat \ {0}

VARIABLE reg

RegTypeOK ==
  /\ reg.arr \in Seq(Bucket)
  /\ reg.sz \in Nat
  /\ reg.cap \in Nat
  /\ reg.key_id \in Nat

RegInit == reg = assoc_reg_init

PushBack(v) ==
  /\ reg.key_id < MaxKeyId
  /\ reg' = assoc_reg_push_back(reg, v)

\* The caller looks the key up, and writes through the iterator it gets.
WriteFound(key, v) ==
  /\ find_reg(reg, key) # assoc_reg_end(reg)
  /\ reg' = assoc_reg_value_set(reg, find_reg(reg, key), v)

\* Iterators are obtained from front, find or next, so they have a value, or
\* are the end.
EraseRange(first, last) ==
  /\ first \in Live(reg.arr)
  /\ last \in Live(reg.arr) \cup {assoc_reg_end(reg)}
  /\ first <= last
  /\ reg' = assoc_reg_erase(reg, first, last)

RemoveIf(S) == reg' = remove_if_range_reg(reg, S)

ForEachSet(v) == reg' = for_each_reg_set(reg, v)

RegNext ==
  \/ \E v \in Values : PushBack(v) \/ ForEachSet(v)
  \/ \E key \in 1..MaxKeyId, v \in Values : WriteFound(key, v)
  \/ \E first, last \in 1..assoc_reg_end(reg) : EraseRange(first, last)
  \/ \E S \in SUBSET Values : RemoveIf(S)

RegSpec == RegInit /\ [][RegNext]_reg

-----------------------------------------------------------------------------
(* "Test monotonic order" (test_invariants_registry_hold): keys increase      *)
(* along the array, dead buckets included, which is what the binary search    *)
(* of find_reg relies on after any mix of erasures, compactions, shrinks and  *)
(* expansions.                                                                *)
MonotonicOrder ==
  \A i, j \in DOMAIN reg.arr : i < j => reg.arr[i].key < reg.arr[j].key

(* The rest of test_invariants_registry_hold: sz counts the buckets with a    *)
(* value.  And the array never fills its buffer: push_back writes inside it,  *)
(* and the asserts "iterator out of the range" of lower_bound_reg and         *)
(* for_each_reg, which want room for the end iterator, never fail.            *)
CountsAndRoom ==
  /\ reg.sz = Cardinality(Live(reg.arr))
  /\ Len(reg.arr) < reg.cap

(* find_reg, a binary search from the first live bucket over an array with    *)
(* dead buckets, finds every registered key and no other.                     *)
FindCorrect ==
  \A key \in 1..MaxKeyId :
    LET it == find_reg(reg, key) IN
    IF \E i \in Live(reg.arr) : reg.arr[i].key = key
    THEN it \in Live(reg.arr) /\ reg.arr[it].key = key
    ELSE it = assoc_reg_end(reg)

(* All of test_invariants_registry_hold, with what the search makes of it:    *)
(* after any sequence of operations the array is ordered, counted, inside its *)
(* buffer and searched correctly.                                             *)
RegistryInvariant == RegTypeOK /\ MonotonicOrder /\ CountsAndRoom /\ FindCorrect

-----------------------------------------------------------------------------
\* The registered keys and their values.
Content ==
  [k \in {reg.arr[i].key : i \in Live(reg.arr)} |->
     reg.arr[CHOOSE i \in Live(reg.arr) : reg.arr[i].key = k].val]

Map == INSTANCE RegistryMap WITH map <- Content, nextId <- reg.key_id

(* The array implements the map of ids to data that assoc_reg.h promises:     *)
(* compaction, shrinking and expansion neither lose nor revive nor change an  *)
(* entry, and no id is handed out twice.                                      *)
ImplementsMap == Map!MapSpec

===========================================================================
