------------------------------ MODULE Registry ------------------------------
(***************************************************************************)
(* The registry of util/alg_ds/ds/assoc_container/assoc_reg.c, with the    *)
(* binary search of alg/lower_bound.c and alg/find.c: an array of buckets  *)
(* in the order of their keys.  Erased buckets stay in the array (with     *)
(* their keys) until it is compacted, shrunk or expanded.                  *)
(*                                                                         *)
(* A registry is a record, as the C struct; its operations are functions   *)
(* of that record, so that a caller can make several of them one step.     *)
(* `arr' holds the occ_bucket buckets in use; the rest of the buffer is    *)
(* zeroed memory (calloc, memset).  Iterators are indices of `arr'; the    *)
(* end iterator is Len(arr) + 1.                                           *)
(***************************************************************************)
EXTENDS Naturals, Sequences, FiniteSets

CONSTANTS
  Values,     \* the data stored with a key
  MinCap,     \* MIN_SIZE: the capacity of a new registry, 16 in the code
  KeySpace    \* number of values of a bucket's key, 2^32 in the code

ASSUME MinCapAssumption == MinCap \in Nat \ {0, 1}
ASSUME KeySpaceAssumption == KeySpace \in Nat \ {0}

Bucket == [key : 0..(KeySpace - 1), has_value : BOOLEAN, val : Values]

Live(arr) == {i \in DOMAIN arr : arr[i].has_value}

assoc_reg_init == [arr |-> << >>, sz |-> 0, cap |-> MinCap, key_id |-> 1]

\* Mutant of partition: the last bucket with a value is zeroed with the rest.
partitionDropsLast(arr) ==
  [j \in 1..(Cardinality(Live(arr)) - 1) |->
     arr[CHOOSE i \in Live(arr) : Cardinality({k \in Live(arr) : k <= i}) = j]]

\* partition and copy_if: the buckets with a value move to the front, in order.
partition(arr) ==
  [j \in 1..Cardinality(Live(arr)) |->
     arr[CHOOSE i \in Live(arr) : Cardinality({k \in Live(arr) : k <= i}) = j]]

\* Mutant of compact_if_necessary: occ_bucket still counts the zeroed buckets.
compactKeepsOcc(reg) ==
  IF reg.sz * 2 > Len(reg.arr)
  THEN reg
  ELSE LET q == partition(reg.arr) IN
       [reg EXCEPT !.arr = [i \in DOMAIN reg.arr |->
          IF i <= Len(q) THEN q[i] ELSE [reg.arr[i] EXCEPT !.key = 0, !.has_value = FALSE]]]

compact_if_necessary(reg) ==
  IF reg.sz * 2 > Len(reg.arr)
  THEN reg
  ELSE [reg EXCEPT !.arr = partition(@)]

shrink_if_necessary(reg) ==
  IF reg.cap = MinCap \/ reg.sz * 4 > reg.cap
  THEN reg
  ELSE [reg EXCEPT !.arr = partition(@), !.cap = @ \div 2]

\* Mutant of expand_if_neccesary: the last bucket of the buffer is used too.
expandLate(reg) ==
  IF Len(reg.arr) < reg.cap
  THEN reg
  ELSE [reg EXCEPT !.arr = partition(@), !.cap = @ * 2]

expand_if_neccesary(reg) ==
  IF Len(reg.arr) < reg.cap - 1
  THEN reg
  ELSE [reg EXCEPT !.arr = partition(@), !.cap = @ * 2]

\* Mutant of assoc_reg_push_back: the counter is not advanced.
pushBackSameKey(reg, v) ==
  LET r == expand_if_neccesary(reg) IN
  [r EXCEPT !.arr = Append(@, [key |-> r.key_id % KeySpace, has_value |-> TRUE, val |-> v]),
            !.sz = @ + 1]

\* The key of a bucket has 32 bits, the counter key_id has 64.
assoc_reg_push_back(reg, v) ==
  LET r == expand_if_neccesary(reg) IN
  [r EXCEPT !.arr = Append(@, [key |-> r.key_id % KeySpace, has_value |-> TRUE, val |-> v]),
            !.key_id = @ + 1,
            !.sz = @ + 1]

\* Write access through the iterator assoc_reg_value gets.
assoc_reg_value_set(reg, i, v) == [reg EXCEPT !.arr[i].val = v]

\* Mutant of EraseBuckets: sz counts erased buckets, dead ones included.
EraseBucketsMiscounted(reg, gone) ==
  [reg EXCEPT !.arr = [i \in DOMAIN reg.arr |->
                 [reg.arr[i] EXCEPT !.has_value = @ /\ i \notin gone]],
              !.sz = @ - Cardinality(gone)]

\* The loops of assoc_reg_erase and remove_if_range_reg: the buckets of `gone'
\* that have a value lose it.
EraseBuckets(reg, gone) ==
  [reg EXCEPT !.arr = [i \in DOMAIN reg.arr |->
                 [reg.arr[i] EXCEPT !.has_value = @ /\ i \notin gone]],
              !.sz = @ - Cardinality(gone \cap Live(reg.arr))]

\* assoc_reg_erase of the iterators from first up to, excluding, last.
assoc_reg_erase(reg, first, last) ==
  IF first = last
  THEN reg
  ELSE shrink_if_necessary(compact_if_necessary(EraseBuckets(reg, first..(last - 1))))

\* Mutant of remove_if_range_reg: sz is decremented for every bucket visited.
removeIfMiscounts(reg, S) ==
  [reg EXCEPT !.arr = EraseBuckets(reg, {i \in Live(@) : @[i].val \in S}).arr,
              !.sz = @ - Len(reg.arr)]

\* remove_if_range_reg with the predicate "the value is in S".
remove_if_range_reg(reg, S) ==
  shrink_if_necessary(compact_if_necessary(
    EraseBuckets(reg, {i \in Live(reg.arr) : reg.arr[i].val \in S})))

\* for_each_reg from front to end with a function that sets the value to v.
for_each_reg_set(reg, v) ==
  [reg EXCEPT !.arr = [i \in DOMAIN reg.arr |->
     IF reg.arr[i].has_value THEN [reg.arr[i] EXCEPT !.val = v] ELSE reg.arr[i]]]

assoc_reg_end(reg) == Len(reg.arr) + 1

assoc_reg_front(reg) ==
  IF Live(reg.arr) = {} THEN assoc_reg_end(reg)
  ELSE CHOOSE i \in Live(reg.arr) : \A j \in Live(reg.arr) : i <= j

\* The windows of the array a binary search can look at: where one starts and
\* how many buckets it has.
Windows(reg) ==
  {w \in (1..assoc_reg_end(reg)) \X (0..Len(reg.arr)) : w[1] + w[2] <= assoc_reg_end(reg)}

\* Mutant of lower_bound_reg: <= for <, the upper bound.
upper_bound_reg(reg, start, key) ==
  LET search[w \in Windows(reg)] ==
        LET half == w[2] \div 2 IN
        IF w[2] = 0 THEN w[1]
        ELSE IF reg.arr[w[1] + half].key <= key
             THEN search[<<w[1] + half + 1, w[2] - half - 1>>]
             ELSE search[<<w[1], half>>]
  IN search[<<start, assoc_reg_end(reg) - start>>]

\* lower_bound_reg: the first iterator at or after start whose key is not less
\* than key.  The window is the state of the loop.
lower_bound_reg(reg, start, key) ==
  LET search[w \in Windows(reg)] ==
        LET half == w[2] \div 2 IN
        IF w[2] = 0 THEN w[1]
        ELSE IF reg.arr[w[1] + half].key < key
             THEN search[<<w[1] + half + 1, w[2] - half - 1>>]
             ELSE search[<<w[1], half>>]
  IN search[<<start, assoc_reg_end(reg) - start>>]

\* find_reg from front to end.
find_reg(reg, key) ==
  LET it == lower_bound_reg(reg, assoc_reg_front(reg), key)
      end == assoc_reg_end(reg)
  IN IF it = end \/ ~reg.arr[it].has_value \/ reg.arr[it].key # key THEN end ELSE it

=============================================================================
