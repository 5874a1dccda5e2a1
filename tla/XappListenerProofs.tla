------------------------- MODULE XappListenerProofs -------------------------
(***************************************************************************)
(* Proofs for the registry and for the xApp listener that is built on it.  *)
(* The registry: its array stays ordered, counted and inside its buffer,   *)
(* its binary search finds what is registered, and it implements the map   *)
(* of ids to data. The listener: its registry stays well formed, no id has *)
(* two owners, and the keep-alive timer removes the silent xApps, in time  *)
(* and no others.                                                          *)
(***************************************************************************)
EXTENDS XappListener, TLAPS, FiniteSetTheorems, SequenceTheorems

USE MinCapAssumption, KeySpaceAssumption, MaxKeyIdAssumption

-----------------------------------------------------------------------------
(***************************************************************************)
(* Arrays of buckets.                                                      *)
(***************************************************************************)
Ordered(arr) == \A i, j \in DOMAIN arr : i < j => arr[i].key < arr[j].key

\* What is registered: the keys and values of the buckets that have a value.
Entries(arr) == {<<arr[i].key, arr[i].val>> : i \in Live(arr)}

(* The types of an array, and that its live buckets can be counted. *)
LEMMA ArrTypes ==
  ASSUME NEW arr \in Seq(Bucket)
  PROVE  /\ Len(arr) \in Nat /\ DOMAIN arr = 1 .. Len(arr)
         /\ \A i \in DOMAIN arr : /\ arr[i] \in Bucket /\ arr[i].key \in 0 .. (KeySpace - 1)
                                  /\ arr[i].has_value \in BOOLEAN /\ arr[i].val \in Values
         /\ Live(arr) \subseteq 1 .. Len(arr)
         /\ IsFiniteSet(Live(arr)) /\ Cardinality(Live(arr)) \in 0 .. Len(arr)
<1>1. /\ Len(arr) \in Nat /\ DOMAIN arr = 1 .. Len(arr)
      /\ \A i \in DOMAIN arr : arr[i] \in Bucket
  OBVIOUS
<1>2. \A b \in Bucket : /\ b.key \in 0 .. (KeySpace - 1)
                        /\ b.has_value \in BOOLEAN /\ b.val \in Values
  BY DEF Bucket
<1>3. Live(arr) \subseteq 1 .. Len(arr)
  BY <1>1 DEF Live
<1>4. IsFiniteSet(1 .. Len(arr)) /\ Cardinality(1 .. Len(arr)) = Len(arr)
  BY <1>1, FS_Interval
<1>5. IsFiniteSet(Live(arr)) /\ Cardinality(Live(arr)) <= Len(arr)
  BY <1>3, <1>4, FS_Subset
<1>6. Cardinality(Live(arr)) \in Nat
  BY <1>5, FS_CardinalityType
<1> QED BY <1>1, <1>2, <1>3, <1>5, <1>6

(* partition takes the live buckets in their order, each once: the rank of a  *)
(* live bucket among them is a bijection.                                     *)
LEMMA PartitionIs ==
  ASSUME NEW arr \in Seq(Bucket)
  PROVE  LET n == Cardinality(Live(arr))
         IN  \E p \in [1 .. n -> Live(arr)] :
               /\ partition(arr) = [j \in 1 .. n |-> arr[p[j]]]
               /\ \A i, j \in 1 .. n : i < j => p[i] < p[j]
               /\ \A i \in Live(arr) : \E j \in 1 .. n : p[j] = i
<1> DEFINE L == Live(arr)
           n == Cardinality(L)
           Upto(i) == {k \in L : k <= i}
           rank == [i \in L |-> Cardinality(Upto(i))]
           p == [j \in 1 .. n |-> CHOOSE i \in L : Cardinality(Upto(i)) = j]
<1>1. L \subseteq Nat /\ IsFiniteSet(L) /\ n \in Nat
  BY ArrTypes
<1>2. \A i \in L : /\ IsFiniteSet(Upto(i)) /\ Cardinality(Upto(i)) \in Nat
                   /\ Cardinality(Upto(i)) \in 1 .. n
  <2> SUFFICES ASSUME NEW i \in L
               PROVE  /\ IsFiniteSet(Upto(i)) /\ Cardinality(Upto(i)) \in Nat
                      /\ Cardinality(Upto(i)) \in 1 .. n
    OBVIOUS
  <2>1. Upto(i) \in SUBSET L /\ i \in Upto(i)
    BY <1>1
  <2>2. IsFiniteSet(Upto(i)) /\ Cardinality(Upto(i)) <= n
    BY <1>1, <2>1, FS_Subset
  <2>3. Cardinality(Upto(i)) \in Nat /\ Cardinality(Upto(i)) # 0
    BY <2>1, <2>2, FS_CardinalityType, FS_EmptySet
  <2> QED BY <1>1, <2>2, <2>3
<1>3. \A i, k \in L : i < k => Cardinality(Upto(i)) < Cardinality(Upto(k))
  <2> SUFFICES ASSUME NEW i \in L, NEW k \in L, i < k
               PROVE  Cardinality(Upto(i)) < Cardinality(Upto(k))
    OBVIOUS
  <2>1. Upto(i) \in SUBSET Upto(k) /\ k \in Upto(k) /\ k \notin Upto(i)
    BY <1>1
  <2>2. Cardinality(Upto(i)) <= Cardinality(Upto(k)) /\ Cardinality(Upto(i)) # Cardinality(Upto(k))
    BY <1>2, <2>1, FS_Subset
  <2>3. Cardinality(Upto(i)) \in Nat /\ Cardinality(Upto(k)) \in Nat
    BY <1>2
  <2> HIDE DEF Upto
  <2> QED BY <2>2, <2>3
<1> HIDE DEF Upto
<1>4. \A i, k \in L : Cardinality(Upto(i)) = Cardinality(Upto(k)) => i = k
  <2> SUFFICES ASSUME NEW i \in L, NEW k \in L, Cardinality(Upto(i)) = Cardinality(Upto(k)), i # k
               PROVE  FALSE
    OBVIOUS
  <2>1. i < k \/ k < i
    BY <1>1
  <2> QED BY <1>2, <1>3, <2>1
<1>5. rank \in Injection(L, 1 .. n)
  BY <1>2, <1>4 DEF Injection, IsInjective
<1>6. IsFiniteSet(1 .. n) /\ Cardinality(1 .. n) = n
  BY <1>1, FS_Interval
<1>7. rank \in Surjection(L, 1 .. n)
  <2> HIDE DEF rank, L
  <2>1. Cardinality(L) = Cardinality(1 .. n) <=> rank \in Surjection(L, 1 .. n)
    BY <1>5, <1>6, FS_Injection
  <2> QED BY <1>6, <2>1
<1>8. \A j \in 1 .. n : \E i \in L : Cardinality(Upto(i)) = j
  BY <1>7 DEF Surjection
<1>9. \A j \in 1 .. n : p[j] \in L /\ Cardinality(Upto(p[j])) = j
  <2> SUFFICES ASSUME NEW j \in 1 .. n PROVE p[j] \in L /\ Cardinality(Upto(p[j])) = j
    OBVIOUS
  <2>1. p[j] = CHOOSE i \in L : Cardinality(Upto(i)) = j
    OBVIOUS
  <2>2. \E i \in L : Cardinality(Upto(i)) = j
    BY <1>8
  <2> HIDE DEF p, L
  <2> QED BY <2>1, <2>2
<1>10. p \in [1 .. n -> L]
  BY <1>9
<1>11. partition(arr) = [j \in 1 .. n |-> arr[p[j]]]
  <2>1. partition(arr) = [j \in 1 .. n |-> arr[CHOOSE i \in L : Cardinality(Upto(i)) = j]]
    BY DEF partition, Upto
  <2> HIDE DEF L
  <2> QED BY <2>1
<1> HIDE DEF p, L
<1>12. ASSUME NEW i \in 1 .. n, NEW j \in 1 .. n, i < j PROVE p[i] < p[j]
  <2>1. p[i] \in Nat /\ p[j] \in Nat /\ p[i] \in L /\ p[j] \in L
    BY <1>1, <1>9
  <2>2. ~(p[j] < p[i]) /\ p[i] # p[j]
    BY <1>3, <1>9, <1>12, <2>1
  <2> QED BY <2>1, <2>2
<1>13. ASSUME NEW i \in L PROVE \E j \in 1 .. n : p[j] = i
  <2>1. PICK j \in 1 .. n : j = Cardinality(Upto(i))
    BY <1>2
  <2>2. p[j] = i
    BY <1>4, <1>9, <2>1
  <2> QED BY <2>2
<1> QED BY <1>10, <1>11, <1>12, <1>13 DEF L
(* The partitioned array has the same entries in the same order, and every    *)
(* bucket of it is live.                                                      *)
LEMMA PartitionKeeps ==
  ASSUME NEW arr \in Seq(Bucket), Ordered(arr)
  PROVE  \E q \in Seq(Bucket) :
           /\ q = partition(arr)
           /\ Len(q) = Cardinality(Live(arr)) /\ Live(q) = 1 .. Len(q)
           /\ Cardinality(Live(q)) = Cardinality(Live(arr))
           /\ Ordered(q) /\ Entries(q) = Entries(arr)
           /\ \A j \in DOMAIN q : \E i \in DOMAIN arr : q[j] = arr[i]
<1> DEFINE n == Cardinality(Live(arr))
<1>1. PICK p \in [1 .. n -> Live(arr)] :
               /\ partition(arr) = [j \in 1 .. n |-> arr[p[j]]]
               /\ \A i, j \in 1 .. n : i < j => p[i] < p[j]
               /\ \A i \in Live(arr) : \E j \in 1 .. n : p[j] = i
  BY PartitionIs
<1>2. /\ n \in Nat /\ DOMAIN arr = 1 .. Len(arr) /\ Live(arr) \subseteq DOMAIN arr
      /\ \A i \in DOMAIN arr : arr[i] \in Bucket
      /\ \A i \in Live(arr) : arr[i].has_value
  BY ArrTypes DEF Live
<1> DEFINE q == [j \in 1 .. n |-> arr[p[j]]]
<1>3. \A j \in 1 .. n : p[j] \in Live(arr) /\ q[j] = arr[p[j]] /\ q[j] \in Bucket
  BY <1>2
<1>4. q \in Seq(Bucket) /\ Len(q) = n /\ DOMAIN q = 1 .. n
  <2> HIDE DEF n
  <2>1. q \in [1 .. n -> Bucket]
    BY <1>3
  <2> QED BY <1>2, <2>1
<1> HIDE DEF q, n
<1>5. Live(q) = 1 .. n
  BY <1>2, <1>3, <1>4 DEF Live
<1>6. Cardinality(Live(q)) = n
  BY <1>2, <1>5, FS_Interval
<1>7. Ordered(q)
  <2> SUFFICES ASSUME NEW i \in 1 .. n, NEW j \in 1 .. n, i < j PROVE q[i].key < q[j].key
    BY <1>4 DEF Ordered
  <2>1. p[i] \in DOMAIN arr /\ p[j] \in DOMAIN arr /\ p[i] < p[j]
    BY <1>1, <1>2, <1>3
  <2> QED BY <1>3, <2>1 DEF Ordered
<1>8. Entries(q) = Entries(arr)
  <2>1. ASSUME NEW j \in 1 .. n PROVE <<q[j].key, q[j].val>> \in Entries(arr)
    BY <1>3 DEF Entries
  <2>2. ASSUME NEW i \in Live(arr) PROVE <<arr[i].key, arr[i].val>> \in Entries(q)
    <3>1. PICK j \in 1 .. n : p[j] = i
      BY <1>1
    <3> QED BY <1>3, <1>5, <3>1 DEF Entries
  <2> QED BY <1>5, <2>1, <2>2 DEF Entries
<1>9. \A j \in DOMAIN q : \E i \in DOMAIN arr : q[j] = arr[i]
  BY <1>2, <1>3, <1>4
<1>10. q = partition(arr)
  BY <1>1 DEF q
<1> QED BY <1>4, <1>5, <1>6, <1>7, <1>8, <1>9, <1>10 DEF n

-----------------------------------------------------------------------------
(***************************************************************************)
(* Binary search.                                                          *)
(***************************************************************************)

\* x is the first iterator of the window w whose key is not less than key, or
\* the one after the window.
IsBound(arr, key, w, x) ==
  /\ x \in w[1] .. w[1] + w[2]
  /\ \A i \in w[1] .. x - 1 : arr[i].key < key
  /\ \A i \in x .. w[1] + w[2] - 1 : ~(arr[i].key < key)

\* One round of the loop of lower_bound_reg, when rest does the others.
Round(r, key, rest) ==
  [w \in Windows(r) |->
     LET half == w[2] \div 2 IN
     IF w[2] = 0 THEN w[1]
     ELSE IF r.arr[w[1] + half].key < key
          THEN rest[<<w[1] + half + 1, w[2] - half - 1>>]
          ELSE rest[<<w[1], half>>]]

LEMMA SearchIsFixedPoint ==
  ASSUME NEW r, NEW start, NEW key
  PROVE  lower_bound_reg(r, start, key)
           = (CHOOSE f : f = Round(r, key, f))[<<start, assoc_reg_end(r) - start>>]
BY Zenon DEF lower_bound_reg, Round
(* Halving a window leaves a window, a shorter one, and its bound is the      *)
(* bound of the whole.                                                        *)
LEMMA HalfWindow ==
  ASSUME NEW arr \in Seq(Bucket), Ordered(arr), NEW key \in Nat,
         NEW l \in Nat \ {0}, NEW n \in Nat \ {0}, l + n <= Len(arr) + 1, NEW x,
         NEW h \in Nat, h = n \div 2
  PROVE  /\ h < n /\ l + h \in DOMAIN arr
         /\ arr[l + h].key < key /\ IsBound(arr, key, <<l + h + 1, n - h - 1>>, x)
              => IsBound(arr, key, <<l, n>>, x)
         /\ ~(arr[l + h].key < key) /\ IsBound(arr, key, <<l, h>>, x)
              => IsBound(arr, key, <<l, n>>, x)
<1>1. h < n
  OBVIOUS
<1>2. Len(arr) \in Nat /\ DOMAIN arr = 1 .. Len(arr) /\ \A i \in DOMAIN arr : arr[i].key \in Nat
  <2>1. \A i \in 0 .. (KeySpace - 1) : i \in Nat
    OBVIOUS
  <2> QED BY <2>1, ArrTypes
<1>3. l + h \in DOMAIN arr
  BY <1>1, <1>2
<1>4. ASSUME arr[l + h].key < key, IsBound(arr, key, <<l + h + 1, n - h - 1>>, x)
      PROVE  IsBound(arr, key, <<l, n>>, x)
  <2>1. /\ x \in l + h + 1 .. l + n
        /\ \A i \in l + h + 1 .. x - 1 : arr[i].key < key
        /\ \A i \in x .. l + n - 1 : ~(arr[i].key < key)
    <3>1. (l + h + 1) + (n - h - 1) = l + n
      BY <1>1
    <3> QED BY <1>4, <3>1 DEF IsBound
  <2>2. ASSUME NEW i \in l .. x - 1 PROVE arr[i].key < key
    <3>1. CASE i \in l + h + 1 .. x - 1
      BY <2>1, <3>1
    <3>2. CASE i = l + h
      BY <1>4, <3>2
    <3>3. CASE i < l + h
      <4>1. i \in DOMAIN arr
        BY <1>2, <1>3, <3>3
      <4>2. arr[i].key < arr[l + h].key
        BY <1>3, <3>3, <4>1 DEF Ordered
      <4>3. arr[i].key \in Nat /\ arr[l + h].key \in Nat
        BY <1>2, <1>3, <4>1
      <4> QED BY <1>4, <4>2, <4>3, SMTT(30)
    <3>4. i \in Int /\ x \in Int /\ i <= x - 1 /\ l + h \in Int
      BY <2>1
    <3>5. i \in l + h + 1 .. x - 1 \/ i = l + h \/ i < l + h
      BY <3>4
    <3> QED BY <3>1, <3>2, <3>3, <3>5
  <2>3. x \in l .. l + n
    BY <2>1
  <2> QED BY <2>1, <2>2, <2>3 DEF IsBound
<1>5. ASSUME ~(arr[l + h].key < key), IsBound(arr, key, <<l, h>>, x)
      PROVE  IsBound(arr, key, <<l, n>>, x)
  <2>1. /\ x \in l .. l + h
        /\ \A i \in l .. x - 1 : arr[i].key < key
        /\ \A i \in x .. l + h - 1 : ~(arr[i].key < key)
    BY <1>5 DEF IsBound
  <2>2. ASSUME NEW i \in x .. l + n - 1 PROVE ~(arr[i].key < key)
    <3>1. CASE i \in x .. l + h - 1
      BY <2>1, <3>1
    <3>2. CASE i = l + h
      BY <1>5, <3>2
    <3>3. CASE i > l + h
      <4>1. i \in DOMAIN arr
        BY <1>2, <1>3, <2>1, <3>3
      <4>2. arr[l + h].key < arr[i].key
        BY <1>3, <3>3, <4>1 DEF Ordered
      <4>3. arr[i].key \in Nat /\ arr[l + h].key \in Nat
        BY <1>2, <1>3, <4>1
      <4> QED BY <1>5, <4>2, <4>3, SMTT(30)
    <3>4. i \in Int /\ x \in Int /\ x <= i /\ l + h \in Int
      BY <2>1
    <3>5. i \in x .. l + h - 1 \/ i = l + h \/ i > l + h
      BY <3>4
    <3> QED BY <3>1, <3>2, <3>3, <3>5
  <2>3. x \in l .. l + n
    BY <1>1, <2>1
  <2> QED BY <2>1, <2>2, <2>3 DEF IsBound
<1> QED BY <1>1, <1>3, <1>4, <1>5

(* Of an ordered array, every window has one bound. *)
LEMMA OneBound ==
  ASSUME NEW arr \in Seq(Bucket), Ordered(arr), NEW key \in Nat,
         NEW l \in Nat \ {0}, NEW n \in Nat, l + n <= Len(arr) + 1
  PROVE  /\ \E x \in Nat : IsBound(arr, key, <<l, n>>, x)
         /\ \A x, y : IsBound(arr, key, <<l, n>>, x) /\ IsBound(arr, key, <<l, n>>, y) => x = y
<1>0. Len(arr) \in Nat /\ DOMAIN arr = 1 .. Len(arr) /\ \A i \in DOMAIN arr : arr[i].key \in Nat
  <2>1. \A i \in 0 .. (KeySpace - 1) : i \in Nat
    OBVIOUS
  <2> QED BY <2>1, ArrTypes
<1> DEFINE K == {k \in Nat : k >= l /\ (k >= l + n \/ ~(arr[k].key < key))}
<1>1. l + n \in K
  OBVIOUS
<1>2. PICK x \in K : \A k \in K : ~(<<k, x>> \in OpToRel(<, Nat))
  BY <1>1, NatLessThanWellFounded, WFMin
<1>3. x \in Nat /\ x >= l /\ \A k \in Nat : k < x => k \notin K
  BY <1>2 DEF OpToRel
<1>4. x <= l + n
  BY <1>1, <1>3
<1>5. \A i \in l .. x - 1 : arr[i].key < key
  <2> SUFFICES ASSUME NEW i \in l .. x - 1 PROVE arr[i].key < key
    OBVIOUS
  <2>1. i \in Nat /\ i < x /\ i >= l
    BY <1>3
  <2> QED BY <1>3, <2>1
<1>6. \A i \in x .. l + n - 1 : ~(arr[i].key < key)
  <2> SUFFICES ASSUME NEW i \in x .. l + n - 1 PROVE ~(arr[i].key < key)
    OBVIOUS
  <2>0. x \in Nat /\ x >= l /\ x < l + n
    BY <1>3
  <2>1. ~(arr[x].key < key) /\ x \in DOMAIN arr /\ i \in DOMAIN arr /\ (i = x \/ x < i)
    <3>1. x >= l + n \/ ~(arr[x].key < key)
      BY <1>2
    <3>2. x \in DOMAIN arr /\ i \in DOMAIN arr /\ (i = x \/ x < i)
      BY <1>0, <2>0
    <3> QED BY <2>0, <3>1, <3>2
  <2>2. i = x \/ arr[x].key < arr[i].key
    BY <2>1 DEF Ordered
  <2>3. arr[x].key \in Nat /\ arr[i].key \in Nat
    BY <1>0, <2>1
  <2> QED BY <2>1, <2>2, <2>3
<1>7. IsBound(arr, key, <<l, n>>, x)
  BY <1>3, <1>4, <1>5, <1>6 DEF IsBound
<1>8. ASSUME NEW y, NEW z, IsBound(arr, key, <<l, n>>, y), IsBound(arr, key, <<l, n>>, z), y # z
      PROVE  FALSE
  <2>1. y \in l .. l + n /\ z \in l .. l + n
    BY <1>8 DEF IsBound
  <2>2. CASE y < z
    <3>1. y \in l .. z - 1 /\ y \in y .. l + n - 1
      BY <2>1, <2>2
    <3> QED BY <1>8, <3>1 DEF IsBound
  <2>3. CASE z < y
    <3>1. z \in l .. y - 1 /\ z \in z .. l + n - 1
      BY <2>1, <2>3
    <3> QED BY <1>8, <3>1 DEF IsBound
  <2> QED BY <1>8, <2>1, <2>2, <2>3
<1> QED BY <1>3, <1>7, <1>8
(* lower_bound_reg finds the bound of the window from start to the end. *)
LEMMA LowerBoundIs ==
  ASSUME NEW r, r.arr \in Seq(Bucket), Ordered(r.arr), NEW key \in Nat,
         NEW start \in 1 .. Len(r.arr) + 1
  PROVE  IsBound(r.arr, key, <<start, Len(r.arr) + 1 - start>>, lower_bound_reg(r, start, key))
<1> DEFINE arr == r.arr
           W == Windows(r)
<1>0. Len(arr) \in Nat
  OBVIOUS
<1>1. \A l, n : <<l, n>> \in W <=> /\ l \in 1 .. Len(arr) + 1 /\ n \in 0 .. Len(arr)
                                   /\ l + n <= Len(arr) + 1
  BY DEF Windows, assoc_reg_end
<1>2. \A w \in W : w = <<w[1], w[2]>>
  BY DEF Windows
<1>3. \A l, n : <<l, n>> \in W => l \in Nat \ {0} /\ n \in Nat /\ l + n <= Len(arr) + 1
  BY <1>0, <1>1
<1>4. \A l, n : <<l, n>> \in W /\ n # 0 =>
         /\ (n \div 2) \in Nat /\ (n \div 2) < n
         /\ <<l + (n \div 2) + 1, n - (n \div 2) - 1>> \in W
         /\ <<l, (n \div 2)>> \in W
  <2> SUFFICES ASSUME NEW l, NEW n, <<l, n>> \in W, n # 0
               PROVE  /\ (n \div 2) \in Nat /\ (n \div 2) < n
                      /\ <<l + (n \div 2) + 1, n - (n \div 2) - 1>> \in W
                      /\ <<l, (n \div 2)>> \in W
    OBVIOUS
  <2>1. l \in 1 .. Len(arr) + 1 /\ n \in 1 .. Len(arr) /\ l + n <= Len(arr) + 1
    BY <1>0, <1>1
  <2>2. PICK h \in Nat : h = (n \div 2) /\ h < n
    BY <2>1
  <2> HIDE DEF W, arr
  <2>3. <<l + h + 1, n - h - 1>> \in W
    <3>1. l + h + 1 \in 1 .. Len(arr) + 1 /\ n - h - 1 \in 0 .. Len(arr)
          /\ (l + h + 1) + (n - h - 1) <= Len(arr) + 1
      BY <1>0, <2>1, <2>2
    <3> QED BY <1>1, <3>1
  <2>4. <<l, h>> \in W
    <3>1. h \in 0 .. Len(arr) /\ l + h <= Len(arr) + 1
      BY <1>0, <2>1, <2>2
    <3> QED BY <1>1, <2>1, <3>1
  <2> QED BY <2>2, <2>3, <2>4
<1> DEFINE g == [w \in W |-> CHOOSE x : IsBound(arr, key, w, x)]
<1>5. \A l, n : <<l, n>> \in W => IsBound(arr, key, <<l, n>>, g[<<l, n>>])
  <2> SUFFICES ASSUME NEW l, NEW n, <<l, n>> \in W
               PROVE  IsBound(arr, key, <<l, n>>, g[<<l, n>>])
    OBVIOUS
  <2>1. \E x : IsBound(arr, key, <<l, n>>, x)
    BY <1>3, OneBound
  <2>2. g[<<l, n>>] = CHOOSE x : IsBound(arr, key, <<l, n>>, x)
    OBVIOUS
  <2> HIDE DEF g, W, arr
  <2> QED BY <2>1, <2>2
<1>6. \A w \in W : Round(r, key, g)[w] = g[w]
  <2> SUFFICES ASSUME NEW w \in W PROVE Round(r, key, g)[w] = g[w]
    OBVIOUS
  <2>1. PICK l, n : w = <<l, n>> /\ <<l, n>> \in W
    <3> HIDE DEF g, W, arr
    <3>1. w = <<w[1], w[2]>>
      BY <1>2
    <3>2. <<w[1], w[2]>> \in W
      BY <3>1, Zenon
    <3> QED BY <3>1, <3>2, Zenon
  <2>2. Round(r, key, g)[<<l, n>>] =
          IF n = 0 THEN l
          ELSE IF arr[l + (n \div 2)].key < key
               THEN g[<<l + (n \div 2) + 1, n - (n \div 2) - 1>>]
               ELSE g[<<l, (n \div 2)>>]
    <3> HIDE DEF g
    <3> QED BY <2>1 DEF Round
  <2> HIDE DEF g, W, arr
  <2>3. l \in Nat \ {0} /\ n \in Nat /\ l + n <= Len(arr) + 1
    BY <1>3, <2>1
  <2>4. IsBound(arr, key, <<l, n>>, g[<<l, n>>])
    BY <1>5, <2>1
  <2>5. IsBound(arr, key, <<l, n>>, Round(r, key, g)[<<l, n>>])
    <3>1. CASE n = 0
      BY <2>2, <2>3, <3>1 DEF IsBound
    <3>2. CASE n # 0
      <4>1. PICK h \in Nat : h = (n \div 2)
        BY <1>4, <2>1, <3>2
      <4>2. /\ IsBound(arr, key, <<l + h + 1, n - h - 1>>, g[<<l + h + 1, n - h - 1>>])
            /\ IsBound(arr, key, <<l, h>>, g[<<l, h>>])
        BY <1>4, <1>5, <2>1, <3>2, <4>1
      <4>3. CASE arr[l + h].key < key
        <5>1. Round(r, key, g)[<<l, n>>] = g[<<l + h + 1, n - h - 1>>]
          BY <2>2, <3>2, <4>1, <4>3
        <5>2. arr \in Seq(Bucket) /\ Ordered(arr)
          BY DEF arr
        <5> QED BY <2>3, <3>2, <4>1, <4>2, <4>3, <5>1, <5>2, HalfWindow
      <4>4. CASE ~(arr[l + h].key < key)
        <5>1. Round(r, key, g)[<<l, n>>] = g[<<l, h>>]
          BY <2>2, <3>2, <4>1, <4>4
        <5>2. arr \in Seq(Bucket) /\ Ordered(arr)
          BY DEF arr
        <5> QED BY <2>3, <3>2, <4>1, <4>2, <4>4, <5>1, <5>2, HalfWindow
      <4> QED BY <4>3, <4>4
    <3> QED BY <3>1, <3>2
  <2>6. arr \in Seq(Bucket) /\ Ordered(arr)
    BY DEF arr
  <2> QED BY <2>1, <2>3, <2>4, <2>5, <2>6, OneBound
<1>7. g = Round(r, key, g)
  <2>1. DOMAIN g = W /\ g = [w \in W |-> g[w]]
    OBVIOUS
  <2>2. Round(r, key, g) = [w \in W |-> Round(r, key, g)[w]]
    BY DEF Round
  <2> HIDE DEF g, W
  <2> QED BY <1>6, <2>1, <2>2
<1> DEFINE f == CHOOSE f : f = Round(r, key, f)
<1>8. f = Round(r, key, f)
  <2> HIDE DEF g
  <2> QED BY <1>7
<1> HIDE DEF f, g
<1>9. \A l, n : <<l, n>> \in W =>
        f[<<l, n>>] = IF n = 0 THEN l
                      ELSE IF arr[l + (n \div 2)].key < key
                           THEN f[<<l + (n \div 2) + 1, n - (n \div 2) - 1>>]
                           ELSE f[<<l, (n \div 2)>>]
  <2> SUFFICES ASSUME NEW l, NEW n, <<l, n>> \in W
               PROVE  Round(r, key, f)[<<l, n>>] =
                        IF n = 0 THEN l
                        ELSE IF arr[l + (n \div 2)].key < key
                             THEN f[<<l + (n \div 2) + 1, n - (n \div 2) - 1>>]
                             ELSE f[<<l, (n \div 2)>>]
    BY <1>8
  <2> QED BY DEF Round
<1> HIDE DEF W
<1> DEFINE Bad == {n \in Nat : \E l : <<l, n>> \in W /\ ~IsBound(arr, key, <<l, n>>, f[<<l, n>>])}
<1>10. Bad = {}
  <2> SUFFICES ASSUME Bad # {} PROVE FALSE
    OBVIOUS
  <2>1. PICK n \in Bad : \A k \in Bad : ~(<<k, n>> \in OpToRel(<, Nat))
    BY NatLessThanWellFounded, WFMin
  <2>2. n \in Nat /\ \A k \in Nat : k < n => k \notin Bad
    BY <2>1 DEF OpToRel
  <2>3. PICK l : <<l, n>> \in W /\ ~IsBound(arr, key, <<l, n>>, f[<<l, n>>])
    BY <2>1
  <2>4. l \in Nat \ {0} /\ n \in Nat /\ l + n <= Len(arr) + 1 /\ arr \in Seq(Bucket) /\ Ordered(arr)
    BY <1>3, <2>3
  <2>5. \A k \in Nat : k < n => \A m : <<m, k>> \in W => IsBound(arr, key, <<m, k>>, f[<<m, k>>])
    BY <2>2
  <2> HIDE DEF Bad, arr
  <2>6. CASE n = 0
    <3>1. f[<<l, n>>] = l
      BY <1>9, <2>3, <2>6
    <3> QED BY <2>3, <2>4, <2>6, <3>1 DEF IsBound
  <2>7. CASE n # 0
    <3>1. PICK h \in Nat : h = (n \div 2)
      BY <1>4, <2>3, <2>7
    <3>2. h < n /\ <<l + h + 1, n - h - 1>> \in W /\ <<l, h>> \in W
      BY <1>4, <2>3, <2>7, <3>1
    <3>3. n - h - 1 \in Nat /\ n - h - 1 < n
      BY <2>4, <3>2
    <3>4. /\ IsBound(arr, key, <<l + h + 1, n - h - 1>>, f[<<l + h + 1, n - h - 1>>])
          /\ IsBound(arr, key, <<l, h>>, f[<<l, h>>])
      BY <2>5, <3>2, <3>3
    <3>5. CASE arr[l + h].key < key
      <4>1. f[<<l, n>>] = f[<<l + h + 1, n - h - 1>>]
        BY <1>9, <2>3, <2>7, <3>1, <3>5
      <4> QED BY <2>3, <2>4, <2>7, <3>1, <3>4, <3>5, <4>1, HalfWindow
    <3>6. CASE ~(arr[l + h].key < key)
      <4>1. f[<<l, n>>] = f[<<l, h>>]
        BY <1>9, <2>3, <2>7, <3>1, <3>6
      <4> QED BY <2>3, <2>4, <2>7, <3>1, <3>4, <3>6, <4>1, HalfWindow
    <3> QED BY <3>5, <3>6
  <2> QED BY <2>6, <2>7
<1>11. <<start, Len(arr) + 1 - start>> \in W /\ Len(arr) + 1 - start \in Nat
  <2>1. start \in 1 .. Len(arr) + 1 /\ Len(arr) + 1 - start \in 0 .. Len(arr)
        /\ start + (Len(arr) + 1 - start) <= Len(arr) + 1
    BY <1>0
  <2> QED BY <1>0, <1>1, <2>1
<1>12. lower_bound_reg(r, start, key) = f[<<start, Len(arr) + 1 - start>>]
  <2>1. lower_bound_reg(r, start, key) = f[<<start, assoc_reg_end(r) - start>>]
    BY SearchIsFixedPoint, Zenon DEF f
  <2> QED BY <2>1 DEF assoc_reg_end
<1> QED BY <1>10, <1>11, <1>12
-----------------------------------------------------------------------------
(***************************************************************************)
(* A registry between two operations.                                      *)
(***************************************************************************)
Reg == [arr : Seq(Bucket), sz : Nat, cap : Nat, key_id : Nat]

\* The capacities a registry can have: MinCap and what doubling makes of it.
Caps == {c \in Nat : \A S \in SUBSET Nat : (MinCap \in S /\ \A x \in S : 2 * x \in S) => c \in S}

\* The array is ordered, counted and inside its buffer, and the counter is
\* ahead of every key in it, dead buckets included.
RegOK(r) ==
  /\ r \in Reg
  /\ Ordered(r.arr)
  /\ r.sz = Cardinality(Live(r.arr))
  /\ Len(r.arr) < r.cap /\ r.cap \in Caps
  /\ r.key_id \in 1 .. KeySpace
  /\ \A i \in DOMAIN r.arr : 1 <= r.arr[i].key /\ r.arr[i].key < r.key_id

\* e has the entries and the counter of r.
SameEntries(r, e) == Entries(e.arr) = Entries(r.arr) /\ e.key_id = r.key_id

LEMMA CapsAre ==
  /\ MinCap \in Caps
  /\ \A c \in Caps : c \in Nat /\ c >= MinCap /\ 2 * c \in Caps
  /\ \A c \in Caps \ {MinCap} : c \div 2 \in Caps /\ 2 * (c \div 2) = c
<1>1. MinCap \in Caps
  BY DEF Caps
<1>2. ASSUME NEW c \in Caps PROVE c \in Nat /\ c >= MinCap /\ 2 * c \in Caps
  <2>1. c \in Nat
    BY DEF Caps
  <2>2. c >= MinCap
    <3> DEFINE S == {x \in Nat : x >= MinCap}
    <3>1. S \in SUBSET Nat /\ MinCap \in S /\ \A x \in S : 2 * x \in S
      OBVIOUS
    <3>2. c \in S
      <4> HIDE DEF S
      <4> QED BY <3>1 DEF Caps
    <3> QED BY <3>2
  <2>3. ASSUME NEW S \in SUBSET Nat, MinCap \in S, \A x \in S : 2 * x \in S PROVE 2 * c \in S
    BY <2>3 DEF Caps
  <2>4. 2 * c \in Nat
    BY <2>1
  <2> QED BY <2>1, <2>2, <2>3, <2>4 DEF Caps
<1>3. ASSUME NEW c \in Caps \ {MinCap} PROVE c \div 2 \in Caps /\ 2 * (c \div 2) = c
  <2> DEFINE S == {MinCap} \cup {2 * x : x \in Caps}
  <2>1. S \in SUBSET Nat /\ MinCap \in S
    BY <1>2
  <2>2. ASSUME NEW x \in S PROVE 2 * x \in S
    <3>1. x \in Caps
      BY <1>1, <1>2
    <3> QED BY <3>1
  <2>3. c \in S
    <3> HIDE DEF S
    <3> QED BY <2>1, <2>2 DEF Caps
  <2>4. PICK x \in Caps : c = 2 * x
    BY <2>3
  <2>5. x \in Nat
    BY <1>2
  <2>6. c \div 2 = x
    BY <2>4, <2>5
  <2> QED BY <2>4, <2>6
<1> QED BY <1>1, <1>2, <1>3

LEMMA RegTypes ==
  ASSUME NEW r, RegOK(r)
  PROVE  /\ r.arr \in Seq(Bucket) /\ r.sz \in Nat /\ r.cap \in Nat /\ r.key_id \in Nat
         /\ Len(r.arr) \in Nat /\ DOMAIN r.arr = 1 .. Len(r.arr)
         /\ \A i \in DOMAIN r.arr : r.arr[i] \in Bucket /\ r.arr[i].key \in Nat
         /\ Live(r.arr) \subseteq DOMAIN r.arr /\ IsFiniteSet(Live(r.arr))
<1>1. /\ r.arr \in Seq(Bucket) /\ r.sz \in Nat /\ r.cap \in Nat /\ r.key_id \in Nat
  BY DEF RegOK, Reg
<1>2. \A k \in 0 .. (KeySpace - 1) : k \in Nat
  OBVIOUS
<1> QED BY <1>1, <1>2, ArrTypes

(* A registry whose array was partitioned, with a capacity that holds it. *)
LEMMA PartitionedOK ==
  ASSUME NEW r, RegOK(r), NEW cap \in Caps, r.sz < cap
  PROVE  LET e == [r EXCEPT !.arr = partition(@), !.cap = cap]
         IN  /\ RegOK(e) /\ SameEntries(r, e) /\ Len(e.arr) = r.sz /\ e.sz = r.sz /\ e.cap = cap
             /\ Live(e.arr) = DOMAIN e.arr
<1>1. PICK q \in Seq(Bucket) :
           /\ q = partition(r.arr)
           /\ Len(q) = Cardinality(Live(r.arr)) /\ Live(q) = 1 .. Len(q)
           /\ Cardinality(Live(q)) = Cardinality(Live(r.arr))
           /\ Ordered(q) /\ Entries(q) = Entries(r.arr)
           /\ \A j \in DOMAIN q : \E i \in DOMAIN r.arr : q[j] = r.arr[i]
  BY RegTypes, PartitionKeeps DEF RegOK
<1>3. PICK e : e = [r EXCEPT !.arr = partition(@), !.cap = cap]
  OBVIOUS
<1>4. cap \in Nat /\ r \in Reg
  BY CapsAre DEF RegOK
<1>5. e \in Reg /\ e.arr = q /\ e.sz = r.sz /\ e.cap = cap /\ e.key_id = r.key_id
  BY <1>1, <1>3, <1>4 DEF Reg
<1>6. r.sz = Cardinality(Live(r.arr)) /\ r.key_id \in 1 .. KeySpace
      /\ \A i \in DOMAIN r.arr : 1 <= r.arr[i].key /\ r.arr[i].key < r.key_id
  BY DEF RegOK
<1>7. \A j \in DOMAIN q : 1 <= q[j].key /\ q[j].key < r.key_id
  BY <1>1, <1>6
<1>8. RegOK(e)
  BY <1>1, <1>5, <1>6, <1>7 DEF RegOK
<1>9. SameEntries(r, e) /\ Len(e.arr) = r.sz
  BY <1>1, <1>5, <1>6 DEF SameEntries
<1>10. Live(e.arr) = DOMAIN e.arr
  BY <1>1, <1>5
<1> QED BY <1>3, <1>5, <1>8, <1>9, <1>10

LEMMA CompactOK ==
  ASSUME NEW r, RegOK(r)
  PROVE  RegOK(compact_if_necessary(r)) /\ SameEntries(r, compact_if_necessary(r))
<1>1. CASE r.sz * 2 > Len(r.arr)
  BY <1>1 DEF compact_if_necessary, SameEntries
<1>2. CASE ~(r.sz * 2 > Len(r.arr))
  <2>1. [r EXCEPT !.arr = partition(@)] = [r EXCEPT !.arr = partition(@), !.cap = r.cap]
    BY RegTypes
  <2>2. r.cap \in Caps /\ r.sz < r.cap
    <3>1. r.sz \in Nat /\ r.cap \in Nat /\ Len(r.arr) \in Nat
      BY RegTypes
    <3>2. r.sz <= Len(r.arr)
      BY RegTypes, ArrTypes DEF RegOK
    <3> QED BY <3>1, <3>2 DEF RegOK
  <2> QED BY <1>2, <2>1, <2>2, PartitionedOK DEF compact_if_necessary
<1> QED BY <1>1, <1>2

LEMMA ShrinkOK ==
  ASSUME NEW r, RegOK(r)
  PROVE  RegOK(shrink_if_necessary(r)) /\ SameEntries(r, shrink_if_necessary(r))
<1>1. CASE r.cap = MinCap \/ r.sz * 4 > r.cap
  BY <1>1 DEF shrink_if_necessary, SameEntries
<1>2. CASE ~(r.cap = MinCap \/ r.sz * 4 > r.cap)
  <2>1. [r EXCEPT !.arr = partition(@), !.cap = @ \div 2]
          = [r EXCEPT !.arr = partition(@), !.cap = r.cap \div 2]
    BY RegTypes
  <2>2. r.cap \div 2 \in Caps /\ 2 * (r.cap \div 2) = r.cap
    BY <1>2, CapsAre DEF RegOK
  <2>3. PICK h \in Nat : h = r.cap \div 2 /\ h >= MinCap
    BY <2>2, CapsAre
  <2>4. r.sz < h
    BY <1>2, <2>2, <2>3, RegTypes
  <2> QED BY <1>2, <2>1, <2>2, <2>3, <2>4, PartitionedOK DEF shrink_if_necessary
<1> QED BY <1>1, <1>2

LEMMA ExpandOK ==
  ASSUME NEW r, RegOK(r)
  PROVE  LET e == expand_if_neccesary(r)
         IN  RegOK(e) /\ SameEntries(r, e) /\ Len(e.arr) < e.cap - 1
<1>0. r.sz \in Nat /\ r.cap \in Nat /\ Len(r.arr) \in Nat /\ Len(r.arr) < r.cap /\ r.sz <= Len(r.arr)
  <2>1. r.sz <= Len(r.arr)
    BY RegTypes, ArrTypes DEF RegOK
  <2> QED BY <2>1, RegTypes DEF RegOK
<1>1. CASE Len(r.arr) < r.cap - 1
  BY <1>1 DEF expand_if_neccesary, SameEntries
<1>2. CASE ~(Len(r.arr) < r.cap - 1)
  <2>1. [r EXCEPT !.arr = partition(@), !.cap = @ * 2]
          = [r EXCEPT !.arr = partition(@), !.cap = 2 * r.cap]
    <3>1. r.cap * 2 = 2 * r.cap
      BY <1>0
    <3> QED BY <3>1
  <2>2. PICK c \in Caps : c = 2 * r.cap
    BY CapsAre DEF RegOK
  <2>3. r.sz < c /\ r.sz < c - 1
    BY <1>0, <2>2
  <2>4. PICK e : e = [r EXCEPT !.arr = partition(@), !.cap = c]
    OBVIOUS
  <2>5. /\ RegOK(e) /\ SameEntries(r, e) /\ Len(e.arr) = r.sz /\ e.cap = c
    BY <2>3, <2>4, PartitionedOK
  <2>6. e = expand_if_neccesary(r)
    BY <1>2, <2>1, <2>2, <2>4 DEF expand_if_neccesary
  <2> QED BY <2>3, <2>5, <2>6
<1> QED BY <1>1, <1>2
(* Two entries with the same key are one. *)
LEMMA EntriesDiffer ==
  ASSUME NEW arr \in Seq(Bucket), Ordered(arr)
  PROVE  \A i, j \in DOMAIN arr : arr[i].key = arr[j].key => i = j
<1> SUFFICES ASSUME NEW i \in DOMAIN arr, NEW j \in DOMAIN arr, arr[i].key = arr[j].key, i # j
             PROVE  FALSE
  OBVIOUS
<1>1. i \in Nat /\ j \in Nat /\ arr[i].key \in 0 .. (KeySpace - 1) /\ arr[j].key \in 0 .. (KeySpace - 1)
  BY ArrTypes
<1>2. i < j \/ j < i
  BY <1>1
<1>3. arr[i].key < arr[j].key \/ arr[j].key < arr[i].key
  BY <1>2 DEF Ordered
<1> QED BY <1>1, <1>3

(* The erased buckets lose their value and are no longer counted. *)
LEMMA EraseBucketsOK ==
  ASSUME NEW r, RegOK(r), NEW gone
  PROVE  LET e == EraseBuckets(r, gone)
         IN  /\ RegOK(e) /\ e.key_id = r.key_id
             /\ Entries(e.arr) = {<<r.arr[i].key, r.arr[i].val>> : i \in Live(r.arr) \ gone}
<1> DEFINE a == [i \in DOMAIN r.arr |-> [r.arr[i] EXCEPT !.has_value = r.arr[i].has_value /\ i \notin gone]]
           n == r.sz - Cardinality(gone \cap Live(r.arr))
<1>1. PICK e : e = EraseBuckets(r, gone)
  OBVIOUS
<1>2. e = [r EXCEPT !.arr = a, !.sz = n]
  BY <1>1, Zenon DEF EraseBuckets
<1>3. /\ r \in Reg /\ Len(r.arr) \in Nat /\ DOMAIN r.arr = 1 .. Len(r.arr)
      /\ \A i \in DOMAIN r.arr : r.arr[i] \in Bucket
      /\ Live(r.arr) \subseteq DOMAIN r.arr /\ IsFiniteSet(Live(r.arr))
  BY RegTypes DEF RegOK
<1>4. \A i \in DOMAIN r.arr : /\ a[i] \in Bucket /\ a[i].key = r.arr[i].key /\ a[i].val = r.arr[i].val
                              /\ a[i].has_value = (r.arr[i].has_value /\ i \notin gone)
  BY <1>3 DEF Bucket
<1>5. a \in Seq(Bucket) /\ Len(a) = Len(r.arr) /\ DOMAIN a = DOMAIN r.arr
  <2>1. DOMAIN a = 1 .. Len(r.arr)
    BY <1>3
  <2>2. a \in [1 .. Len(r.arr) -> Bucket]
    BY <1>3, <1>4
  <2> HIDE DEF a
  <2> QED BY <1>3, <2>1, <2>2
<1> HIDE DEF a
<1>6. Live(a) = Live(r.arr) \ gone
  BY <1>4, <1>5 DEF Live
<1>7. n \in Nat /\ n = Cardinality(Live(a))
  <2>1. Cardinality(Live(a)) = Cardinality(Live(r.arr)) - Cardinality(Live(r.arr) \cap gone)
    BY <1>3, <1>6, FS_Difference
  <2>2. Live(r.arr) \cap gone = gone \cap Live(r.arr)
    OBVIOUS
  <2>3. r.sz = Cardinality(Live(r.arr))
    BY DEF RegOK
  <2>4. Cardinality(Live(a)) \in Nat
    BY <1>3, <1>6, FS_Difference, FS_CardinalityType
  <2> QED BY <2>1, <2>2, <2>3, <2>4
<1> HIDE DEF n
<1>8. e \in Reg /\ e.arr = a /\ e.sz = n /\ e.cap = r.cap /\ e.key_id = r.key_id
  BY <1>2, <1>3, <1>5, <1>7 DEF Reg
<1>9. /\ Ordered(a) /\ Len(a) < r.cap /\ r.cap \in Caps /\ r.key_id \in 1 .. KeySpace
      /\ \A i \in DOMAIN a : 1 <= a[i].key /\ a[i].key < r.key_id
  BY <1>4, <1>5 DEF RegOK, Ordered
<1>10. RegOK(e)
  BY <1>7, <1>8, <1>9 DEF RegOK
<1>11. Entries(a) = {<<r.arr[i].key, r.arr[i].val>> : i \in Live(r.arr) \ gone}
  BY <1>3, <1>4, <1>6 DEF Entries
<1> QED BY <1>1, <1>8, <1>10, <1>11

(* Erasing, compacting and shrinking, as assoc_reg_erase and                  *)
(* remove_if_range_reg do it.                                                 *)
LEMMA EraseOK ==
  ASSUME NEW r, RegOK(r), NEW gone
  PROVE  LET e == shrink_if_necessary(compact_if_necessary(EraseBuckets(r, gone)))
         IN  /\ RegOK(e) /\ e.key_id = r.key_id
             /\ Entries(e.arr) = {<<r.arr[i].key, r.arr[i].val>> : i \in Live(r.arr) \ gone}
<1>1. PICK b : b = EraseBuckets(r, gone)
  OBVIOUS
<1>2. PICK c : c = compact_if_necessary(b)
  OBVIOUS
<1>3. PICK e : e = shrink_if_necessary(c)
  OBVIOUS
<1>4. /\ RegOK(b) /\ b.key_id = r.key_id
      /\ Entries(b.arr) = {<<r.arr[i].key, r.arr[i].val>> : i \in Live(r.arr) \ gone}
  BY <1>1, EraseBucketsOK
<1>5. RegOK(c) /\ SameEntries(b, c)
  BY <1>2, <1>4, CompactOK
<1>6. RegOK(e) /\ SameEntries(c, e)
  BY <1>3, <1>5, ShrinkOK
<1>7. Entries(e.arr) = Entries(b.arr) /\ e.key_id = r.key_id
  BY <1>4, <1>5, <1>6 DEF SameEntries
<1> QED BY <1>1, <1>2, <1>3, <1>4, <1>6, <1>7

(* A new entry gets the counter as its key, while that fits the key. *)
LEMMA PushOK ==
  ASSUME NEW r, RegOK(r), NEW v \in Values, r.key_id < KeySpace
  PROVE  LET e == assoc_reg_push_back(r, v)
         IN  /\ RegOK(e) /\ e.key_id = r.key_id + 1
             /\ Entries(e.arr) = Entries(r.arr) \cup {<<r.key_id, v>>}
<1>1. PICK x : x = expand_if_neccesary(r)
  OBVIOUS
<1>2. RegOK(x) /\ SameEntries(r, x) /\ Len(x.arr) < x.cap - 1
  BY <1>1, ExpandOK
<1>3. PICK k \in Nat : k = r.key_id /\ k = x.key_id /\ 1 <= k /\ k < KeySpace
  BY <1>2, RegTypes DEF SameEntries, RegOK
<1>4. k % KeySpace = k
  BY <1>3
<1>5. PICK b \in Bucket : b = [key |-> k, has_value |-> TRUE, val |-> v]
  <2>1. k \in 0 .. (KeySpace - 1)
    BY <1>3
  <2> QED BY <2>1 DEF Bucket
<1>6. /\ x \in Reg /\ x.arr \in Seq(Bucket) /\ Len(x.arr) \in Nat /\ x.sz \in Nat /\ x.cap \in Nat
      /\ DOMAIN x.arr = 1 .. Len(x.arr)
      /\ Live(x.arr) \subseteq DOMAIN x.arr /\ IsFiniteSet(Live(x.arr))
  BY <1>2, RegTypes DEF RegOK
<1>7. PICK a : a = Append(x.arr, b)
  OBVIOUS
<1>8. /\ a \in Seq(Bucket) /\ Len(a) = Len(x.arr) + 1 /\ DOMAIN a = 1 .. Len(x.arr) + 1
      /\ \A i \in 1 .. Len(x.arr) : a[i] = x.arr[i]
      /\ a[Len(x.arr) + 1] = b
  BY <1>6, <1>7
<1>9. PICK e : e = assoc_reg_push_back(r, v)
  OBVIOUS
<1>10. e = [x EXCEPT !.arr = a, !.key_id = @ + 1, !.sz = @ + 1]
  BY <1>1, <1>3, <1>4, <1>5, <1>7, <1>9 DEF assoc_reg_push_back
<1>11. e \in Reg /\ e.arr = a /\ e.sz = x.sz + 1 /\ e.cap = x.cap /\ e.key_id = k + 1
  <2>1. PICK k1 \in Nat, s1 \in Nat : k1 = k + 1 /\ s1 = x.sz + 1
    <3>1. k + 1 \in Nat /\ x.sz + 1 \in Nat
      BY <1>6
    <3> QED BY <3>1, Zenon
  <2>2. e = [x EXCEPT !.arr = a, !.key_id = k1, !.sz = s1]
    BY <1>3, <1>10, <2>1
  <2>3. e \in Reg /\ e.arr = a /\ e.sz = s1 /\ e.cap = x.cap /\ e.key_id = k1
    BY <1>6, <1>8, <2>2 DEF Reg
  <2> QED BY <2>1, <2>3
<1>12. b.key = k /\ b.has_value /\ b.val = v
  <2>1. b.key = k /\ b.val = v
    BY <1>5
  <2>2. b.has_value = TRUE
    BY <1>5
  <2> QED BY <2>1, <2>2
<1>13. Live(a) = Live(x.arr) \cup {Len(x.arr) + 1} /\ Len(x.arr) + 1 \notin Live(x.arr)
  <2>1. Len(x.arr) + 1 \notin DOMAIN x.arr /\ DOMAIN a = DOMAIN x.arr \cup {Len(x.arr) + 1}
    BY <1>6, <1>8
  <2> QED BY <1>6, <1>8, <1>12, <2>1 DEF Live
<1>14. Cardinality(Live(a)) = x.sz + 1
  <2>1. x.sz = Cardinality(Live(x.arr))
    BY <1>2 DEF RegOK
  <2>2. Cardinality(Live(x.arr) \cup {Len(x.arr) + 1}) = Cardinality(Live(x.arr)) + 1
    BY <1>6, <1>13, FS_AddElement
  <2> QED BY <1>13, <2>1, <2>2
<1>15. \A i \in DOMAIN x.arr : 1 <= x.arr[i].key /\ x.arr[i].key < k /\ x.arr[i].key \in Nat
  BY <1>2, <1>3, RegTypes DEF RegOK
<1>16. \A i \in DOMAIN a : 1 <= a[i].key /\ a[i].key < k + 1
  <2> SUFFICES ASSUME NEW i \in DOMAIN a PROVE 1 <= a[i].key /\ a[i].key < k + 1
    OBVIOUS
  <2>1. CASE i = Len(x.arr) + 1
    BY <1>3, <1>8, <1>12, <2>1
  <2>2. CASE i # Len(x.arr) + 1
    <3>1. i \in DOMAIN x.arr /\ a[i] = x.arr[i]
      BY <1>6, <1>8, <2>2
    <3> QED BY <1>15, <3>1
  <2> QED BY <2>1, <2>2
<1>17. Ordered(a)
  <2> SUFFICES ASSUME NEW i \in DOMAIN a, NEW j \in DOMAIN a, i < j PROVE a[i].key < a[j].key
    BY DEF Ordered
  <2>1. i \in DOMAIN x.arr /\ a[i] = x.arr[i]
    BY <1>6, <1>8
  <2>2. CASE j = Len(x.arr) + 1
    BY <1>8, <1>12, <1>15, <2>1, <2>2
  <2>3. CASE j # Len(x.arr) + 1
    <3>1. j \in DOMAIN x.arr /\ a[j] = x.arr[j]
      BY <1>6, <1>8, <2>3
    <3> QED BY <1>2, <2>1, <3>1 DEF RegOK, Ordered
  <2> QED BY <2>2, <2>3
<1>18. RegOK(e)
  <2>1. Len(a) < x.cap /\ x.cap \in Caps /\ k + 1 \in 1 .. KeySpace
    BY <1>2, <1>3, <1>6, <1>8 DEF RegOK
  <2> QED BY <1>11, <1>14, <1>16, <1>17, <2>1 DEF RegOK
<1>19. Entries(a) = Entries(x.arr) \cup {<<k, v>>}
  <2>1. Entries(a) = {<<a[i].key, a[i].val>> : i \in Live(x.arr)} \cup {<<a[Len(x.arr) + 1].key, a[Len(x.arr) + 1].val>>}
    BY <1>13 DEF Entries
  <2>2. \A i \in Live(x.arr) : a[i] = x.arr[i]
    BY <1>6, <1>8
  <2>3. {<<a[i].key, a[i].val>> : i \in Live(x.arr)} = Entries(x.arr)
    BY <2>2 DEF Entries
  <2> QED BY <1>8, <1>12, <2>1, <2>3
<1>20. Entries(e.arr) = Entries(r.arr) \cup {<<r.key_id, v>>}
  BY <1>2, <1>3, <1>11, <1>19 DEF SameEntries
<1> QED BY <1>3, <1>9, <1>11, <1>18, <1>20
(* Writing through an iterator changes the value of its key. *)
LEMMA SetOK ==
  ASSUME NEW r, RegOK(r), NEW i \in Live(r.arr), NEW v \in Values
  PROVE  LET e == assoc_reg_value_set(r, i, v)
         IN  /\ RegOK(e) /\ e.key_id = r.key_id
             /\ Entries(e.arr) = {<<r.arr[j].key, IF j = i THEN v ELSE r.arr[j].val>> : j \in Live(r.arr)}
<1> DEFINE a == [r.arr EXCEPT ![i].val = v]
<1>1. PICK e : e = assoc_reg_value_set(r, i, v)
  OBVIOUS
<1>2. /\ r \in Reg /\ Len(r.arr) \in Nat /\ DOMAIN r.arr = 1 .. Len(r.arr) /\ r.arr \in Seq(Bucket)
      /\ \A j \in DOMAIN r.arr : r.arr[j] \in Bucket
      /\ Live(r.arr) \subseteq DOMAIN r.arr
  BY RegTypes DEF RegOK
<1>3. e = [r EXCEPT !.arr = a]
  BY <1>1, <1>2 DEF assoc_reg_value_set, Reg
<1>4. \A j \in DOMAIN r.arr : /\ a[j] \in Bucket /\ a[j].key = r.arr[j].key
                              /\ a[j].has_value = r.arr[j].has_value
                              /\ a[j].val = IF j = i THEN v ELSE r.arr[j].val
  <2> SUFFICES ASSUME NEW j \in DOMAIN r.arr
               PROVE  /\ a[j] \in Bucket /\ a[j].key = r.arr[j].key
                      /\ a[j].has_value = r.arr[j].has_value
                      /\ a[j].val = IF j = i THEN v ELSE r.arr[j].val
    OBVIOUS
  <2>1. CASE j = i
    BY <1>2, <2>1 DEF Bucket
  <2>2. CASE j # i
    BY <1>2, <2>2
  <2> QED BY <2>1, <2>2
<1>5. a \in Seq(Bucket) /\ Len(a) = Len(r.arr) /\ DOMAIN a = DOMAIN r.arr
  <2>1. DOMAIN a = 1 .. Len(r.arr)
    BY <1>2
  <2>2. a \in [1 .. Len(r.arr) -> Bucket]
    BY <1>2, <1>4
  <2> HIDE DEF a
  <2> QED BY <1>2, <2>1, <2>2
<1> HIDE DEF a
<1>6. Live(a) = Live(r.arr)
  BY <1>4, <1>5 DEF Live
<1>7. e \in Reg /\ e.arr = a /\ e.sz = r.sz /\ e.cap = r.cap /\ e.key_id = r.key_id
  BY <1>2, <1>3, <1>5 DEF Reg
<1>8. Ordered(a) /\ \A j \in DOMAIN a : 1 <= a[j].key /\ a[j].key < r.key_id
  BY <1>4, <1>5 DEF RegOK, Ordered
<1>9. RegOK(e)
  BY <1>5, <1>6, <1>7, <1>8 DEF RegOK
<1>10. Entries(a) = {<<r.arr[j].key, IF j = i THEN v ELSE r.arr[j].val>> : j \in Live(r.arr)}
  BY <1>2, <1>4, <1>6 DEF Entries
<1> QED BY <1>1, <1>7, <1>9, <1>10

(* for_each_reg gives every key the value. *)
LEMMA ForEachOK ==
  ASSUME NEW r, RegOK(r), NEW v \in Values
  PROVE  LET e == for_each_reg_set(r, v)
         IN  /\ RegOK(e) /\ e.key_id = r.key_id
             /\ Entries(e.arr) = {<<r.arr[j].key, v>> : j \in Live(r.arr)}
<1> DEFINE a == [i \in DOMAIN r.arr |-> IF r.arr[i].has_value THEN [r.arr[i] EXCEPT !.val = v] ELSE r.arr[i]]
<1>1. PICK e : e = for_each_reg_set(r, v)
  OBVIOUS
<1>2. /\ r \in Reg /\ Len(r.arr) \in Nat /\ DOMAIN r.arr = 1 .. Len(r.arr) /\ r.arr \in Seq(Bucket)
      /\ \A j \in DOMAIN r.arr : r.arr[j] \in Bucket
      /\ Live(r.arr) \subseteq DOMAIN r.arr
  BY RegTypes DEF RegOK
<1>3. e = [r EXCEPT !.arr = a]
  BY <1>1 DEF for_each_reg_set
<1>4. \A j \in DOMAIN r.arr : /\ a[j] \in Bucket /\ a[j].key = r.arr[j].key
                              /\ a[j].has_value = r.arr[j].has_value
                              /\ r.arr[j].has_value => a[j].val = v
  BY <1>2 DEF Bucket
<1>5. a \in Seq(Bucket) /\ Len(a) = Len(r.arr) /\ DOMAIN a = DOMAIN r.arr
  <2>1. DOMAIN a = 1 .. Len(r.arr)
    BY <1>2
  <2>2. a \in [1 .. Len(r.arr) -> Bucket]
    BY <1>2, <1>4
  <2> HIDE DEF a
  <2> QED BY <1>2, <2>1, <2>2
<1> HIDE DEF a
<1>6. Live(a) = Live(r.arr)
  BY <1>4, <1>5 DEF Live
<1>7. e \in Reg /\ e.arr = a /\ e.sz = r.sz /\ e.cap = r.cap /\ e.key_id = r.key_id
  BY <1>2, <1>3, <1>5 DEF Reg
<1>8. Ordered(a) /\ \A j \in DOMAIN a : 1 <= a[j].key /\ a[j].key < r.key_id
  BY <1>4, <1>5 DEF RegOK, Ordered
<1>9. RegOK(e)
  BY <1>5, <1>6, <1>7, <1>8 DEF RegOK
<1>10. Entries(a) = {<<r.arr[j].key, v>> : j \in Live(r.arr)}
  <2>1. \A j \in Live(r.arr) : a[j].key = r.arr[j].key /\ a[j].val = v
    BY <1>4 DEF Live
  <2> QED BY <1>6, <2>1 DEF Entries
<1> QED BY <1>1, <1>7, <1>9, <1>10

(* find_reg finds the bucket of a registered key, and the end for any other   *)
(* key.                                                                       *)
LEMMA FindIs ==
  ASSUME NEW r, RegOK(r), NEW key \in Nat
  PROVE  /\ \A i \in Live(r.arr) : r.arr[i].key = key => find_reg(r, key) = i
         /\ (\A i \in Live(r.arr) : r.arr[i].key # key) => find_reg(r, key) = assoc_reg_end(r)
<1>0. /\ r.arr \in Seq(Bucket) /\ Ordered(r.arr) /\ Len(r.arr) \in Nat /\ DOMAIN r.arr = 1 .. Len(r.arr)
      /\ Live(r.arr) \subseteq DOMAIN r.arr /\ \A i \in DOMAIN r.arr : r.arr[i].key \in Nat
  BY RegTypes DEF RegOK
<1>1. PICK front : front = assoc_reg_front(r)
  OBVIOUS
<1>2. front \in 1 .. Len(r.arr) + 1 /\ \A i \in Live(r.arr) : front <= i
  <2>1. CASE Live(r.arr) = {}
    BY <1>0, <1>1, <2>1 DEF assoc_reg_front, assoc_reg_end
  <2>2. CASE Live(r.arr) # {}
    <3>1. Live(r.arr) \subseteq Nat
      BY <1>0
    <3>2. PICK m \in Live(r.arr) : \A k \in Live(r.arr) : ~(<<k, m>> \in OpToRel(<, Nat))
      BY <2>2, <3>1, NatLessThanWellFounded, WFMin
    <3>3. \A k \in Live(r.arr) : m <= k
      <4> SUFFICES ASSUME NEW k \in Live(r.arr), ~(m <= k) PROVE FALSE
        OBVIOUS
      <4>1. k \in Nat /\ m \in Nat
        BY <3>1
      <4>2. k < m
        BY <4>1
      <4>3. <<k, m>> \in OpToRel(<, Nat)
        BY <4>1, <4>2 DEF OpToRel
      <4> QED BY <3>2, <4>3
    <3>4. front = CHOOSE i \in Live(r.arr) : \A j \in Live(r.arr) : i <= j
      BY <1>1, <2>2 DEF assoc_reg_front
    <3>5. front \in Live(r.arr) /\ \A j \in Live(r.arr) : front <= j
      BY <3>3, <3>4
    <3> QED BY <1>0, <3>5
  <2> QED BY <2>1, <2>2
<1>3. PICK it : it = lower_bound_reg(r, front, key)
  OBVIOUS
<1>4. IsBound(r.arr, key, <<front, Len(r.arr) + 1 - front>>, it)
  BY <1>0, <1>2, <1>3, LowerBoundIs
<1>5. /\ it \in front .. Len(r.arr) + 1
      /\ \A i \in front .. it - 1 : r.arr[i].key < key
      /\ \A i \in it .. Len(r.arr) : ~(r.arr[i].key < key)
  <2>1. front + (Len(r.arr) + 1 - front) = Len(r.arr) + 1 /\ (Len(r.arr) + 1) - 1 = Len(r.arr)
    BY <1>0, <1>2
  <2>2. PICK n : n = Len(r.arr) + 1 - front
    OBVIOUS
  <2>3. PICK w : w = <<front, n>>
    OBVIOUS
  <2>4. w[1] = front /\ w[2] = n /\ IsBound(r.arr, key, w, it)
    BY <1>4, <2>2, <2>3
  <2>5. /\ it \in w[1] .. (w[1] + w[2])
        /\ \A i \in w[1] .. (it - 1) : r.arr[i].key < key
        /\ \A i \in it .. (w[1] + w[2] - 1) : ~(r.arr[i].key < key)
    BY <2>4 DEF IsBound
  <2>6. w[1] + w[2] = Len(r.arr) + 1 /\ w[1] + w[2] - 1 = Len(r.arr)
    <3>1. front + n = Len(r.arr) + 1 /\ front + n - 1 = Len(r.arr)
      <4>1. front \in Int /\ Len(r.arr) \in Int
        BY <1>0, <1>2
      <4> QED BY <4>1, <2>2
    <3> QED BY <2>4, <3>1
  <2> QED BY <2>4, <2>5, <2>6
<1>6. find_reg(r, key) = IF it = Len(r.arr) + 1 \/ ~r.arr[it].has_value \/ r.arr[it].key # key
                         THEN Len(r.arr) + 1 ELSE it
  BY <1>1, <1>3 DEF find_reg, assoc_reg_end
<1>7. ASSUME NEW i \in Live(r.arr), r.arr[i].key = key PROVE find_reg(r, key) = i
  <2>1. i \in front .. Len(r.arr) /\ i \in DOMAIN r.arr /\ it \in Nat /\ i \in Nat
    BY <1>0, <1>2, <1>5
  <2>2. it = i
    <3>1. ~(i < it)
      <4> SUFFICES ASSUME i < it PROVE FALSE
        OBVIOUS
      <4>1. i \in front .. it - 1
        BY <2>1
      <4> QED BY <1>0, <1>5, <1>7, <2>1, <4>1
    <3>2. ~(it < i)
      <4> SUFFICES ASSUME it < i PROVE FALSE
        OBVIOUS
      <4>1. it \in it .. Len(r.arr) /\ it \in DOMAIN r.arr
        BY <1>0, <1>2, <1>5, <2>1
      <4>2. r.arr[it].key < r.arr[i].key
        BY <1>0, <2>1, <4>1 DEF Ordered
      <4> QED BY <1>5, <1>7, <4>1, <4>2
    <3> QED BY <2>1, <3>1, <3>2
  <2>3. r.arr[i].has_value /\ it # Len(r.arr) + 1
    BY <1>0, <2>1, <2>2 DEF Live
  <2> QED BY <1>6, <1>7, <2>2, <2>3
<1>8. ASSUME \A i \in Live(r.arr) : r.arr[i].key # key PROVE find_reg(r, key) = assoc_reg_end(r)
  <2>1. it \in DOMAIN r.arr /\ r.arr[it].has_value => r.arr[it].key # key
    BY <1>8 DEF Live
  <2>2. it = Len(r.arr) + 1 \/ it \in DOMAIN r.arr
    <3>1. it \in front .. Len(r.arr) + 1 /\ front \in 1 .. Len(r.arr) + 1 /\ Len(r.arr) \in Nat
      BY <1>0, <1>2, <1>5
    <3>2. it = Len(r.arr) + 1 \/ it \in 1 .. Len(r.arr)
      BY <3>1
    <3> QED BY <1>0, <3>2
  <2> QED BY <1>6, <2>1, <2>2 DEF assoc_reg_end
<1> QED BY <1>7, <1>8

-----------------------------------------------------------------------------
(***************************************************************************)
(* The machine: every operation keeps RegOK, as long as the 32-bit keys    *)
(* have not wrapped around.                                                *)
(***************************************************************************)

LEMMA RegInitOK == RegInit => RegOK(reg) /\ Entries(reg.arr) = {} /\ reg.key_id = 1
<1> SUFFICES ASSUME RegInit PROVE RegOK(reg) /\ Entries(reg.arr) = {} /\ reg.key_id = 1
  OBVIOUS
<1>1. /\ reg \in Reg /\ reg.arr = << >> /\ reg.sz = 0 /\ reg.cap = MinCap /\ reg.key_id = 1
  BY DEF RegInit, assoc_reg_init, Reg
<1>2. Live(reg.arr) = {} /\ DOMAIN reg.arr = {} /\ Len(reg.arr) = 0
  BY <1>1 DEF Live
<1>3. Cardinality(Live(reg.arr)) = 0
  BY <1>2, FS_EmptySet
<1>4. MinCap \in Caps /\ 0 < MinCap /\ 1 \in 1 .. KeySpace
  BY CapsAre
<1>5. RegOK(reg)
  BY <1>1, <1>2, <1>3, <1>4 DEF RegOK, Ordered
<1>6. Entries(reg.arr) = {}
  BY <1>2 DEF Entries
<1> QED BY <1>1, <1>5, <1>6

(* The iterator a successful find_reg returns. *)
LEMMA Found ==
  ASSUME NEW r, RegOK(r), NEW key \in Nat, find_reg(r, key) # assoc_reg_end(r)
  PROVE  find_reg(r, key) \in Live(r.arr) /\ r.arr[find_reg(r, key)].key = key
<1>1. PICK i \in Live(r.arr) : r.arr[i].key = key
  BY FindIs
<1>2. find_reg(r, key) = i
  BY <1>1, FindIs
<1> QED BY <1>1, <1>2

LEMMA RegNextOK ==
  ASSUME MaxKeyId <= KeySpace, RegOK(reg), [RegNext]_reg
  PROVE  RegOK(reg)'
<1> SUFFICES RegOK(reg')
  BY DEF RegOK, Reg, Ordered, Live
<1>0. reg.key_id \in Nat
  BY RegTypes
<1>1. ASSUME NEW v \in Values, PushBack(v) PROVE RegOK(reg')
  <2>1. reg.key_id < KeySpace
    BY <1>0, <1>1 DEF PushBack
  <2> QED BY <1>1, <2>1, PushOK DEF PushBack
<1>2. ASSUME NEW v \in Values, ForEachSet(v) PROVE RegOK(reg')
  BY <1>2, ForEachOK DEF ForEachSet
<1>3. ASSUME NEW key \in 1 .. MaxKeyId, NEW v \in Values, WriteFound(key, v) PROVE RegOK(reg')
  <2>1. key \in Nat
    OBVIOUS
  <2>2. find_reg(reg, key) \in Live(reg.arr)
    BY <1>3, <2>1, Found DEF WriteFound
  <2> QED BY <1>3, <2>2, SetOK DEF WriteFound
<1>4. ASSUME NEW first, NEW last, EraseRange(first, last) PROVE RegOK(reg')
  BY <1>4, EraseOK DEF EraseRange, assoc_reg_erase
<1>5. ASSUME NEW S, RemoveIf(S) PROVE RegOK(reg')
  BY <1>5, EraseOK DEF RemoveIf, remove_if_range_reg
<1>6. CASE UNCHANGED reg
  BY <1>6
<1> QED BY <1>1, <1>2, <1>3, <1>4, <1>5, <1>6 DEF RegNext

(* As long as the 32-bit keys have not wrapped around, after any sequence of  *)
(* registrations, erasures, removals and writes the array of assoc_reg.c is   *)
(* in the order of its keys, dead buckets included, sz counts the live ones,  *)
(* the end iterator is inside the buffer, and the binary search of find_reg   *)
(* finds every registered key and no other.                                   *)
THEOREM SearchesFind ==
  ASSUME MaxKeyId <= KeySpace
  PROVE  RegSpec => []RegistryInvariant
<1>1. RegOK(reg) => RegistryInvariant
  <2> SUFFICES ASSUME RegOK(reg) PROVE RegistryInvariant
    OBVIOUS
  <2>1. RegTypeOK
    BY RegTypes DEF RegTypeOK
  <2>2. MonotonicOrder /\ CountsAndRoom
    BY DEF MonotonicOrder, CountsAndRoom, RegOK, Ordered
  <2>3. FindCorrect
    <3> SUFFICES ASSUME NEW key \in 1 .. MaxKeyId
                 PROVE  IF \E i \in Live(reg.arr) : reg.arr[i].key = key
                        THEN /\ find_reg(reg, key) \in Live(reg.arr)
                             /\ reg.arr[find_reg(reg, key)].key = key
                        ELSE find_reg(reg, key) = assoc_reg_end(reg)
      BY DEF FindCorrect
    <3>1. key \in Nat
      OBVIOUS
    <3> QED BY <3>1, FindIs
  <2> QED BY <2>1, <2>2, <2>3 DEF RegistryInvariant
<1>2. RegInit => RegOK(reg)
  BY RegInitOK
<1>3. RegOK(reg) /\ [RegNext]_reg => RegOK(reg)'
  BY RegNextOK
<1> QED BY <1>1, <1>2, <1>3, PTL DEF RegSpec

-----------------------------------------------------------------------------
(***************************************************************************)
(* The array implements the map.                                           *)
(***************************************************************************)
\* The map a registry stands for.
ContentOf(r) ==
  [k \in {r.arr[i].key : i \in Live(r.arr)} |->
     r.arr[CHOOSE i \in Live(r.arr) : r.arr[i].key = k].val]

\* The entries of r without those of `gone', and with the keys of K written;
\* and what becomes of a map that keeps the keys of K, gets a key, or has the
\* keys of K written.
Without(r, gone) == {<<r.arr[i].key, r.arr[i].val>> : i \in Live(r.arr) \ gone}
Rewritten(r, K, v) ==
  {<<r.arr[i].key, IF r.arr[i].key \in K THEN v ELSE r.arr[i].val>> : i \in Live(r.arr)}
MapKept(m, K) == [k \in DOMAIN m \cap K |-> m[k]]
MapPlus(m, id, v) == [k \in DOMAIN m \cup {id} |-> IF k = id THEN v ELSE m[k]]
MapWritten(m, K, v) == [k \in DOMAIN m |-> IF k \in K THEN v ELSE m[k]]

(* The map has the keys of the live buckets and, keys being distinct, the     *)
(* value of each.                                                             *)
LEMMA ContentIs ==
  ASSUME NEW r, RegOK(r)
  PROVE  /\ DOMAIN ContentOf(r) = {r.arr[i].key : i \in Live(r.arr)}
         /\ \A i \in Live(r.arr) : ContentOf(r)[r.arr[i].key] = r.arr[i].val
         /\ \A k \in DOMAIN ContentOf(r) : /\ k \in Nat /\ 1 <= k /\ k < r.key_id
                                          /\ \E i \in Live(r.arr) : r.arr[i].key = k
<1>1. DOMAIN ContentOf(r) = {r.arr[i].key : i \in Live(r.arr)}
  BY DEF ContentOf
<1>2. /\ r.arr \in Seq(Bucket) /\ Ordered(r.arr) /\ Live(r.arr) \subseteq DOMAIN r.arr
      /\ \A i \in DOMAIN r.arr : r.arr[i].key \in Nat /\ 1 <= r.arr[i].key /\ r.arr[i].key < r.key_id
  BY RegTypes DEF RegOK
<1>3. ASSUME NEW i \in Live(r.arr) PROVE ContentOf(r)[r.arr[i].key] = r.arr[i].val
  <2>1. PICK j : j = CHOOSE h \in Live(r.arr) : r.arr[h].key = r.arr[i].key
    OBVIOUS
  <2>2. j \in Live(r.arr) /\ r.arr[j].key = r.arr[i].key
    BY <2>1
  <2>3. j = i
    BY <1>2, <2>2, EntriesDiffer
  <2>4. ContentOf(r)[r.arr[i].key] = r.arr[j].val
    BY <2>1 DEF ContentOf
  <2> QED BY <2>3, <2>4
<1>4. \A k \in DOMAIN ContentOf(r) : \E i \in Live(r.arr) : r.arr[i].key = k
  BY <1>1
<1> QED BY <1>1, <1>2, <1>3, <1>4

(* The entries determine the map. *)
LEMMA ContentFrom ==
  ASSUME NEW r, RegOK(r), NEW K, NEW m, m = [k \in K |-> m[k]],
         Entries(r.arr) = {<<k, m[k]>> : k \in K}
  PROVE  ContentOf(r) = m
<1>1. \A i \in Live(r.arr) : r.arr[i].key \in K /\ r.arr[i].val = m[r.arr[i].key]
  <2> SUFFICES ASSUME NEW i \in Live(r.arr)
               PROVE  r.arr[i].key \in K /\ r.arr[i].val = m[r.arr[i].key]
    OBVIOUS
  <2>1. <<r.arr[i].key, r.arr[i].val>> \in Entries(r.arr)
    BY DEF Entries
  <2>2. PICK k \in K : <<r.arr[i].key, r.arr[i].val>> = <<k, m[k]>>
    BY <2>1
  <2> QED BY <2>2
<1>2. \A k \in K : \E i \in Live(r.arr) : r.arr[i].key = k
  <2> SUFFICES ASSUME NEW k \in K PROVE \E i \in Live(r.arr) : r.arr[i].key = k
    OBVIOUS
  <2>1. <<k, m[k]>> \in Entries(r.arr)
    OBVIOUS
  <2>2. PICK i \in Live(r.arr) : <<k, m[k]>> = <<r.arr[i].key, r.arr[i].val>>
    BY <2>1 DEF Entries
  <2> QED BY <2>2
<1>3. DOMAIN ContentOf(r) = K
  <2>1. {r.arr[i].key : i \in Live(r.arr)} = K
    BY <1>1, <1>2
  <2> QED BY <2>1, ContentIs
<1>4. \A k \in K : ContentOf(r)[k] = m[k]
  <2> SUFFICES ASSUME NEW k \in K PROVE ContentOf(r)[k] = m[k]
    OBVIOUS
  <2>1. PICK i \in Live(r.arr) : r.arr[i].key = k
    BY <1>2
  <2> QED BY <1>1, <2>1, ContentIs
<1>5. ContentOf(r) = [k \in DOMAIN ContentOf(r) |-> ContentOf(r)[k]]
  BY DEF ContentOf
<1> QED BY <1>3, <1>4, <1>5

(* Erasing buckets takes exactly their keys out of the map. *)
LEMMA ContentKept ==
  ASSUME NEW r, RegOK(r), NEW e, RegOK(e), NEW gone, NEW K,
         Entries(e.arr) = Without(r, gone),
         \A i \in Live(r.arr) : i \in gone <=> r.arr[i].key \notin K
  PROVE  ContentOf(e) = MapKept(ContentOf(r), K)
<1>1. PICK D : D = DOMAIN ContentOf(r) \cap K
  OBVIOUS
<1>2. PICK m : m = [k \in D |-> ContentOf(r)[k]]
  OBVIOUS
<1>3. m = [k \in D |-> m[k]] /\ \A k \in D : m[k] = ContentOf(r)[k]
  BY <1>2
<1>4. \A k : k \in D <=> \E i \in Live(r.arr) : r.arr[i].key = k /\ i \notin gone
  <2> SUFFICES ASSUME NEW k
               PROVE  k \in D <=> \E i \in Live(r.arr) : r.arr[i].key = k /\ i \notin gone
    OBVIOUS
  <2>1. k \in D => \E i \in Live(r.arr) : r.arr[i].key = k /\ i \notin gone
    <3> SUFFICES ASSUME k \in D PROVE \E i \in Live(r.arr) : r.arr[i].key = k /\ i \notin gone
      OBVIOUS
    <3>1. k \in DOMAIN ContentOf(r) /\ k \in K
      BY <1>1
    <3>2. PICK i \in Live(r.arr) : r.arr[i].key = k
      BY <3>1, ContentIs
    <3> QED BY <3>1, <3>2
  <2>2. ASSUME NEW i \in Live(r.arr), r.arr[i].key = k, i \notin gone PROVE k \in D
    <3>1. k \in K
      BY <2>2
    <3>2. k \in DOMAIN ContentOf(r)
      <4>1. k \in {r.arr[j].key : j \in Live(r.arr)}
        BY <2>2
      <4> QED BY <4>1, ContentIs
    <3> QED BY <1>1, <3>1, <3>2
  <2> QED BY <2>1, <2>2
<1>5. ASSUME NEW p \in Entries(e.arr) PROVE p \in {<<k, m[k]>> : k \in D}
  <2>1. PICK i \in Live(r.arr) \ gone : p = <<r.arr[i].key, r.arr[i].val>>
    BY <1>5 DEF Without
  <2>2. r.arr[i].key \in D
    BY <1>4
  <2>3. m[r.arr[i].key] = r.arr[i].val
    BY <1>3, <2>2, ContentIs
  <2> QED BY <2>1, <2>2, <2>3
<1>6. ASSUME NEW k \in D PROVE <<k, m[k]>> \in Entries(e.arr)
  <2>1. PICK i \in Live(r.arr) : r.arr[i].key = k /\ i \notin gone
    BY <1>4
  <2>2. m[k] = r.arr[i].val
    BY <1>3, <2>1, ContentIs
  <2> QED BY <2>1, <2>2 DEF Without
<1>7. Entries(e.arr) = {<<k, m[k]>> : k \in D}
  BY <1>5, <1>6
<1>8. ContentOf(e) = m
  BY <1>3, <1>7, ContentFrom
<1> QED BY <1>1, <1>2, <1>8 DEF MapKept

(* A registration adds its key. *)
LEMMA ContentPushed ==
  ASSUME NEW r, RegOK(r), NEW e, RegOK(e), NEW v,
         Entries(e.arr) = Entries(r.arr) \cup {<<r.key_id, v>>}
  PROVE  ContentOf(e) = MapPlus(ContentOf(r), r.key_id, v)
<1>1. PICK D : D = DOMAIN ContentOf(r) \cup {r.key_id}
  OBVIOUS
<1>2. PICK m : m = [k \in D |-> IF k = r.key_id THEN v ELSE ContentOf(r)[k]]
  OBVIOUS
<1>3. m = [k \in D |-> m[k]]
  BY <1>2
<1>4. r.key_id \in Nat /\ r.key_id \notin DOMAIN ContentOf(r)
  <2>1. r.key_id \in Nat
    BY RegTypes
  <2>2. \A k \in DOMAIN ContentOf(r) : k \in Nat /\ k < r.key_id
    BY ContentIs
  <2> QED BY <2>1, <2>2
<1>5. ASSUME NEW p \in Entries(e.arr) PROVE p \in {<<k, m[k]>> : k \in D}
  <2>1. CASE p = <<r.key_id, v>>
    BY <1>1, <1>2, <2>1
  <2>2. CASE p \in Entries(r.arr)
    <3>1. PICK i \in Live(r.arr) : p = <<r.arr[i].key, r.arr[i].val>>
      BY <2>2 DEF Entries
    <3>2. r.arr[i].key \in DOMAIN ContentOf(r) /\ ContentOf(r)[r.arr[i].key] = r.arr[i].val
      <4>1. /\ DOMAIN ContentOf(r) = {r.arr[j].key : j \in Live(r.arr)}
            /\ \A j \in Live(r.arr) : ContentOf(r)[r.arr[j].key] = r.arr[j].val
        BY ContentIs
      <4>2. r.arr[i].key \in {r.arr[j].key : j \in Live(r.arr)}
        OBVIOUS
      <4> QED BY <4>1, <4>2, Zenon
    <3>3. r.arr[i].key \in D /\ m[r.arr[i].key] = r.arr[i].val
      BY <1>1, <1>2, <1>4, <3>2
    <3> QED BY <3>1, <3>3
  <2> QED BY <1>5, <2>1, <2>2
<1>6. ASSUME NEW k \in D PROVE <<k, m[k]>> \in Entries(e.arr)
  <2>1. CASE k = r.key_id
    BY <1>1, <1>2, <2>1
  <2>2. CASE k \in DOMAIN ContentOf(r) /\ k # r.key_id
    <3>1. PICK i \in Live(r.arr) : r.arr[i].key = k
      BY <2>2, ContentIs
    <3>2. m[k] = r.arr[i].val
      BY <1>2, <2>2, <3>1, ContentIs
    <3> QED BY <3>1, <3>2 DEF Entries
  <2> QED BY <1>1, <2>1, <2>2
<1>7. Entries(e.arr) = {<<k, m[k]>> : k \in D}
  BY <1>5, <1>6
<1>8. ContentOf(e) = m
  BY <1>3, <1>7, ContentFrom
<1> QED BY <1>1, <1>2, <1>8 DEF MapPlus

(* Writes through iterators change the values of those keys. *)
LEMMA ContentWritten ==
  ASSUME NEW r, RegOK(r), NEW e, RegOK(e), NEW v, NEW K,
         Entries(e.arr) = Rewritten(r, K, v)
  PROVE  ContentOf(e) = MapWritten(ContentOf(r), K, v)
<1>1. PICK D : D = DOMAIN ContentOf(r)
  OBVIOUS
<1>2. PICK m : m = [k \in D |-> IF k \in K THEN v ELSE ContentOf(r)[k]]
  OBVIOUS
<1>3. m = [k \in D |-> m[k]]
  BY <1>2
<1>4. \A i \in Live(r.arr) : /\ r.arr[i].key \in D
                             /\ m[r.arr[i].key] = IF r.arr[i].key \in K THEN v ELSE r.arr[i].val
  BY <1>1, <1>2, ContentIs
<1>5. \A k \in D : \E i \in Live(r.arr) : r.arr[i].key = k
  BY <1>1, ContentIs
<1>6. ASSUME NEW p \in Entries(e.arr) PROVE p \in {<<k, m[k]>> : k \in D}
  <2>1. PICK i \in Live(r.arr) : p = <<r.arr[i].key, IF r.arr[i].key \in K THEN v ELSE r.arr[i].val>>
    BY <1>6 DEF Rewritten
  <2> QED BY <1>4, <2>1
<1>7. ASSUME NEW k \in D PROVE <<k, m[k]>> \in Entries(e.arr)
  <2>1. PICK i \in Live(r.arr) : r.arr[i].key = k
    BY <1>5
  <2> QED BY <1>4, <2>1 DEF Rewritten
<1>8. Entries(e.arr) = {<<k, m[k]>> : k \in D}
  BY <1>6, <1>7
<1>9. ContentOf(e) = m
  BY <1>3, <1>8, ContentFrom
<1> QED BY <1>1, <1>2, <1>9 DEF MapWritten

(* Every step of the array is a step of the map, or leaves the map alone. *)
LEMMA MapStep ==
  ASSUME MaxKeyId <= KeySpace, RegOK(reg), RegOK(reg'), [RegNext]_reg
  PROVE  [Map!MapNext]_(Map!mapVars)
<1>1. PICK c : c = ContentOf(reg)
  OBVIOUS
<1>2. PICK d : d = ContentOf(reg')
  OBVIOUS
<1>3. Content = c /\ Content' = d
  BY <1>1, <1>2 DEF Content, ContentOf, Live
<1>4. \A i \in Live(reg.arr) : /\ reg.arr[i].key \in DOMAIN c /\ reg.arr[i].key \in Nat
                               /\ c[reg.arr[i].key] = reg.arr[i].val
                               /\ i \in Nat /\ i \in DOMAIN reg.arr
  <2>1. \A i \in Live(reg.arr) : i \in Nat /\ i \in DOMAIN reg.arr /\ reg.arr[i].key \in Nat
    <3>1. /\ Len(reg.arr) \in Nat /\ DOMAIN reg.arr = 1 .. Len(reg.arr) /\ Live(reg.arr) \subseteq DOMAIN reg.arr
          /\ \A i \in DOMAIN reg.arr : reg.arr[i].key \in Nat
      BY RegTypes
    <3> QED BY <3>1
  <2>2. ASSUME NEW i \in Live(reg.arr)
        PROVE  reg.arr[i].key \in DOMAIN c /\ c[reg.arr[i].key] = reg.arr[i].val
    <3>1. reg.arr[i].key \in {reg.arr[j].key : j \in Live(reg.arr)}
      OBVIOUS
    <3> QED BY <1>1, <3>1, ContentIs
  <2> QED BY <2>1, <2>2
<1>5. ASSUME NEW v \in Values, PushBack(v) PROVE Map!MapNext
  <2>1. reg.key_id < KeySpace
    BY <1>5, RegTypes DEF PushBack
  <2>2. reg'.key_id = reg.key_id + 1 /\ Entries(reg'.arr) = Entries(reg.arr) \cup {<<reg.key_id, v>>}
    BY <1>5, <2>1, PushOK DEF PushBack
  <2>3. d = MapPlus(c, reg.key_id, v)
    BY <1>1, <1>2, <2>2, ContentPushed
  <2>4. Map!Register(v)
    BY <1>3, <2>2, <2>3 DEF Map!Register, MapPlus
  <2> QED BY <2>4 DEF Map!MapNext
<1>6. ASSUME NEW v \in Values, ForEachSet(v) PROVE Map!MapNext
  <2>1. reg'.key_id = reg.key_id /\ Entries(reg'.arr) = {<<reg.arr[j].key, v>> : j \in Live(reg.arr)}
    BY <1>6, ForEachOK DEF ForEachSet
  <2>2. Entries(reg'.arr) = Rewritten(reg, Nat, v)
    BY <1>4, <2>1 DEF Rewritten
  <2>3. d = MapWritten(c, Nat, v)
    BY <1>1, <1>2, <2>2, ContentWritten
  <2>4. \A k \in DOMAIN c : k \in Nat
    BY <1>1, ContentIs
  <2>5. d = [k \in DOMAIN c |-> v]
    BY <2>3, <2>4 DEF MapWritten
  <2>6. Map!StoreAll(v)
    BY <1>3, <2>1, <2>5 DEF Map!StoreAll
  <2> QED BY <2>6 DEF Map!MapNext
<1>7. ASSUME NEW key \in 1 .. MaxKeyId, NEW v \in Values, WriteFound(key, v) PROVE Map!MapNext
  <2>1. key \in Nat
    OBVIOUS
  <2>2. PICK i : i = find_reg(reg, key)
    OBVIOUS
  <2>3. i \in Live(reg.arr) /\ reg.arr[i].key = key
    BY <1>7, <2>1, <2>2, Found DEF WriteFound
  <2>4. /\ reg'.key_id = reg.key_id
        /\ Entries(reg'.arr) = {<<reg.arr[j].key, IF j = i THEN v ELSE reg.arr[j].val>> : j \in Live(reg.arr)}
    BY <1>7, <2>2, <2>3, SetOK DEF WriteFound
  <2>5. \A j \in Live(reg.arr) : j = i <=> reg.arr[j].key \in {key}
    <3>1. reg.arr \in Seq(Bucket) /\ Ordered(reg.arr)
      BY RegTypes DEF RegOK
    <3> QED BY <1>4, <2>3, <3>1, EntriesDiffer
  <2>6. Entries(reg'.arr) = Rewritten(reg, {key}, v)
    BY <2>4, <2>5 DEF Rewritten
  <2>7. d = MapWritten(c, {key}, v)
    BY <1>1, <1>2, <2>6, ContentWritten
  <2>8. d = [c EXCEPT ![key] = v] /\ key \in DOMAIN c
    <3>1. key \in DOMAIN c
      BY <1>4, <2>3
    <3>2. c = [k \in DOMAIN c |-> c[k]]
      BY <1>1 DEF ContentOf
    <3> QED BY <2>7, <3>1, <3>2 DEF MapWritten
  <2>9. Map!Store(key, v)
    BY <1>3, <2>4, <2>8 DEF Map!Store
  <2> QED BY <1>3, <2>8, <2>9 DEF Map!MapNext
<1>8. ASSUME NEW S \in SUBSET Values, RemoveIf(S) PROVE Map!MapNext
  <2> DEFINE gone == {i \in Live(reg.arr) : reg.arr[i].val \in S}
             K == {k \in DOMAIN c : c[k] \notin S}
  <2>1. reg' = shrink_if_necessary(compact_if_necessary(EraseBuckets(reg, gone)))
    BY <1>8 DEF RemoveIf, remove_if_range_reg
  <2>2. /\ reg'.key_id = reg.key_id
        /\ Entries(reg'.arr) = Without(reg, gone)
    BY <2>1, EraseOK DEF Without
  <2>3. \A i \in Live(reg.arr) : i \in gone <=> reg.arr[i].key \notin K
    BY <1>4
  <2> HIDE DEF gone, K
  <2>4. d = MapKept(c, K)
    BY <1>1, <1>2, <2>2, <2>3, ContentKept
  <2>5. Map!RemoveIf(S)
    BY <1>3, <2>2, <2>4 DEF Map!RemoveIf, Map!Keep, K, MapKept
  <2> QED BY <2>5 DEF Map!MapNext
<1>9. ASSUME NEW first, NEW last, EraseRange(first, last), first # last PROVE Map!MapNext
  <2>1. /\ first \in Live(reg.arr) /\ last \in Live(reg.arr) \cup {assoc_reg_end(reg)} /\ first <= last
        /\ reg' = shrink_if_necessary(compact_if_necessary(EraseBuckets(reg, first .. (last - 1))))
    BY <1>9 DEF EraseRange, assoc_reg_erase
  <2>2. first \in Nat /\ last \in Nat /\ first < last
    <3>1. assoc_reg_end(reg) \in Nat
      BY RegTypes DEF assoc_reg_end
    <3> QED BY <1>4, <1>9, <2>1, <3>1
  <2>3. /\ reg'.key_id = reg.key_id
        /\ Entries(reg'.arr) = Without(reg, first .. (last - 1))
    BY <2>1, EraseOK DEF Without
  <2>4. PICK top \in Live(reg.arr) : top < last /\ \A i \in Live(reg.arr) : i < last => i <= top
    <3> DEFINE D == {last - i : i \in {j \in Live(reg.arr) : j < last}}
    <3>1. D \subseteq Nat /\ last - first \in D
      BY <1>4, <2>1, <2>2
    <3> HIDE DEF D
    <3>2. PICK x \in D : \A y \in D : ~(<<y, x>> \in OpToRel(<, Nat))
      BY <3>1, NatLessThanWellFounded, WFMin
    <3>3. \A y \in D : x <= y
      <4> SUFFICES ASSUME NEW y \in D, ~(x <= y) PROVE FALSE
        OBVIOUS
      <4>1. x \in Nat /\ y \in Nat
        BY <3>1
      <4>2. y < x
        BY <4>1
      <4>3. <<y, x>> \in OpToRel(<, Nat)
        BY <4>1, <4>2 DEF OpToRel
      <4> QED BY <3>2, <4>3
    <3>4. PICK t \in Live(reg.arr) : t < last /\ x = last - t
      BY DEF D
    <3>5. ASSUME NEW i \in Live(reg.arr), i < last PROVE i <= t
      <4>1. last - i \in D
        BY <3>5 DEF D
      <4>2. x <= last - i
        BY <3>3, <4>1
      <4> QED BY <1>4, <2>2, <3>4, <4>2
    <3> QED BY <3>4, <3>5
  <2>5. PICK lo, hi : lo = reg.arr[first].key /\ hi = reg.arr[top].key
    OBVIOUS
  <2>6. lo \in DOMAIN c /\ hi \in DOMAIN c
    BY <1>4, <2>1, <2>4, <2>5
  <2>7. \A i \in Live(reg.arr) : i \in first .. (last - 1) <=> reg.arr[i].key \notin DOMAIN c \ (lo .. hi)
    <3> SUFFICES ASSUME NEW i \in Live(reg.arr)
                 PROVE  i \in first .. (last - 1) <=> reg.arr[i].key \notin DOMAIN c \ (lo .. hi)
      OBVIOUS
    <3>1. Ordered(reg.arr)
      BY DEF RegOK
    <3>2. i \in first .. (last - 1) <=> first <= i /\ i <= top
      BY <1>4, <2>2, <2>4
    <3>3. /\ i < first => reg.arr[i].key < lo
          /\ first < i => lo < reg.arr[i].key
          /\ i < top => reg.arr[i].key < hi
          /\ top < i => hi < reg.arr[i].key
      BY <1>4, <2>1, <2>4, <2>5, <3>1 DEF Ordered
    <3>4. /\ i = first => lo = reg.arr[i].key
          /\ i = top => hi = reg.arr[i].key
          /\ i \in Nat /\ top \in Nat /\ reg.arr[i].key \in Nat /\ lo \in Nat /\ hi \in Nat
      BY <1>4, <2>1, <2>4, <2>5
    <3>5. first <= i /\ i <= top <=> lo <= reg.arr[i].key /\ reg.arr[i].key <= hi
      BY <2>2, <3>3, <3>4
    <3>6. reg.arr[i].key \notin DOMAIN c \ (lo .. hi) <=> lo <= reg.arr[i].key /\ reg.arr[i].key <= hi
      BY <1>4, <3>4
    <3> QED BY <3>2, <3>5, <3>6
  <2>8. d = MapKept(c, DOMAIN c \ (lo .. hi))
    <3>1. PICK gone, K : gone = first .. (last - 1) /\ K = DOMAIN c \ (lo .. hi)
      OBVIOUS
    <3>2. Entries(reg'.arr) = Without(reg, gone) /\ \A i \in Live(reg.arr) : i \in gone <=> reg.arr[i].key \notin K
      BY <2>3, <2>7, <3>1
    <3>3. d = MapKept(c, K)
      BY <1>1, <1>2, <3>2, ContentKept
    <3> QED BY <3>1, <3>3
  <2>9. Map!Erase(lo, hi)
    BY <1>3, <2>3, <2>8 DEF Map!Erase, Map!Keep, MapKept
  <2> QED BY <1>3, <2>6, <2>9 DEF Map!MapNext
<1>10. ASSUME NEW first, NEW last, EraseRange(first, last), first = last PROVE UNCHANGED reg
  BY <1>10 DEF EraseRange, assoc_reg_erase
<1>11. ASSUME UNCHANGED reg PROVE UNCHANGED Map!mapVars
  BY <1>11 DEF Map!mapVars, Content, Live
<1> QED BY <1>5, <1>6, <1>7, <1>8, <1>9, <1>10, <1>11 DEF RegNext

(* As long as the 32-bit keys have not wrapped around, the array of           *)
(* assoc_reg.c with its erased buckets, compactions, shrinks, expansions and  *)
(* binary search implements the map of ids to data that assoc_reg.h promises. *)
THEOREM RegistryIsMap ==
  ASSUME MaxKeyId <= KeySpace
  PROVE  RegSpec => ImplementsMap
<1>1. RegInit => Map!MapInit
  <2> SUFFICES ASSUME RegInit PROVE Map!MapInit
    OBVIOUS
  <2>1. reg.arr = << >> /\ reg.key_id = 1
    BY DEF RegInit, assoc_reg_init
  <2>2. Live(reg.arr) = {}
    BY <2>1 DEF Live
  <2>3. Content = << >>
    BY <2>2 DEF Content
  <2> QED BY <2>1, <2>3 DEF Map!MapInit
<1>2. RegInit => RegOK(reg)
  BY RegInitOK
<1>3. RegOK(reg) /\ [RegNext]_reg => RegOK(reg)'
  BY RegNextOK
<1>4. RegOK(reg) /\ [RegNext]_reg => [Map!MapNext]_(Map!mapVars)
  <2> SUFFICES ASSUME RegOK(reg), [RegNext]_reg PROVE [Map!MapNext]_(Map!mapVars)
    OBVIOUS
  <2>1. RegOK(reg)'
    BY <1>3
  <2>2. RegOK(reg')
    BY <2>1 DEF RegOK, Reg, Ordered, Live
  <2> QED BY <2>2, MapStep
<1> QED BY <1>1, <1>2, <1>3, <1>4, PTL DEF RegSpec, ImplementsMap, Map!MapSpec

-----------------------------------------------------------------------------
USE XappValuesAssumption, XappBoundsAssumption, NoXappAssumption, KeysSuffice

-----------------------------------------------------------------------------
(***************************************************************************)
(* What the handlers do to the entries of the registry.                    *)
(***************************************************************************)
\* k is registered with the activity v.
Has(r, k, v) == <<k, v>> \in Entries(r.arr)

LEMMA HasIs ==
  ASSUME NEW r, RegOK(r)
  PROVE  /\ \A k, v : Has(r, k, v) => /\ k \in 1 .. (r.key_id - 1) /\ v \in BOOLEAN
                                      /\ \E i \in Live(r.arr) : r.arr[i].key = k /\ r.arr[i].val = v
         /\ \A i \in Live(r.arr) : Has(r, r.arr[i].key, r.arr[i].val)
         /\ \A i \in Live(r.arr) : r.arr[i].val \in BOOLEAN
<1>1. \A i \in Live(r.arr) : /\ r.arr[i].val \in BOOLEAN /\ r.arr[i].key \in Nat /\ r.arr[i].key >= 1
                             /\ r.arr[i].key < r.key_id /\ r.key_id \in Nat
  <2>1. /\ r.arr \in Seq(Bucket) /\ Live(r.arr) \subseteq DOMAIN r.arr /\ r.key_id \in Nat
        /\ \A i \in DOMAIN r.arr : r.arr[i].key \in Nat /\ r.arr[i].key >= 1 /\ r.arr[i].key < r.key_id
    BY RegTypes DEF RegOK
  <2>2. \A i \in DOMAIN r.arr : r.arr[i].val \in Values
    BY <2>1, ArrTypes
  <2> QED BY <2>1, <2>2
<1>2. \A i \in Live(r.arr) : Has(r, r.arr[i].key, r.arr[i].val)
  BY DEF Has, Entries
<1>3. ASSUME NEW k, NEW v, Has(r, k, v)
      PROVE  /\ k \in 1 .. (r.key_id - 1) /\ v \in BOOLEAN
             /\ \E i \in Live(r.arr) : r.arr[i].key = k /\ r.arr[i].val = v
  <2>1. PICK i \in Live(r.arr) : <<k, v>> = <<r.arr[i].key, r.arr[i].val>>
    BY <1>3 DEF Has, Entries
  <2> QED BY <1>1, <2>1
<1> QED BY <1>1, <1>2, <1>3

(* An id is registered as active or as inactive. *)
LEMMA RegisteredIs ==
  ASSUME RegOK(reg), NEW k
  PROVE  Registered(k) <=> Has(reg, k, TRUE) \/ Has(reg, k, FALSE)
<1>1. ASSUME Registered(k) PROVE Has(reg, k, TRUE) \/ Has(reg, k, FALSE)
  <2>1. PICK i \in Live(reg.arr) : reg.arr[i].key = k
    BY <1>1 DEF Registered
  <2>2. Has(reg, k, reg.arr[i].val) /\ reg.arr[i].val \in BOOLEAN
    BY <2>1, HasIs
  <2>3. reg.arr[i].val = TRUE \/ reg.arr[i].val = FALSE
    BY <2>2
  <2> QED BY <2>2, <2>3
<1>2. ASSUME NEW v, Has(reg, k, v) PROVE Registered(k)
  BY <1>2, HasIs DEF Registered
<1> QED BY <1>1, <1>2

(* An id has one entry. *)
LEMMA OneEntry ==
  ASSUME NEW r, RegOK(r), NEW k, NEW u, NEW v, Has(r, k, u), Has(r, k, v)
  PROVE  u = v
<1>1. PICK i \in Live(r.arr) : r.arr[i].key = k /\ r.arr[i].val = u
  BY HasIs
<1>2. PICK j \in Live(r.arr) : r.arr[j].key = k /\ r.arr[j].val = v
  BY HasIs
<1>3. r.arr \in Seq(Bucket) /\ Ordered(r.arr) /\ Live(r.arr) \subseteq DOMAIN r.arr
  BY RegTypes DEF RegOK
<1>4. i = j
  BY <1>1, <1>2, <1>3, EntriesDiffer
<1> QED BY <1>1, <1>2, <1>4

\* The registry e is r with the next id, active; with key active; and after an
\* expiration.
NextActive(r, e) ==
  /\ RegOK(e) /\ e.key_id = r.key_id + 1
  /\ \A k, v : Has(e, k, v) <=> Has(r, k, v) \/ (k = r.key_id /\ v = TRUE)
KeyActive(r, e, key) ==
  /\ RegOK(e) /\ e.key_id = r.key_id
  /\ \A k, v : Has(e, k, v) <=> (k = key /\ v = TRUE) \/ (k # key /\ Has(r, k, v))
AllInactive(r, e) ==
  /\ RegOK(e) /\ e.key_id = r.key_id
  /\ \A k, v : Has(e, k, v) <=> v = FALSE /\ Has(r, k, TRUE)

(* XAPP_MSG_INIT registers the next id as active. *)
LEMMA InitRegisters ==
  ASSUME NEW r, RegOK(r), r.key_id < KeySpace, NEW e, e = assoc_reg_push_back(r, TRUE)
  PROVE  NextActive(r, e)
<1>1. RegOK(e) /\ e.key_id = r.key_id + 1 /\ Entries(e.arr) = Entries(r.arr) \cup {<<r.key_id, TRUE>>}
  BY PushOK
<1> QED BY <1>1 DEF Has, NextActive

(* A PING marks its id as active. *)
LEMMA PingMarks ==
  ASSUME NEW r, RegOK(r), NEW key \in Nat, find_reg(r, key) # assoc_reg_end(r),
         NEW e, e = assoc_reg_value_set(r, find_reg(r, key), TRUE)
  PROVE  KeyActive(r, e, key)
<1>1. PICK i : i = find_reg(r, key)
  OBVIOUS
<1>2. i \in Live(r.arr) /\ r.arr[i].key = key
  BY <1>1, Found
<1>3. /\ RegOK(e) /\ e.key_id = r.key_id
      /\ Entries(e.arr) = {<<r.arr[j].key, IF j = i THEN TRUE ELSE r.arr[j].val>> : j \in Live(r.arr)}
  BY <1>1, <1>2, SetOK
<1>4. \A j \in Live(r.arr) : j = i <=> r.arr[j].key = key
  <2>1. r.arr \in Seq(Bucket) /\ Ordered(r.arr) /\ Live(r.arr) \subseteq DOMAIN r.arr
    BY RegTypes DEF RegOK
  <2> QED BY <1>2, <2>1, EntriesDiffer
<1>5. ASSUME NEW k, NEW v, Has(e, k, v) PROVE (k = key /\ v = TRUE) \/ (k # key /\ Has(r, k, v))
  <2>1. PICK j \in Live(r.arr) : <<k, v>> = <<r.arr[j].key, IF j = i THEN TRUE ELSE r.arr[j].val>>
    BY <1>3, <1>5 DEF Has
  <2>2. k = r.arr[j].key /\ v = IF j = i THEN TRUE ELSE r.arr[j].val
    BY <2>1
  <2>3. CASE j = i
    BY <1>2, <2>2, <2>3
  <2>4. CASE j # i
    <3>1. Has(r, r.arr[j].key, r.arr[j].val)
      BY HasIs
    <3> QED BY <1>4, <2>2, <2>4, <3>1
  <2> QED BY <2>3, <2>4
<1>6. Has(e, key, TRUE)
  <2>1. <<r.arr[i].key, IF i = i THEN TRUE ELSE r.arr[i].val>> \in Entries(e.arr)
    BY <1>2, <1>3
  <2> QED BY <1>2, <2>1 DEF Has
<1>7. ASSUME NEW k, NEW v, k # key, Has(r, k, v) PROVE Has(e, k, v)
  <2>1. PICK j \in Live(r.arr) : r.arr[j].key = k /\ r.arr[j].val = v
    BY <1>7, HasIs
  <2>2. <<r.arr[j].key, IF j = i THEN TRUE ELSE r.arr[j].val>> \in Entries(e.arr)
    BY <1>3
  <2> QED BY <1>4, <1>7, <2>1, <2>2 DEF Has
<1> QED BY <1>3, <1>5, <1>6, <1>7 DEF KeyActive

(* An expiration removes the inactive ids and marks the active ones. *)
LEMMA ExpiryMarks ==
  ASSUME NEW r, RegOK(r), NEW e, e = for_each_reg_set(remove_if_range_reg(r, {FALSE}), FALSE)
  PROVE  AllInactive(r, e)
<1>1. PICK b : b = remove_if_range_reg(r, {FALSE})
  OBVIOUS
<1> DEFINE gone == {i \in Live(r.arr) : r.arr[i].val \in {FALSE}}
<1>2. /\ RegOK(b) /\ b.key_id = r.key_id
      /\ Entries(b.arr) = {<<r.arr[i].key, r.arr[i].val>> : i \in Live(r.arr) \ gone}
  BY <1>1, EraseOK DEF remove_if_range_reg
<1>3. /\ RegOK(e) /\ e.key_id = r.key_id
      /\ Entries(e.arr) = {<<b.arr[j].key, FALSE>> : j \in Live(b.arr)}
  <2>1. FALSE \in Values
    BY Zenon
  <2>2. e = for_each_reg_set(b, FALSE)
    BY <1>1
  <2>3. /\ RegOK(e) /\ e.key_id = b.key_id
        /\ Entries(e.arr) = {<<b.arr[j].key, FALSE>> : j \in Live(b.arr)}
    BY <1>2, <2>1, <2>2, ForEachOK, Zenon
  <2> QED BY <1>2, <2>3
<1>4. ASSUME NEW k, NEW v, Has(b, k, v) PROVE Has(r, k, TRUE)
  <2>1. PICK i \in Live(r.arr) \ gone : <<k, v>> = <<r.arr[i].key, r.arr[i].val>>
    BY <1>2, <1>4 DEF Has
  <2>2. r.arr[i].val \in BOOLEAN /\ r.arr[i].val # FALSE
    BY <2>1, HasIs
  <2>3. r.arr[i].val = TRUE
    BY <2>2
  <2>4. Has(r, r.arr[i].key, r.arr[i].val)
    BY HasIs
  <2> QED BY <2>1, <2>3, <2>4
<1>5. ASSUME NEW k, Has(r, k, TRUE) PROVE Has(b, k, TRUE)
  <2>1. PICK i \in Live(r.arr) : r.arr[i].key = k /\ r.arr[i].val = TRUE
    <3>1. PICK t : t = TRUE
      OBVIOUS
    <3>2. Has(r, k, t)
      BY <1>5, <3>1
    <3>3. PICK i \in Live(r.arr) : r.arr[i].key = k /\ r.arr[i].val = t
      BY <3>2, HasIs
    <3> QED BY <3>1, <3>3
  <2>2. i \notin gone
    BY <2>1
  <2>3. <<r.arr[i].key, r.arr[i].val>> \in Entries(b.arr)
    BY <1>2, <2>2
  <2> QED BY <2>1, <2>3 DEF Has
<1>6. ASSUME NEW k, NEW v, Has(e, k, v) PROVE v = FALSE /\ Has(r, k, TRUE)
  <2>1. PICK j \in Live(b.arr) : <<k, v>> = <<b.arr[j].key, FALSE>>
    BY <1>3, <1>6 DEF Has
  <2>2. Has(b, k, b.arr[j].val)
    BY <1>2, <2>1, HasIs
  <2> QED BY <1>4, <2>1, <2>2
<1>7. ASSUME NEW k, Has(r, k, TRUE) PROVE Has(e, k, FALSE)
  <2>1. PICK j \in Live(b.arr) : b.arr[j].key = k
    <3>1. \E t : Has(b, k, t)
      BY <1>5, <1>7
    <3> QED BY <1>2, <3>1, HasIs
  <2>2. <<b.arr[j].key, FALSE>> \in Entries(e.arr)
    BY <1>3
  <2> QED BY <2>1, <2>2 DEF Has
<1> QED BY <1>3, <1>6, <1>7 DEF AllInactive

-----------------------------------------------------------------------------
(***************************************************************************)
(* The inductive invariant.                                                *)
(***************************************************************************)
\* An xApp that has registered knows an id, which is its own.
XappsOwn ==
  \A x \in Xapps :
    /\ xapp[x].pc \in {"up", "PING", "REQUEST"} => xapp[x].id # 0
    /\ xapp[x].id # 0 => xapp[x].id < reg.key_id /\ owner[xapp[x].id] = x

\* So does a request that is still in a server's queue.
RequestsOwn ==
  \A s \in Servers : \A i \in DOMAIN box[s] :
    box[s][i].type # "INIT" => /\ box[s][i].id # 0 /\ box[s][i].id < reg.key_id
                               /\ owner[box[s][i].id] = box[s][i].from

\* Active means no expiration since the last ping, inactive means one; an id
\* not handed out yet has seen none.
SilenceMarked ==
  /\ \A k \in Keys : Has(reg, k, TRUE) => silence[k] = 0
  /\ \A k \in Keys : Has(reg, k, FALSE) => silence[k] = 1
  /\ \A k \in Keys : reg.key_id <= k => silence[k] = 0

LInv == ListenerTypeOK /\ RegOK(reg) /\ XappsOwn /\ RequestsOwn /\ SilenceMarked

(* The types without the registry's. *)
OthersTyped ==
  /\ box \in [Servers -> Seq(Request)]
  /\ xapp \in [Xapps -> XappState]
  /\ silence \in [Keys -> 0..MaxSilence]
  /\ owner \in [Keys -> Xapps \cup {NoXapp}]

LEMMA TypesFrom ==
  ASSUME RegOK(reg), reg.key_id \in 1 .. MaxKeyId, OthersTyped
  PROVE  ListenerTypeOK
BY RegTypes DEF ListenerTypeOK, OthersTyped

LEMMA ListenerInitOK == ListenerInit => LInv
<1> SUFFICES ASSUME ListenerInit PROVE LInv
  OBVIOUS
<1>1. RegOK(reg) /\ Entries(reg.arr) = {} /\ reg.key_id = 1
  BY RegInitOK DEF ListenerInit, RegInit
<1>2. OthersTyped
  <2>1. box \in [Servers -> Seq(Request)]
    BY DEF ListenerInit
  <2>2. [pc |-> "start", id |-> 0] \in XappState
    BY DEF XappState, XappId
  <2>3. 0 \in 0 .. MaxSilence
    OBVIOUS
  <2> QED BY <2>1, <2>2, <2>3 DEF ListenerInit, OthersTyped
<1>3. ListenerTypeOK
  <2>1. 1 \in 1 .. MaxKeyId
    OBVIOUS
  <2> QED BY <1>1, <1>2, <2>1, TypesFrom
<1>4. XappsOwn /\ RequestsOwn
  BY DEF ListenerInit, XappsOwn, RequestsOwn
<1>5. SilenceMarked
  BY <1>1 DEF ListenerInit, SilenceMarked, Has
<1> QED BY <1>1, <1>3, <1>4, <1>5 DEF LInv

(* Taking a request off a queue: what is left was there before. *)
LEMMA ReceiveKeeps ==
  ASSUME OthersTyped, NEW s \in Servers, NEW type, Receive(s, type)
  PROVE  /\ box' \in [Servers -> Seq(Request)]
         /\ Head(box[s]) \in Request /\ Head(box[s]).type = type
         /\ \E i \in DOMAIN box[s] : box[s][i] = Head(box[s])
         /\ \A t \in Servers : \A i \in DOMAIN box'[t] : \E j \in DOMAIN box[t] : box'[t][i] = box[t][j]
<1>1. box \in [Servers -> Seq(Request)] /\ box[s] \in Seq(Request) /\ box[s] # << >>
  BY DEF OthersTyped, Receive
<1>2. box' = [box EXCEPT ![s] = Tail(box[s])] /\ Head(box[s]).type = type
  BY DEF Receive
<1>3. Tail(box[s]) \in Seq(Request) /\ Head(box[s]) \in Request /\ Head(box[s]) = box[s][1]
  BY <1>1
<1>4. 1 \in DOMAIN box[s] /\ Len(box[s]) \in Nat /\ Len(box[s]) > 0 /\ DOMAIN box[s] = 1 .. Len(box[s])
  BY <1>1
<1>5. \A i \in DOMAIN Tail(box[s]) : i + 1 \in DOMAIN box[s] /\ Tail(box[s])[i] = box[s][i + 1]
  BY <1>1
<1>6. ASSUME NEW t \in Servers, NEW i \in DOMAIN box'[t]
      PROVE  \E j \in DOMAIN box[t] : box'[t][i] = box[t][j]
  <2>1. CASE t = s
    <3>1. box'[t] = Tail(box[s])
      BY <1>1, <1>2, <2>1
    <3>2. i + 1 \in DOMAIN box[t] /\ box'[t][i] = box[t][i + 1]
      BY <1>5, <1>6, <2>1, <3>1
    <3> QED BY <3>2
  <2>2. CASE t # s
    BY <1>1, <1>2, <1>6, <2>2
  <2> QED BY <2>1, <2>2
<1>7. box' \in [Servers -> Seq(Request)]
  BY <1>1, <1>2, <1>3
<1> QED BY <1>2, <1>3, <1>4, <1>6, <1>7

(* A new request: it is the last of its queue, and the rest was there. *)
LEMMA PostAdds ==
  ASSUME OthersTyped, NEW x \in Xapps, NEW type \in {"INIT", "PING", "REQUEST"}, Post(x, type),
         NEW m, m = [from |-> x, type |-> type, id |-> xapp[x].id]
  PROVE  /\ box' \in [Servers -> Seq(Request)]
         /\ \A t \in Servers : \A i \in DOMAIN box'[t] :
              \/ \E j \in DOMAIN box[t] : box'[t][i] = box[t][j]
              \/ box'[t][i] = m
<1>1. PICK s : s = ServerOf(type)
  OBVIOUS
<1>3. s \in Servers
  BY <1>1 DEF ServerOf, Servers
<1>4. box \in [Servers -> Seq(Request)] /\ box[s] \in Seq(Request)
  BY <1>3 DEF OthersTyped
<1>5. m \in Request
  BY DEF OthersTyped, Request, XappState
<1>6. box' = [box EXCEPT ![s] = Append(box[s], m)]
  BY <1>1 DEF Post
<1>7. /\ Append(box[s], m) \in Seq(Request) /\ Len(box[s]) \in Nat
      /\ DOMAIN Append(box[s], m) = 1 .. (Len(box[s]) + 1) /\ DOMAIN box[s] = 1 .. Len(box[s])
      /\ \A i \in 1 .. Len(box[s]) : Append(box[s], m)[i] = box[s][i]
      /\ Append(box[s], m)[Len(box[s]) + 1] = m
  BY <1>4, <1>5
<1>8. ASSUME NEW t \in Servers, NEW i \in DOMAIN box'[t]
      PROVE  (\E j \in DOMAIN box[t] : box'[t][i] = box[t][j]) \/ box'[t][i] = m
  <2>1. CASE t = s
    <3>1. box'[t] = Append(box[s], m)
      BY <1>3, <1>4, <1>6, <2>1
    <3>2. i \in 1 .. Len(box[s]) \/ i = Len(box[s]) + 1
      BY <1>7, <1>8, <3>1
    <3> QED BY <1>7, <2>1, <3>1, <3>2
  <2>2. CASE t # s
    BY <1>4, <1>6, <1>8, <2>2
  <2> QED BY <2>1, <2>2
<1>9. box' \in [Servers -> Seq(Request)]
  BY <1>4, <1>6, <1>7
<1> QED BY <1>8, <1>9

(* The answer to a request. *)
LEMMA AnswerSets ==
  ASSUME OthersTyped, NEW x \in Xapps, NEW type, NEW next \in {"up", "start"}, NEW id \in XappId,
         Answer(x, type, next, id)
  PROVE  /\ xapp' \in [Xapps -> XappState]
         /\ \A y \in Xapps : \/ xapp'[y] = xapp[y]
                             \/ y = x /\ xapp'[y].pc = next /\ xapp'[y].id = id
<1>1. [pc |-> next, id |-> id] \in XappState
  BY DEF XappState
<1> QED BY <1>1 DEF OthersTyped, Answer

\* A request whose id, if it needs one, is its sender's.
Owned(m) == m.type # "INIT" => m.id # 0 /\ m.id < reg.key_id /\ owner[m.id] = m.from

(* Requests keep their owners when ids are only added. *)
LEMMA RequestsStay ==
  ASSUME RequestsOwn, OthersTyped, OthersTyped', reg.key_id \in Nat, reg'.key_id \in Nat,
         reg.key_id <= reg'.key_id,
         \A k \in Keys : k < reg.key_id => owner'[k] = owner[k],
         \A t \in Servers : \A i \in DOMAIN box'[t] :
           (\E j \in DOMAIN box[t] : box'[t][i] = box[t][j]) \/ Owned(box'[t][i])
  PROVE  RequestsOwn'
<1> SUFFICES ASSUME NEW t \in Servers, NEW i \in DOMAIN box'[t], box'[t][i].type # "INIT"
             PROVE  /\ box'[t][i].id # 0 /\ box'[t][i].id < reg'.key_id
                    /\ owner'[box'[t][i].id] = box'[t][i].from
  BY DEF RequestsOwn, Servers
<1>1. PICK m : m = box'[t][i]
  OBVIOUS
<1>2. m \in Request
  BY <1>1 DEF OthersTyped
<1>3. m.id \in 0 .. MaxKeyId
  BY <1>2 DEF Request, XappId
<1>4. m.id # 0 /\ m.id < reg.key_id /\ owner[m.id] = m.from
  BY <1>1 DEF RequestsOwn, Owned
<1>5. m.id \in Keys
  BY <1>3, <1>4 DEF Keys
<1>6. owner'[m.id] = m.from
  BY <1>4, <1>5
<1>7. m.id < reg'.key_id
  BY <1>3, <1>4
<1> QED BY <1>1, <1>4, <1>6, <1>7

(* So do xApps. *)
LEMMA XappsStay ==
  ASSUME XappsOwn, OthersTyped, OthersTyped', reg.key_id \in Nat, reg'.key_id \in Nat,
         reg.key_id <= reg'.key_id,
         \A k \in Keys : k < reg.key_id => owner'[k] = owner[k],
         \A x \in Xapps :
           \/ /\ xapp'[x].id = xapp[x].id
              /\ xapp'[x].pc \in {"up", "PING", "REQUEST"} => xapp[x].pc \in {"up", "PING", "REQUEST"}
           \/ xapp'[x].id = 0 /\ xapp'[x].pc = "start"
           \/ xapp'[x].id \in 1 .. (reg'.key_id - 1) /\ owner'[xapp'[x].id] = x
  PROVE  XappsOwn'
<1> SUFFICES ASSUME NEW x \in Xapps
             PROVE  /\ xapp'[x].pc \in {"up", "PING", "REQUEST"} => xapp'[x].id # 0
                    /\ xapp'[x].id # 0 => xapp'[x].id < reg'.key_id /\ owner'[xapp'[x].id] = x
  BY DEF XappsOwn
<1>1. xapp[x] \in XappState /\ xapp[x].id \in 0 .. MaxKeyId
  BY DEF OthersTyped, XappState, XappId
<1>2. CASE /\ xapp'[x].id = xapp[x].id
           /\ xapp'[x].pc \in {"up", "PING", "REQUEST"} => xapp[x].pc \in {"up", "PING", "REQUEST"}
  <2>1. xapp'[x].pc \in {"up", "PING", "REQUEST"} => xapp'[x].id # 0
    BY <1>2 DEF XappsOwn
  <2>2. ASSUME xapp'[x].id # 0 PROVE xapp'[x].id < reg'.key_id /\ owner'[xapp'[x].id] = x
    <3>1. PICK k : k = xapp[x].id
      OBVIOUS
    <3>2. k \in 0 .. MaxKeyId /\ k # 0 /\ k < reg.key_id /\ owner[k] = x
      BY <1>1, <1>2, <2>2, <3>1 DEF XappsOwn
    <3>3. k \in Keys /\ k < reg'.key_id
      BY <3>2 DEF Keys
    <3>4. owner'[k] = x
      BY <3>2, <3>3
    <3> QED BY <1>2, <3>1, <3>3, <3>4
  <2> QED BY <2>1, <2>2
<1>3. CASE xapp'[x].id = 0 /\ xapp'[x].pc = "start"
  BY <1>3
<1>4. CASE xapp'[x].id \in 1 .. (reg'.key_id - 1) /\ owner'[xapp'[x].id] = x
  BY <1>4
<1> QED BY <1>2, <1>3, <1>4

-----------------------------------------------------------------------------
(***************************************************************************)
(* Every step keeps the invariant.                                         *)
(***************************************************************************)
(* What the invariant says in the terms the steps need. *)
LEMMA LInvFacts ==
  ASSUME LInv
  PROVE  /\ OthersTyped /\ RegOK(reg) /\ XappsOwn /\ RequestsOwn /\ SilenceMarked
         /\ reg.key_id \in 1 .. MaxKeyId /\ reg.key_id \in Nat
BY DEF LInv, ListenerTypeOK, OthersTyped

LEMMA XappStepOK ==
  ASSUME LInv, NEW x \in Xapps, XappStep(x)
  PROVE  LInv'
<1>1. /\ OthersTyped /\ RegOK(reg) /\ XappsOwn /\ RequestsOwn /\ SilenceMarked
      /\ reg.key_id \in 1 .. MaxKeyId /\ reg.key_id \in Nat
  BY LInvFacts
<1>2. UNCHANGED <<reg, silence, owner>>
  BY DEF XappStep, XappSend, XappResend, XappCrash
<1>3. ASSUME NEW type \in {"INIT", "PING", "REQUEST"}, Post(x, type),
             type # "INIT" => xapp[x].pc \in {"up", "PING", "REQUEST"}
      PROVE  /\ box' \in [Servers -> Seq(Request)]
             /\ \A t \in Servers : \A i \in DOMAIN box'[t] :
                  (\E j \in DOMAIN box[t] : box'[t][i] = box[t][j]) \/ Owned(box'[t][i])
  <2>1. Owned([from |-> x, type |-> type, id |-> xapp[x].id])
    BY <1>1, <1>3 DEF Owned, XappsOwn
  <2>2. PICK m : m = [from |-> x, type |-> type, id |-> xapp[x].id]
    OBVIOUS
  <2>3. /\ box' \in [Servers -> Seq(Request)]
        /\ \A t \in Servers : \A i \in DOMAIN box'[t] :
             (\E j \in DOMAIN box[t] : box'[t][i] = box[t][j]) \/ box'[t][i] = m
    BY <1>1, <1>3, <2>2, PostAdds
  <2>4. Owned(m)
    BY <2>1, <2>2
  <2> QED BY <2>3, <2>4
<1>4. ASSUME xapp' \in [Xapps -> XappState], box' \in [Servers -> Seq(Request)],
             \A t \in Servers : \A i \in DOMAIN box'[t] :
               (\E j \in DOMAIN box[t] : box'[t][i] = box[t][j]) \/ Owned(box'[t][i]),
             \A y \in Xapps : /\ xapp'[y].id = xapp[y].id
                              /\ xapp'[y].pc \in {"up", "PING", "REQUEST"}
                                   => xapp[y].pc \in {"up", "PING", "REQUEST"}
      PROVE  LInv'
  <2>1. OthersTyped'
    BY <1>1, <1>2, <1>4 DEF OthersTyped
  <2>2. RegOK(reg)'
    BY <1>1, <1>2 DEF RegOK, Reg, Ordered, Live
  <2>3. ListenerTypeOK'
    BY <1>1, <1>2, <2>1, RegTypes DEF OthersTyped, ListenerTypeOK
  <2>4. RequestsOwn'
    BY <1>1, <1>2, <1>4, <2>1, RequestsStay
  <2>5. XappsOwn'
    BY <1>1, <1>2, <1>4, <2>1, XappsStay
  <2>6. SilenceMarked'
    BY <1>1, <1>2 DEF SilenceMarked, Has, Entries, Live
  <2> QED BY <2>2, <2>3, <2>4, <2>5, <2>6 DEF LInv
<1>5. ASSUME NEW type \in {"INIT", "PING", "REQUEST"}, XappSend(x, type) PROVE LInv'
  <2>1. type # "INIT" => xapp[x].pc \in {"up", "PING", "REQUEST"}
    BY <1>5 DEF XappSend
  <2>2. xapp' = [xapp EXCEPT ![x].pc = type] /\ Post(x, type)
    BY <1>5 DEF XappSend
  <2>3. xapp' \in [Xapps -> XappState]
    BY <1>1, <2>2 DEF OthersTyped, XappState
  <2>4. \A y \in Xapps : /\ xapp'[y].id = xapp[y].id
                         /\ xapp'[y].pc \in {"up", "PING", "REQUEST"}
                              => xapp[y].pc \in {"up", "PING", "REQUEST"}
    BY <1>1, <2>1, <2>2 DEF OthersTyped, XappState
  <2> QED BY <1>3, <1>4, <2>1, <2>2, <2>3, <2>4
<1>6. ASSUME XappResend(x) PROVE LInv'
  <2>1. /\ xapp[x].pc \in {"INIT", "PING", "REQUEST"} /\ Post(x, xapp[x].pc) /\ xapp' = xapp
    BY <1>6 DEF XappResend
  <2>2. xapp' \in [Xapps -> XappState]
    BY <1>1, <2>1 DEF OthersTyped
  <2> QED BY <1>3, <1>4, <2>1, <2>2
<1>7. ASSUME XappCrash(x) PROVE LInv'
  <2>1. xapp' = [xapp EXCEPT ![x].pc = "crashed"] /\ box' = box
    BY <1>7 DEF XappCrash
  <2>2. xapp' \in [Xapps -> XappState] /\ box' \in [Servers -> Seq(Request)]
    BY <1>1, <2>1 DEF OthersTyped, XappState
  <2>3. \A y \in Xapps : /\ xapp'[y].id = xapp[y].id
                         /\ xapp'[y].pc \in {"up", "PING", "REQUEST"}
                              => xapp[y].pc \in {"up", "PING", "REQUEST"}
    BY <1>1, <2>1 DEF OthersTyped, XappState
  <2>4. \A t \in Servers : \A i \in DOMAIN box'[t] : \E j \in DOMAIN box[t] : box'[t][i] = box[t][j]
    BY <2>1
  <2> QED BY <1>4, <2>2, <2>3, <2>4
<1> QED BY <1>5, <1>6, <1>7 DEF XappStep

(* The steps that change the registry. *)
LEMMA RegistryStepOK ==
  ASSUME LInv, RegOK(reg'), reg'.key_id \in 1 .. MaxKeyId, OthersTyped',
         reg.key_id <= reg'.key_id,
         \A k \in Keys : k < reg.key_id => owner'[k] = owner[k],
         \A t \in Servers : \A i \in DOMAIN box'[t] : \E j \in DOMAIN box[t] : box'[t][i] = box[t][j],
         \A x \in Xapps : \/ xapp'[x] = xapp[x]
                          \/ xapp'[x].id = 0 /\ xapp'[x].pc = "start"
                          \/ xapp'[x].id \in 1 .. (reg'.key_id - 1) /\ owner'[xapp'[x].id] = x,
         \A k \in Keys : Has(reg', k, TRUE) => silence'[k] = 0,
         \A k \in Keys : Has(reg', k, FALSE) => silence'[k] = 1,
         \A k \in Keys : reg'.key_id <= k => silence'[k] = 0
  PROVE  LInv'
<1>1. /\ OthersTyped /\ RegOK(reg) /\ XappsOwn /\ RequestsOwn /\ SilenceMarked
      /\ reg.key_id \in 1 .. MaxKeyId /\ reg.key_id \in Nat
  BY LInvFacts
<1>2. RegOK(reg)'
  BY DEF RegOK, Reg, Ordered, Live
<1>3. ListenerTypeOK'
  <2>1. reg'.arr \in Seq(Bucket) /\ reg'.sz \in Nat /\ reg'.cap \in Nat
    BY RegTypes
  <2> QED BY <2>1 DEF OthersTyped, ListenerTypeOK
<1>4. reg'.key_id \in Nat
  OBVIOUS
<1>5. RequestsOwn'
  BY <1>1, <1>4, RequestsStay
<1>6. XappsOwn'
  BY <1>1, <1>4, XappsStay
<1>7. SilenceMarked'
  BY DEF SilenceMarked, Has, Entries, Live
<1> QED BY <1>2, <1>3, <1>5, <1>6, <1>7 DEF LInv

LEMMA GenerateIdOK ==
  ASSUME LInv, GenerateId
  PROVE  LInv' /\ \A k : Registered(k) => Has(reg', k, TRUE) \/ Has(reg', k, FALSE)
<1>1. /\ OthersTyped /\ RegOK(reg) /\ XappsOwn /\ RequestsOwn /\ SilenceMarked
      /\ reg.key_id \in 1 .. MaxKeyId /\ reg.key_id \in Nat
  BY LInvFacts
<1>2. PICK x : x = Head(box["ping"]).from
  OBVIOUS
<1>3. /\ Receive("ping", "INIT") /\ reg.key_id < MaxKeyId /\ reg' = assoc_reg_push_back(reg, TRUE)
      /\ owner' = [owner EXCEPT ![reg.key_id] = x] /\ Answer(x, "INIT", "up", reg.key_id)
      /\ silence' = silence
  BY <1>2 DEF GenerateId
<1>4. /\ box' \in [Servers -> Seq(Request)] /\ Head(box["ping"]) \in Request
      /\ \A t \in Servers : \A i \in DOMAIN box'[t] : \E j \in DOMAIN box[t] : box'[t][i] = box[t][j]
  <2>1. "ping" \in Servers
    BY DEF Servers
  <2> QED BY <1>1, <1>3, <2>1, ReceiveKeeps
<1>5. x \in Xapps
  BY <1>2, <1>4 DEF Request
<1>6. reg.key_id < KeySpace /\ reg.key_id \in XappId /\ reg.key_id \in Keys
  BY <1>1, <1>3 DEF XappId, Keys
<1>0. NextActive(reg, reg')
  BY <1>1, <1>3, <1>6, InitRegisters
<1>7. /\ RegOK(reg') /\ reg'.key_id = reg.key_id + 1
      /\ \A k, v : Has(reg', k, v) <=> Has(reg, k, v) \/ (k = reg.key_id /\ v = TRUE)
  BY <1>0 DEF NextActive
<1>8. /\ xapp' \in [Xapps -> XappState]
      /\ \A y \in Xapps : xapp'[y] = xapp[y] \/ (y = x /\ xapp'[y].id = reg.key_id)
  BY <1>1, <1>3, <1>5, <1>6, AnswerSets
<1>9. reg'.key_id \in 1 .. MaxKeyId /\ reg.key_id <= reg'.key_id /\ reg.key_id \in 1 .. (reg'.key_id - 1)
  <2>1. PICK n, o : n = reg'.key_id /\ o = reg.key_id
    OBVIOUS
  <2>2. n = o + 1 /\ o \in 1 .. MaxKeyId /\ o < MaxKeyId
    BY <1>1, <1>3, <1>7, <2>1
  <2>3. n \in 1 .. MaxKeyId /\ o <= n /\ o \in 1 .. (n - 1)
    BY <2>2
  <2> QED BY <2>1, <2>3
<1>10. owner' \in [Keys -> Xapps \cup {NoXapp}] /\ owner'[reg.key_id] = x
       /\ \A k \in Keys : k # reg.key_id => owner'[k] = owner[k]
  BY <1>1, <1>3, <1>5, <1>6 DEF OthersTyped
<1>11. OthersTyped'
  BY <1>1, <1>3, <1>4, <1>8, <1>10 DEF OthersTyped
<1>12. \A k \in Keys : k < reg.key_id => owner'[k] = owner[k]
  BY <1>1, <1>10
<1>13. \A y \in Xapps : xapp'[y] = xapp[y] \/ (xapp'[y].id \in 1 .. (reg'.key_id - 1) /\ owner'[xapp'[y].id] = y)
  BY <1>8, <1>9, <1>10
<1>14. \A k \in Keys : Has(reg', k, TRUE) => silence'[k] = 0
  <2> SUFFICES ASSUME NEW k \in Keys, Has(reg', k, TRUE) PROVE silence[k] = 0
    BY <1>3
  <2>1. Has(reg, k, TRUE) \/ k = reg.key_id
    BY <1>7
  <2>2. k = reg.key_id => reg.key_id <= k
    BY <1>1
  <2> QED BY <1>1, <2>1, <2>2 DEF SilenceMarked
<1>15. \A k \in Keys : Has(reg', k, FALSE) => silence'[k] = 1
  <2> SUFFICES ASSUME NEW k \in Keys, Has(reg', k, FALSE) PROVE silence[k] = 1
    BY <1>3
  <2>1. Has(reg, k, FALSE)
    <3>1. Has(reg, k, FALSE) \/ (k = reg.key_id /\ FALSE = TRUE)
      BY <1>7, Zenon
    <3> QED BY <3>1
  <2> QED BY <1>1, <2>1 DEF SilenceMarked
<1>16. \A k \in Keys : reg'.key_id <= k => silence'[k] = 0
  <2> SUFFICES ASSUME NEW k \in Keys, reg'.key_id <= k PROVE silence[k] = 0
    BY <1>3
  <2>1. reg.key_id <= k
    BY <1>1, <1>7 DEF Keys
  <2> QED BY <1>1, <2>1 DEF SilenceMarked
<1>17. LInv'
  BY <1>4, <1>7, <1>9, <1>11, <1>12, <1>13, <1>14, <1>15, <1>16, RegistryStepOK
<1>18. \A k : Registered(k) => Has(reg', k, TRUE) \/ Has(reg', k, FALSE)
  BY <1>1, <1>7, RegisteredIs
<1> QED BY <1>17, <1>18

LEMMA KeepAlivePingOK ==
  ASSUME LInv, KeepAlivePing
  PROVE  LInv' /\ \A k : Registered(k) => Has(reg', k, TRUE) \/ Has(reg', k, FALSE)
<1>1. /\ OthersTyped /\ RegOK(reg) /\ XappsOwn /\ RequestsOwn /\ SilenceMarked
      /\ reg.key_id \in 1 .. MaxKeyId /\ reg.key_id \in Nat
  BY LInvFacts
<1>2. PICK m : m = Head(box["ping"])
  OBVIOUS
<1>3. Receive("ping", "PING") /\ owner' = owner
  BY DEF KeepAlivePing
<1>4. /\ box' \in [Servers -> Seq(Request)] /\ m \in Request /\ m.type = "PING"
      /\ \E i \in DOMAIN box["ping"] : box["ping"][i] = m
      /\ \A t \in Servers : \A i \in DOMAIN box'[t] : \E j \in DOMAIN box[t] : box'[t][i] = box[t][j]
  <2>1. "ping" \in Servers
    BY DEF Servers
  <2> QED BY <1>1, <1>2, <1>3, <2>1, ReceiveKeeps
<1>5. m.from \in Xapps /\ m.id \in XappId /\ m.id \in Nat
  BY <1>4 DEF Request, XappId
<1>6. m.id # 0 /\ m.id < reg.key_id /\ owner[m.id] = m.from
  <2>1. "ping" \in Servers
    BY DEF Servers
  <2> QED BY <1>1, <1>4, <2>1 DEF RequestsOwn
<1>7. ASSUME find_reg(reg, m.id) # assoc_reg_end(reg),
             reg' = assoc_reg_value_set(reg, find_reg(reg, m.id), TRUE),
             silence' = [silence EXCEPT ![m.id] = 0], Answer(m.from, "PING", "up", m.id)
      PROVE  LInv' /\ \A k : Registered(k) => Has(reg', k, TRUE) \/ Has(reg', k, FALSE)
  <2>0. KeyActive(reg, reg', m.id)
    BY <1>1, <1>5, <1>7, PingMarks
  <2>1. /\ RegOK(reg') /\ reg'.key_id = reg.key_id
        /\ \A k, v : Has(reg', k, v) <=> (k = m.id /\ v = TRUE) \/ (k # m.id /\ Has(reg, k, v))
    BY <2>0 DEF KeyActive
  <2>2. /\ xapp' \in [Xapps -> XappState]
        /\ \A y \in Xapps : xapp'[y] = xapp[y] \/ (y = m.from /\ xapp'[y].id = m.id)
    BY <1>1, <1>5, <1>7, AnswerSets
  <2>3. m.id \in 1 .. (reg'.key_id - 1) /\ m.id \in Keys
    BY <1>1, <1>5, <1>6, <2>1 DEF Keys
  <2>4. silence' \in [Keys -> 0 .. MaxSilence] /\ silence'[m.id] = 0
        /\ \A k \in Keys : k # m.id => silence'[k] = silence[k]
    <3>1. 0 \in 0 .. MaxSilence
      OBVIOUS
    <3> QED BY <1>1, <1>7, <2>3, <3>1 DEF OthersTyped
  <2>5. OthersTyped'
    BY <1>1, <1>3, <1>4, <2>2, <2>4 DEF OthersTyped
  <2>6. \A y \in Xapps : xapp'[y] = xapp[y] \/ (xapp'[y].id \in 1 .. (reg'.key_id - 1) /\ owner'[xapp'[y].id] = y)
    BY <1>3, <1>6, <2>2, <2>3
  <2>7. \A k \in Keys : Has(reg', k, TRUE) => silence'[k] = 0
    <3> SUFFICES ASSUME NEW k \in Keys, Has(reg', k, TRUE), k # m.id PROVE silence[k] = 0
      BY <2>4
    <3>1. Has(reg, k, TRUE)
      BY <2>1
    <3> QED BY <1>1, <3>1 DEF SilenceMarked
  <2>8. \A k \in Keys : Has(reg', k, FALSE) => silence'[k] = 1
    <3> SUFFICES ASSUME NEW k \in Keys, Has(reg', k, FALSE) PROVE silence'[k] = 1
      OBVIOUS
    <3>1. (k = m.id /\ FALSE = TRUE) \/ (k # m.id /\ Has(reg, k, FALSE))
      BY <2>1, Zenon
    <3>2. k # m.id /\ Has(reg, k, FALSE)
      BY <3>1
    <3> QED BY <1>1, <2>4, <3>2 DEF SilenceMarked
  <2>9. \A k \in Keys : reg'.key_id <= k => silence'[k] = 0
    <3> SUFFICES ASSUME NEW k \in Keys, reg'.key_id <= k, k # m.id PROVE silence[k] = 0
      BY <2>4
    <3> QED BY <1>1, <2>1 DEF SilenceMarked
  <2>10. reg.key_id <= reg'.key_id /\ reg'.key_id \in 1 .. MaxKeyId
    BY <1>1, <2>1
  <2>11. LInv'
    BY <1>3, <1>4, <2>1, <2>5, <2>6, <2>7, <2>8, <2>9, <2>10, RegistryStepOK
  <2>12. ASSUME NEW k, Registered(k) PROVE Has(reg', k, TRUE) \/ Has(reg', k, FALSE)
    <3>1. CASE k = m.id
      BY <2>1, <3>1
    <3>2. CASE k # m.id
      <4>1. Has(reg, k, TRUE) \/ Has(reg, k, FALSE)
        BY <1>1, <2>12, RegisteredIs
      <4> QED BY <2>1, <3>2, <4>1
    <3> QED BY <3>1, <3>2
  <2> QED BY <2>11, <2>12
<1>8. ASSUME UNCHANGED <<reg, silence, xapp>>
      PROVE  LInv' /\ \A k : Registered(k) => Has(reg', k, TRUE) \/ Has(reg', k, FALSE)
  <2>1. reg' = reg /\ silence' = silence /\ xapp' = xapp
    BY <1>8
  <2>2. OthersTyped'
    BY <1>1, <1>3, <1>4, <2>1 DEF OthersTyped
  <2>3. /\ \A k \in Keys : Has(reg', k, TRUE) => silence'[k] = 0
        /\ \A k \in Keys : Has(reg', k, FALSE) => silence'[k] = 1
        /\ \A k \in Keys : reg'.key_id <= k => silence'[k] = 0
    BY <1>1, <2>1 DEF SilenceMarked
  <2>4. RegOK(reg') /\ reg'.key_id \in 1 .. MaxKeyId /\ reg.key_id <= reg'.key_id
    BY <1>1, <2>1
  <2>5. LInv'
    BY <1>3, <1>4, <2>1, <2>2, <2>3, <2>4, RegistryStepOK
  <2>6. \A k : Registered(k) => Has(reg', k, TRUE) \/ Has(reg', k, FALSE)
    BY <1>1, <2>1, RegisteredIs
  <2> QED BY <2>5, <2>6
<1> QED BY <1>2, <1>7, <1>8 DEF KeepAlivePing

LEMMA RequestFunOK ==
  ASSUME LInv, RequestFun
  PROVE  LInv' /\ reg' = reg
<1>1. /\ OthersTyped /\ RegOK(reg) /\ XappsOwn /\ RequestsOwn /\ SilenceMarked
      /\ reg.key_id \in 1 .. MaxKeyId /\ reg.key_id \in Nat
  BY LInvFacts
<1>2. PICK m : m = Head(box["msg"])
  OBVIOUS
<1>3. Receive("msg", "REQUEST") /\ reg' = reg /\ silence' = silence /\ owner' = owner
  BY DEF RequestFun
<1>4. "msg" \in Servers
  BY DEF Servers
<1>5. /\ box' \in [Servers -> Seq(Request)] /\ m \in Request /\ m.type = "REQUEST"
      /\ \E i \in DOMAIN box["msg"] : box["msg"][i] = m
      /\ \A t \in Servers : \A i \in DOMAIN box'[t] : \E j \in DOMAIN box[t] : box'[t][i] = box[t][j]
  BY <1>1, <1>2, <1>3, <1>4, ReceiveKeeps
<1>6. m.from \in Xapps /\ m.id \in XappId /\ m.id \in Nat /\ 0 \in XappId
  BY <1>5 DEF Request, XappId
<1>7. m.id # 0 /\ m.id < reg.key_id /\ owner[m.id] = m.from
  BY <1>1, <1>4, <1>5 DEF RequestsOwn
<1>8. m.id \in 1 .. (reg'.key_id - 1)
  BY <1>1, <1>3, <1>6, <1>7
<1>9. /\ xapp' \in [Xapps -> XappState]
      /\ \A y \in Xapps : \/ xapp'[y] = xapp[y]
                          \/ xapp'[y].id = 0 /\ xapp'[y].pc = "start"
                          \/ xapp'[y].id \in 1 .. (reg'.key_id - 1) /\ owner'[xapp'[y].id] = y
  <2>1. CASE Answer(m.from, "REQUEST", "up", m.id)
    <3>1. /\ xapp' \in [Xapps -> XappState]
          /\ \A y \in Xapps : xapp'[y] = xapp[y] \/ (y = m.from /\ xapp'[y].id = m.id)
      BY <1>1, <1>6, <2>1, AnswerSets
    <3> QED BY <1>3, <1>7, <1>8, <3>1
  <2>2. CASE Answer(m.from, "REQUEST", "start", 0)
    <3>1. /\ xapp' \in [Xapps -> XappState]
          /\ \A y \in Xapps : xapp'[y] = xapp[y] \/ (xapp'[y].pc = "start" /\ xapp'[y].id = 0)
      BY <1>1, <1>6, <2>2, AnswerSets
    <3> QED BY <3>1
  <2> QED BY <1>2, <2>1, <2>2 DEF RequestFun
<1>10. OthersTyped'
  BY <1>1, <1>3, <1>5, <1>9 DEF OthersTyped
<1>11. /\ \A k \in Keys : Has(reg', k, TRUE) => silence'[k] = 0
       /\ \A k \in Keys : Has(reg', k, FALSE) => silence'[k] = 1
       /\ \A k \in Keys : reg'.key_id <= k => silence'[k] = 0
  BY <1>1, <1>3 DEF SilenceMarked
<1>12. RegOK(reg') /\ reg'.key_id \in 1 .. MaxKeyId /\ reg.key_id <= reg'.key_id
  BY <1>1, <1>3
<1>13. LInv'
  BY <1>3, <1>5, <1>9, <1>10, <1>11, <1>12, RegistryStepOK
<1> QED BY <1>3, <1>13

(* An expiration removes an id only if it is marked inactive, and counts for  *)
(* those that stay.                                                           *)
LEMMA TimerExpiredOK ==
  ASSUME LInv, KeepAliveTimerExpired
  PROVE  /\ LInv'
         /\ \A k \in Keys : Registered(k) => Has(reg', k, TRUE) \/ Has(reg', k, FALSE) \/ silence[k] >= 1
<1>1. /\ OthersTyped /\ RegOK(reg) /\ XappsOwn /\ RequestsOwn /\ SilenceMarked
      /\ reg.key_id \in 1 .. MaxKeyId /\ reg.key_id \in Nat
  BY LInvFacts
<1>2. /\ reg' = for_each_reg_set(remove_if_range_reg(reg, {FALSE}), FALSE)
      /\ box' = box /\ xapp' = xapp /\ owner' = owner
  BY DEF KeepAliveTimerExpired
<1>3. silence' = [k \in Keys |-> IF Registered(k) /\ silence[k] < MaxSilence
                                 THEN silence[k] + 1 ELSE silence[k]]
  BY DEF KeepAliveTimerExpired, CountSilence
<1>4. AllInactive(reg, reg')
  BY <1>1, <1>2, ExpiryMarks
<1>5. /\ RegOK(reg') /\ reg'.key_id = reg.key_id
      /\ \A k, v : Has(reg', k, v) <=> v = FALSE /\ Has(reg, k, TRUE)
  BY <1>4 DEF AllInactive
<1>6. silence \in [Keys -> 0 .. MaxSilence]
  BY <1>1 DEF OthersTyped
<1>7. silence' \in [Keys -> 0 .. MaxSilence]
  <2>1. \A k \in Keys : silence[k] \in 0 .. MaxSilence
    BY <1>6
  <2>2. \A n \in 0 .. MaxSilence : n < MaxSilence => n + 1 \in 0 .. MaxSilence
    OBVIOUS
  <2> QED BY <1>3, <2>1, <2>2
<1>8. OthersTyped'
  BY <1>1, <1>2, <1>7 DEF OthersTyped
<1>9. \A k \in Keys : ~Has(reg', k, TRUE)
  <2> SUFFICES ASSUME NEW k \in Keys, Has(reg', k, TRUE) PROVE FALSE
    OBVIOUS
  <2>1. TRUE = FALSE
    BY <1>5, Zenon
  <2> QED BY <2>1
<1>10. ASSUME NEW k \in Keys, Has(reg', k, FALSE) PROVE silence'[k] = 1
  <2>1. Has(reg, k, TRUE)
    BY <1>5, <1>10
  <2>2. silence[k] = 0 /\ Registered(k)
    BY <1>1, <2>1, RegisteredIs DEF SilenceMarked
  <2>3. 0 < MaxSilence /\ 0 + 1 = 1
    OBVIOUS
  <2> QED BY <1>3, <2>2, <2>3
<1>11. ASSUME NEW k \in Keys, reg'.key_id <= k PROVE silence'[k] = 0
  <2>1. k \in Nat /\ reg.key_id <= k
    BY <1>5, <1>11 DEF Keys
  <2>2. ~Registered(k)
    <3> SUFFICES ASSUME Registered(k) PROVE FALSE
      OBVIOUS
    <3>1. \E v : Has(reg, k, v)
      BY <1>1, RegisteredIs
    <3>2. k \in 1 .. (reg.key_id - 1)
      BY <1>1, <3>1, HasIs
    <3> QED BY <1>1, <2>1, <3>2
  <2>3. silence[k] = 0
    BY <1>1, <2>1 DEF SilenceMarked
  <2> QED BY <1>3, <2>2, <2>3
<1>12. reg'.key_id \in 1 .. MaxKeyId /\ reg.key_id <= reg'.key_id
  BY <1>1, <1>5
<1>13. LInv'
  <2>1. \A k \in Keys : Has(reg', k, TRUE) => silence'[k] = 0
    BY <1>9
  <2>2. \A k \in Keys : Has(reg', k, FALSE) => silence'[k] = 1
    BY <1>10
  <2>3. \A k \in Keys : reg'.key_id <= k => silence'[k] = 0
    BY <1>11
  <2>4. RegOK(reg')
    BY <1>5
  <2> QED BY <1>2, <1>8, <1>12, <2>1, <2>2, <2>3, <2>4, RegistryStepOK
<1>14. ASSUME NEW k \in Keys, Registered(k)
       PROVE  Has(reg', k, TRUE) \/ Has(reg', k, FALSE) \/ silence[k] >= 1
  <2>1. Has(reg, k, TRUE) \/ Has(reg, k, FALSE)
    BY <1>1, <1>14, RegisteredIs
  <2>2. CASE Has(reg, k, TRUE)
    BY <1>5, <2>2
  <2>3. CASE Has(reg, k, FALSE)
    <3>1. silence[k] = 1
      BY <1>1, <2>3, Zenon DEF SilenceMarked
    <3> QED BY <3>1
  <2> QED BY <2>1, <2>2, <2>3
<1> QED BY <1>13, <1>14

(* Registered, in the next state. *)
LEMMA RegisteredNext ==
  ASSUME RegOK(reg'), NEW k, NEW v, Has(reg', k, v)
  PROVE  Registered(k)'
<1>1. PICK i \in Live(reg'.arr) : reg'.arr[i].key = k
  BY HasIs
<1> QED BY <1>1 DEF Registered, Live

LEMMA ListenerStepOK ==
  ASSUME LInv, [ListenerNext]_listenerVars
  PROVE  /\ LInv'
         /\ \A k \in Keys : Registered(k) /\ ~Registered(k)' => silence[k] >= 1
<1>1. RegOK(reg)
  BY LInvFacts
<1>2. ASSUME reg' = reg, NEW k \in Keys PROVE Registered(k) => Registered(k)'
  BY <1>2 DEF Registered, Live
<1>3. ASSUME LInv', NEW k \in Keys, Has(reg', k, TRUE) \/ Has(reg', k, FALSE) PROVE Registered(k)'
  <2>1. RegOK(reg')
    BY <1>3 DEF LInv, RegOK, Reg, Ordered, Live
  <2> QED BY <1>3, <2>1, RegisteredNext
<1>4. CASE GenerateId
  BY <1>3, <1>4, GenerateIdOK
<1>5. CASE KeepAlivePing
  BY <1>3, <1>5, KeepAlivePingOK
<1>6. CASE RequestFun
  BY <1>2, <1>6, RequestFunOK
<1>7. CASE KeepAliveTimerExpired
  BY <1>3, <1>7, TimerExpiredOK
<1>8. ASSUME NEW x \in Xapps, XappStep(x)
      PROVE  LInv' /\ \A k \in Keys : Registered(k) /\ ~Registered(k)' => silence[k] >= 1
  <2>1. reg' = reg
    BY <1>8 DEF XappStep, XappSend, XappResend, XappCrash
  <2> QED BY <1>2, <1>8, <2>1, XappStepOK
<1>9. CASE UNCHANGED listenerVars
  <2>1. reg' = reg /\ box' = box /\ xapp' = xapp /\ silence' = silence /\ owner' = owner
    BY <1>9 DEF listenerVars
  <2>2. LInv'
    <3>1. RegOK(reg)' /\ ListenerTypeOK'
      BY <1>1, <2>1 DEF LInv, ListenerTypeOK, RegOK, Reg, Ordered, Live
    <3>2. XappsOwn' /\ RequestsOwn'
      BY <2>1 DEF LInv, XappsOwn, RequestsOwn
    <3>3. SilenceMarked'
      BY <2>1 DEF LInv, SilenceMarked, Has, Entries, Live
    <3> QED BY <3>1, <3>2, <3>3 DEF LInv
  <2> QED BY <1>2, <2>1, <2>2
<1> QED BY <1>4, <1>5, <1>6, <1>7, <1>8, <1>9 DEF ListenerNext, ServerStep

(* For any number of xApps that register, ping, repeat requests and crash in  *)
(* any order against the two servers and the keep-alive timer of ric/iApps:   *)
(* the registry stays well formed, an id belongs to one xApp, and no xApp     *)
(* stays registered through two expirations without a ping.                   *)
THEOREM ListenerSafe == ListenerFairSpec => []ListenerInvariant
<1>1. LInv => ListenerInvariant
  <2> SUFFICES ASSUME LInv PROVE ListenerInvariant
    OBVIOUS
  <2>1. RegOK(reg) /\ XappsOwn /\ RequestsOwn /\ SilenceMarked
    BY LInvFacts
  <2>2. IdsNotShared
    BY <2>1 DEF IdsNotShared, XappsOwn, RequestsOwn
  <2>3. SilentRemovedInTime
    <3> SUFFICES ASSUME NEW k \in Keys, Registered(k) PROVE silence[k] <= 1
      BY DEF SilentRemovedInTime
    <3>1. Has(reg, k, TRUE) \/ Has(reg, k, FALSE)
      BY <2>1, RegisteredIs
    <3>2. silence[k] = 0 \/ silence[k] = 1
      BY <2>1, <3>1, Zenon DEF SilenceMarked
    <3> QED BY <3>2
  <2> QED BY <2>2, <2>3 DEF ListenerInvariant, LInv
<1>2. LInv /\ [ListenerNext]_listenerVars => LInv'
  BY ListenerStepOK
<1> QED BY <1>1, <1>2, ListenerInitOK, PTL DEF ListenerFairSpec, ListenerSpec

(* keep_alive_timer_expired drops an xApp only after an earlier expiration    *)
(* with no ping in between, and no other handler drops one: a ping per period *)
(* keeps every xApp registered, whatever the others do.                       *)
THEOREM SilentAloneRemoved == ListenerFairSpec => OnlySilentRemoved
<1>1. LInv /\ [ListenerNext]_listenerVars
        => LInv' /\ [\A k \in Keys : Registered(k) /\ ~Registered(k)' => silence[k] >= 1]_listenerVars
  BY ListenerStepOK
<1> QED BY <1>1, ListenerInitOK, PTL DEF ListenerFairSpec, ListenerSpec, OnlySilentRemoved

=============================================================================
