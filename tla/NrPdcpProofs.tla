---------------------------- MODULE NrPdcpProofs ----------------------------
(***************************************************************************)
(* Invariance proofs for NrPdcp, for any sequence number size, any number  *)
(* of SDUs below the COUNT's range and any loss, duplication and           *)
(* reordering within the window.                                           *)
(***************************************************************************)
EXTENDS NrPdcp, TLAPS, FiniteSetTheorems, SequenceTheorems

USE PdcpAssumption

-----------------------------------------------------------------------------
(***************************************************************************)
(* Powers of two, which the provers know nothing of: 2^n counts the        *)
(* subsets of 1..n, and 1..n+1 has twice as many.                          *)
(***************************************************************************)
LEMMA PowerOfTwo ==
  ASSUME NEW n \in Nat
  PROVE  2 ^ n \in Nat \ {0} /\ 2 ^ (n + 1) = 2 * 2 ^ n
<1> DEFINE S == 1 .. n
           A == SUBSET S
           B == {X \cup {n + 1} : X \in A}
           f == [X \in A |-> X \cup {n + 1}]
<1>1. IsFiniteSet(S) /\ Cardinality(S) = n
  BY FS_Interval
<1>2. IsFiniteSet(1 .. n + 1) /\ Cardinality(1 .. n + 1) = n + 1
  BY FS_Interval
<1>3. /\ IsFiniteSet(A) /\ Cardinality(A) = 2 ^ n
      /\ Cardinality(SUBSET (1 .. n + 1)) = 2 ^ (n + 1)
  BY <1>1, <1>2, FS_SUBSET
<1>4. \A X \in A : n + 1 \notin X
  OBVIOUS
<1>5. f \in Bijection(A, B)
  <2>1. f \in [A -> B] /\ \A Y \in B : \E X \in A : f[X] = Y
    OBVIOUS
  <2>2. \A X, Y \in A : f[X] = f[Y] => X = Y
    <3> SUFFICES ASSUME NEW X \in A, NEW Y \in A, X \cup {n + 1} = Y \cup {n + 1} PROVE X = Y
      OBVIOUS
    <3>1. \A x : x \in X <=> x \in Y
      BY <1>4
    <3> QED BY <3>1
  <2> QED BY <2>1, <2>2 DEF Bijection, Injection, Surjection, IsInjective
<1>6. IsFiniteSet(B) /\ Cardinality(B) = 2 ^ n
  BY <1>3, <1>5, FS_Bijection DEF ExistsBijection
<1>7. SUBSET (1 .. n + 1) = A \cup B
  <2>1. ASSUME NEW T \in SUBSET (1 .. n + 1) PROVE T \in A \cup B
    <3>1. CASE n + 1 \notin T
      <4>1. \A x \in T : x \in S
        BY <3>1
      <4> QED BY <4>1
    <3>2. CASE n + 1 \in T
      <4>1. \A x \in T \ {n + 1} : x \in S
        OBVIOUS
      <4>2. T \ {n + 1} \in A /\ T = (T \ {n + 1}) \cup {n + 1}
        BY <3>2, <4>1
      <4> QED BY <4>2
    <3> QED BY <3>1, <3>2
  <2>2. ASSUME NEW T \in A \cup B PROVE T \in SUBSET (1 .. n + 1)
    <3>1. S \subseteq 1 .. n + 1 /\ n + 1 \in 1 .. n + 1
      OBVIOUS
    <3> QED BY <3>1
  <2> QED BY <2>1, <2>2
<1>8. A \cap B = {}
  BY <1>4
<1>9. {} \in A /\ Cardinality(A) # 0 /\ Cardinality(A) \in Nat
  BY <1>3, FS_EmptySet, FS_CardinalityType
<1>10. Cardinality({}) = 0
  BY FS_EmptySet
<1>11. Cardinality(A \cup B) = Cardinality(A) + Cardinality(B) - Cardinality(A \cap B)
  BY <1>3, <1>6, FS_Union
<1>12. Cardinality(A \cap B) = 0 /\ Cardinality(B) = Cardinality(A)
  BY <1>3, <1>6, <1>8, <1>10
<1>13. 2 ^ (n + 1) = Cardinality(A \cup B)
  BY <1>3, <1>7
<1>14. Cardinality(A \cup B) = 2 * Cardinality(A)
  BY <1>9, <1>11, <1>12
<1> HIDE DEF A, B, S
<1> QED BY <1>3, <1>9, <1>13, <1>14

-----------------------------------------------------------------------------
(***************************************************************************)
(* Lists of SDUs.                                                          *)
(***************************************************************************)

\* What the receiver keeps of an SDU.
Sdu == [count : Nat, sdu : Nat, failed : BOOLEAN]

\* In the order of their COUNTs; each with the COUNT it was sent with.
Sorted(list) == \A i, j \in DOMAIN list : i < j => list[i].count < list[j].count
Named(list) == \A i \in DOMAIN list : list[i].count = list[i].sdu

\* The SDUs of a list whose integrity check failed.
FailedAt(list) == {i \in DOMAIN list : list[i].failed}

(* The COUNTs of a list are naturals. *)
LEMMA ListTypes ==
  ASSUME NEW list \in Seq(Sdu)
  PROVE  /\ Len(list) \in Nat /\ DOMAIN list = 1 .. Len(list)
         /\ \A i \in DOMAIN list : list[i] \in Sdu /\ list[i].count \in Nat
<1>1. Len(list) \in Nat /\ DOMAIN list = 1 .. Len(list) /\ \A i \in DOMAIN list : list[i] \in Sdu
  OBVIOUS
<1>2. \A e \in Sdu : e.count \in Nat
  BY DEF Sdu
<1> QED BY <1>1, <1>2

(* A set of positions that is closed downwards is an initial interval, and    *)
(* its cardinality the last of them.                                          *)
LEMMA PrefixCardinality ==
  ASSUME NEW n \in Nat, NEW P \in SUBSET (1 .. n),
         \A i \in P : \A j \in 1 .. i : j \in P
  PROVE  /\ Cardinality(P) \in 0 .. n
         /\ \A i \in 1 .. n : i \in P <=> i <= Cardinality(P)
<1> DEFINE K == {k \in Nat : k + 1 \notin P}
<1>1. n \in K
  OBVIOUS
<1>2. PICK m \in K : \A k \in K : ~(<<k, m>> \in OpToRel(<, Nat))
  BY <1>1, NatLessThanWellFounded, WFMin
<1>3. m \in Nat /\ m + 1 \notin P /\ \A k \in Nat : k < m => k + 1 \in P
  BY <1>2 DEF OpToRel
<1>4. m <= n
  <2>1. ~(n < m)
    BY <1>1, <1>3
  <2> QED BY <1>3, <2>1
<1>5. \A i \in 1 .. n : i \in P <=> i <= m
  <2> SUFFICES ASSUME NEW i \in 1 .. n PROVE i \in P <=> i <= m
    OBVIOUS
  <2>1. CASE i <= m
    <3>1. i - 1 \in Nat /\ i - 1 < m /\ (i - 1) + 1 = i
      BY <1>3, <2>1
    <3> QED BY <1>3, <2>1, <3>1
  <2>2. CASE ~(i <= m)
    <3>1. m + 1 \in 1 .. i
      BY <1>3, <2>2
    <3> QED BY <1>3, <2>2, <3>1
  <2> QED BY <2>1, <2>2
<1>6. P = 1 .. m
  <2>1. ASSUME NEW i \in P PROVE i \in 1 .. m
    <3>1. i \in 1 .. n
      OBVIOUS
    <3> QED BY <1>3, <1>5, <3>1
  <2>2. ASSUME NEW i \in 1 .. m PROVE i \in P
    <3>1. i \in 1 .. n /\ i <= m
      BY <1>3, <1>4
    <3> QED BY <1>5, <3>1
  <2> QED BY <2>1, <2>2
<1>7. Cardinality(P) = m
  BY <1>3, <1>6, FS_Interval
<1> QED BY <1>3, <1>4, <1>5, <1>7

(* What is left of a list when its first n elements are dropped. *)
LEMMA DropIs ==
  ASSUME NEW list \in Seq(Sdu), NEW n \in 0 .. Len(list)
  PROVE  LET q == SubSeq(list, n + 1, Len(list))
         IN  /\ q \in Seq(Sdu) /\ Len(q) = Len(list) - n /\ DOMAIN q = 1 .. Len(list) - n
             /\ \A i \in 1 .. Len(list) - n : q[i] = list[n + i]
<1> DEFINE q == SubSeq(list, n + 1, Len(list))
<1>1. Len(list) \in Nat /\ n \in Nat /\ n <= Len(list)
  OBVIOUS
<1>2. \A i \in n + 1 .. Len(list) : list[i] \in Sdu
  OBVIOUS
<1>3. /\ q \in Seq(Sdu) /\ Len(q) = (IF n + 1 <= Len(list) THEN Len(list) - (n + 1) + 1 ELSE 0)
      /\ \A i \in 1 .. Len(list) - (n + 1) + 1 : q[i] = list[(n + 1) + i - 1]
  BY <1>1, <1>2, SubSeqProperties
<1>4. Len(q) = Len(list) - n /\ Len(list) - (n + 1) + 1 = Len(list) - n
  BY <1>1, <1>3
<1>5. \A i \in 1 .. Len(list) - n : (n + 1) + i - 1 = n + i
  BY <1>1
<1>6. DOMAIN q = 1 .. Len(q)
  BY <1>3
<1> QED BY <1>3, <1>4, <1>5, <1>6

(* RunLength is the length of the longest run of COUNTs from, from + 1, ... *)
LEMMA RunLengthIs ==
  ASSUME NEW list \in Seq(Sdu), NEW from \in Nat
  PROVE  LET r == RunLength(list, from)
         IN  /\ r \in 0 .. Len(list)
             /\ \A i \in 1 .. r : list[i].count = from + i - 1
             /\ r < Len(list) => list[r + 1].count # from + r
<1> DEFINE P == {i \in DOMAIN list : \A j \in 1 .. i : list[j].count = from + j - 1}
           r == Cardinality(P)
<1>1. Len(list) \in Nat /\ P \in SUBSET (1 .. Len(list)) /\ DOMAIN list = 1 .. Len(list)
  OBVIOUS
<1>2. ASSUME NEW i \in P, NEW j \in 1 .. i PROVE j \in P
  <2>1. j \in DOMAIN list /\ \A k \in 1 .. j : k \in 1 .. i
    OBVIOUS
  <2> QED BY <2>1
<1>3. /\ r \in 0 .. Len(list)
      /\ \A i \in 1 .. Len(list) : i \in P <=> i <= r
  <2> HIDE DEF P
  <2> QED BY <1>1, <1>2, PrefixCardinality
<1> HIDE DEF r
<1>4. ASSUME NEW i \in 1 .. r PROVE list[i].count = from + i - 1
  <2>1. i \in P
    BY <1>3
  <2>2. i \in 1 .. i
    OBVIOUS
  <2> QED BY <2>1, <2>2
<1>5. ASSUME r < Len(list), list[r + 1].count = from + r PROVE FALSE
  <2>1. r + 1 \in DOMAIN list /\ ~(r + 1 <= r) /\ from + (r + 1) - 1 = from + r
    BY <1>3, <1>5
  <2>2. \A j \in 1 .. r + 1 : j \in 1 .. r \/ j = r + 1
    BY <1>3
  <2>3. \A j \in 1 .. r + 1 : list[j].count = from + j - 1
    BY <1>4, <1>5, <2>1, <2>2
  <2>4. r + 1 \in P
    BY <2>1, <2>3
  <2> QED BY <1>1, <1>3, <2>1, <2>4
<1>6. RunLength(list, from) = r
  BY DEF RunLength, r
<1> QED BY <1>3, <1>4, <1>5, <1>6

(* The SDUs of a sorted list below a bound come first. *)
LEMMA LateIs ==
  ASSUME NEW list \in Seq(Sdu), Sorted(list), NEW x \in Nat
  PROVE  LET late == Cardinality({i \in DOMAIN list : list[i].count < x})
         IN  /\ late \in 0 .. Len(list)
             /\ \A i \in 1 .. Len(list) : list[i].count < x <=> i <= late
<1> DEFINE P == {i \in DOMAIN list : list[i].count < x}
<1>1. /\ Len(list) \in Nat /\ P \in SUBSET (1 .. Len(list)) /\ DOMAIN list = 1 .. Len(list)
      /\ \A i \in DOMAIN list : list[i].count \in Nat
  BY ListTypes
<1>2. ASSUME NEW i \in P, NEW j \in 1 .. i PROVE j \in P
  <2>1. j \in DOMAIN list /\ (j = i \/ j < i)
    BY <1>1
  <2>2. list[i].count \in Nat /\ list[j].count \in Nat /\ list[i].count < x
    BY <1>1, <2>1
  <2>3. j < i => list[j].count < list[i].count
    BY <2>1 DEF Sorted
  <2> QED BY <2>1, <2>2, <2>3
<1>3. /\ Cardinality(P) \in 0 .. Len(list)
      /\ \A i \in 1 .. Len(list) : i \in P <=> i <= Cardinality(P)
  <2> HIDE DEF P
  <2> QED BY <1>1, <1>2, PrefixCardinality
<1> QED BY <1>1, <1>3

(* nr_pdcp_sdu_list_add puts a new COUNT where the order wants it. *)
LEMMA ListAddIs ==
  ASSUME NEW list \in Seq(Sdu), NEW s \in Sdu, Sorted(list), ~nr_pdcp_sdu_in_list(list, s.count)
  PROVE  \E r \in Seq(Sdu) :
           /\ nr_pdcp_sdu_list_add(list, s) = r
           /\ Sorted(r)
           /\ Len(r) = Len(list) + 1
           /\ \E n \in 0 .. Len(list) :
                r = SubSeq(list, 1, n) \o <<s>> \o SubSeq(list, n + 1, Len(list))
           /\ \A i \in DOMAIN r : r[i] = s \/ \E j \in DOMAIN list : r[i] = list[j]
           /\ (\A j \in DOMAIN list : s.count < list[j].count) => r[1] = s
<1> DEFINE P == {i \in DOMAIN list : \A j \in 1 .. i : s.count >= list[j].count}
           n == Cardinality(P)
           r == SubSeq(list, 1, n) \o <<s>> \o SubSeq(list, n + 1, Len(list))
<1>1. /\ Len(list) \in Nat /\ P \in SUBSET (1 .. Len(list)) /\ DOMAIN list = 1 .. Len(list)
      /\ \A i \in DOMAIN list : list[i].count \in Nat /\ list[i].count # s.count
      /\ s.count \in Nat
  <2>1. /\ Len(list) \in Nat /\ P \in SUBSET (1 .. Len(list)) /\ DOMAIN list = 1 .. Len(list)
        /\ \A i \in DOMAIN list : list[i].count \in Nat
    BY ListTypes
  <2>2. \A i \in DOMAIN list : list[i].count # s.count
    BY DEF nr_pdcp_sdu_in_list
  <2>3. s.count \in Nat
    BY DEF Sdu
  <2> QED BY <2>1, <2>2, <2>3
<1>2. ASSUME NEW i \in P, NEW j \in 1 .. i PROVE j \in P
  <2>1. j \in DOMAIN list /\ \A k \in 1 .. j : k \in 1 .. i
    BY <1>1
  <2> QED BY <2>1
<1>3. /\ n \in 0 .. Len(list)
      /\ \A i \in 1 .. Len(list) : i \in P <=> i <= n
  <2> HIDE DEF P
  <2> QED BY <1>1, <1>2, PrefixCardinality
<1>4. r = nr_pdcp_sdu_list_add(list, s)
  BY DEF nr_pdcp_sdu_list_add
<1> HIDE DEF n
<1>5. \A i \in 1 .. n : list[i].count < s.count
  <2> SUFFICES ASSUME NEW i \in 1 .. n PROVE list[i].count < s.count
    OBVIOUS
  <2>1. i \in 1 .. Len(list) /\ i <= n
    BY <1>3
  <2>2. i \in P /\ i \in 1 .. i
    BY <1>3, <2>1
  <2>3. s.count >= list[i].count
    BY <2>2
  <2> QED BY <1>1, <2>1, <2>3
<1>6. \A i \in n + 1 .. Len(list) : s.count < list[i].count
  <2> SUFFICES ASSUME NEW i \in n + 1 .. Len(list) PROVE s.count < list[i].count
    OBVIOUS
  <2>1. n + 1 \in 1 .. Len(list) /\ ~(n + 1 <= n)
    BY <1>3
  <2>2. n + 1 \notin P
    BY <1>3, <2>1
  <2>3. PICK j \in 1 .. n + 1 : ~(s.count >= list[j].count)
    BY <1>1, <2>1, <2>2
  <2>4. j \in DOMAIN list /\ i \in DOMAIN list /\ (j = i \/ j < i)
    BY <1>1, <1>3
  <2>5. list[j].count = list[i].count \/ list[j].count < list[i].count
    BY <2>4 DEF Sorted
  <2>6. list[j].count \in Nat /\ list[i].count \in Nat /\ s.count \in Nat
    BY <1>1, <2>4
  <2> QED BY <2>3, <2>5, <2>6
<1>7. /\ r \in Seq(Sdu) /\ Len(r) = Len(list) + 1 /\ DOMAIN r = 1 .. Len(list) + 1
      /\ \A i \in 1 .. n : r[i] = list[i]
      /\ r[n + 1] = s
      /\ \A i \in n + 2 .. Len(list) + 1 : r[i] = list[i - 1]
  <2> DEFINE p == SubSeq(list, 1, n) \o <<s>>
             q == SubSeq(list, n + 1, Len(list))
  <2>1. /\ SubSeq(list, 1, n) \in Seq(Sdu) /\ Len(SubSeq(list, 1, n)) = n
        /\ \A i \in 1 .. n : SubSeq(list, 1, n)[i] = list[i]
    BY <1>1, <1>3
  <2>2. /\ p \in Seq(Sdu) /\ Len(p) = n + 1 /\ p[n + 1] = s
        /\ \A i \in 1 .. n : p[i] = list[i]
    <3> HIDE DEF P
    <3> QED BY <1>1, <1>3, <2>1
  <2>3. /\ q \in Seq(Sdu) /\ Len(q) = Len(list) - n
        /\ \A i \in 1 .. Len(list) - n : q[i] = list[n + i]
    BY <1>3, DropIs
  <2>4. r = p \o q
    OBVIOUS
  <2> HIDE DEF p, q, r
  <2>5. /\ r \in Seq(Sdu) /\ Len(r) = Len(list) + 1 /\ DOMAIN r = 1 .. Len(list) + 1
        /\ \A i \in 1 .. n + 1 : r[i] = p[i]
        /\ \A i \in n + 2 .. Len(list) + 1 : r[i] = q[i - (n + 1)]
    BY <1>1, <1>3, <2>2, <2>3, <2>4
  <2>6. ASSUME NEW i \in n + 2 .. Len(list) + 1 PROVE r[i] = list[i - 1]
    <3>1. i - (n + 1) \in 1 .. Len(list) - n /\ n + (i - (n + 1)) = i - 1
      BY <1>1, <1>3
    <3> QED BY <2>3, <2>5, <3>1
  <2>7. n + 1 \in 1 .. n + 1 /\ \A i \in 1 .. n : i \in 1 .. n + 1
    BY <1>3
  <2> QED BY <2>2, <2>5, <2>6, <2>7
<1> HIDE DEF r
<1>8. \A i \in DOMAIN r : r[i] = s \/ \E j \in DOMAIN list : r[i] = list[j]
  <2> SUFFICES ASSUME NEW i \in DOMAIN r, i # n + 1 PROVE \E j \in DOMAIN list : r[i] = list[j]
    BY <1>7
  <2>1. CASE i <= n
    BY <1>3, <1>7, <2>1
  <2>2. CASE i >= n + 2
    <3>1. i - 1 \in DOMAIN list /\ r[i] = list[i - 1]
      BY <1>1, <1>3, <1>7, <2>2
    <3> QED BY <3>1
  <2> QED BY <1>3, <1>7, <2>1, <2>2
<1>9. Sorted(r)
  <2> SUFFICES ASSUME NEW i \in 1 .. Len(list) + 1, NEW j \in 1 .. Len(list) + 1, i < j
               PROVE  r[i].count < r[j].count
    BY <1>7 DEF Sorted
  <2>1. CASE i <= n /\ j <= n
    BY <1>3, <1>7, <2>1 DEF Sorted
  <2>2. CASE i <= n /\ j = n + 1
    BY <1>3, <1>5, <1>7, <2>2
  <2>3. CASE i <= n /\ j > n + 1
    <3>1. /\ i \in DOMAIN list /\ j - 1 \in DOMAIN list /\ i < j - 1
          /\ r[i] = list[i] /\ r[j] = list[j - 1]
      BY <1>1, <1>3, <1>7, <2>3
    <3> QED BY <3>1 DEF Sorted
  <2>4. CASE i = n + 1
    <3>1. /\ j - 1 \in n + 1 .. Len(list) /\ r[i] = s /\ r[j] = list[j - 1]
      BY <1>1, <1>3, <1>7, <2>4
    <3> QED BY <1>6, <3>1
  <2>5. CASE i > n + 1
    <3>1. /\ i - 1 \in DOMAIN list /\ j - 1 \in DOMAIN list /\ i - 1 < j - 1
          /\ r[i] = list[i - 1] /\ r[j] = list[j - 1]
      BY <1>1, <1>3, <1>7, <2>5
    <3> QED BY <3>1 DEF Sorted
  <2> QED BY <1>3, <2>1, <2>2, <2>3, <2>4, <2>5
<1>10. (\A j \in DOMAIN list : s.count < list[j].count) => r[1] = s
  <2> SUFFICES ASSUME \A j \in DOMAIN list : s.count < list[j].count PROVE r[1] = s
    OBVIOUS
  <2>1. n = 0
    <3> SUFFICES ASSUME n # 0 PROVE FALSE
      OBVIOUS
    <3>1. 1 \in 1 .. n /\ 1 \in DOMAIN list
      BY <1>1, <1>3
    <3>2. list[1].count < s.count /\ s.count < list[1].count
      BY <1>5, <3>1
    <3>3. list[1].count \in Nat /\ s.count \in Nat
      BY <1>1, <3>1
    <3> QED BY <3>2, <3>3
  <2> QED BY <1>7, <2>1
<1>11. r = SubSeq(list, 1, n) \o <<s>> \o SubSeq(list, n + 1, Len(list))
  BY DEF r
<1> QED BY <1>3, <1>4, <1>7, <1>8, <1>9, <1>10, <1>11

-----------------------------------------------------------------------------
(***************************************************************************)
(* Counting the SDUs whose integrity check failed.                         *)
(***************************************************************************)
LEMMA FailedFinite ==
  ASSUME NEW list \in Seq(Sdu)
  PROVE  IsFiniteSet(FailedAt(list)) /\ Cardinality(FailedAt(list)) \in Nat
<1>1. Len(list) \in Nat /\ FailedAt(list) \in SUBSET (1 .. Len(list))
  BY DEF FailedAt
<1>2. IsFiniteSet(1 .. Len(list))
  BY <1>1, FS_Interval
<1> QED BY <1>1, <1>2, FS_Subset, FS_CardinalityType

LEMMA FailedConcat ==
  ASSUME NEW p \in Seq(Sdu), NEW q \in Seq(Sdu)
  PROVE  Cardinality(FailedAt(p \o q)) = Cardinality(FailedAt(p)) + Cardinality(FailedAt(q))
<1> DEFINE A == FailedAt(p)
           Q == FailedAt(q)
           B == {i + Len(p) : i \in Q}
           f == [i \in Q |-> i + Len(p)]
<1>0. Len(p) \in Nat /\ Len(q) \in Nat /\ DOMAIN p = 1 .. Len(p) /\ DOMAIN q = 1 .. Len(q)
  OBVIOUS
<1>1. IsFiniteSet(A) /\ IsFiniteSet(Q) /\ Q \subseteq 1 .. Len(q) /\ A \subseteq 1 .. Len(p)
  BY <1>0, FailedFinite DEF FailedAt
<1>2. f \in Bijection(Q, B)
  <2> HIDE DEF Q
  <2>1. f \in [Q -> B] /\ \A y \in B : \E x \in Q : f[x] = y
    OBVIOUS
  <2>2. \A x, y \in Q : f[x] = f[y] => x = y
    BY <1>0, <1>1
  <2> QED BY <2>1, <2>2 DEF Bijection, Injection, Surjection, IsInjective
<1>3. IsFiniteSet(B) /\ Cardinality(B) = Cardinality(Q)
  BY <1>1, <1>2, FS_Bijection DEF ExistsBijection
<1>4. A \cap B = {}
  <2> HIDE DEF A, Q
  <2> QED BY <1>0, <1>1
<1>5. FailedAt(p \o q) = A \cup B
  <2> DEFINE r == p \o q
  <2>1. /\ r \in Seq(Sdu) /\ DOMAIN r = 1 .. Len(p) + Len(q)
        /\ \A i \in 1 .. Len(p) : r[i] = p[i]
        /\ \A i \in Len(p) + 1 .. Len(p) + Len(q) : r[i] = q[i - Len(p)]
    BY <1>0
  <2> HIDE DEF r
  <2>2. ASSUME NEW i \in FailedAt(r) PROVE i \in A \cup B
    <3>0. i \in 1 .. Len(p) + Len(q) /\ r[i].failed
      BY <2>1 DEF FailedAt
    <3>1. CASE i <= Len(p)
      <4>1. i \in 1 .. Len(p)
        BY <1>0, <3>0, <3>1
      <4> QED BY <1>0, <2>1, <3>0, <4>1 DEF FailedAt
    <3>2. CASE ~(i <= Len(p))
      <4>1. /\ i \in Len(p) + 1 .. Len(p) + Len(q) /\ i - Len(p) \in 1 .. Len(q)
            /\ (i - Len(p)) + Len(p) = i
        BY <1>0, <3>0, <3>2
      <4>2. i - Len(p) \in Q
        BY <1>0, <2>1, <3>0, <4>1 DEF FailedAt
      <4> QED BY <4>1, <4>2
    <3> QED BY <3>1, <3>2
  <2>3. ASSUME NEW i \in A PROVE i \in FailedAt(r)
    <3>1. i \in 1 .. Len(p) /\ p[i].failed /\ i \in 1 .. Len(p) + Len(q)
      BY <1>0 DEF FailedAt
    <3> QED BY <2>1, <3>1 DEF FailedAt
  <2>4. ASSUME NEW i \in B PROVE i \in FailedAt(r)
    <3>1. PICK k \in Q : i = k + Len(p)
      OBVIOUS
    <3>2. k \in 1 .. Len(q) /\ q[k].failed
      BY <1>0 DEF FailedAt
    <3>3. /\ i \in Len(p) + 1 .. Len(p) + Len(q) /\ i \in 1 .. Len(p) + Len(q) /\ i - Len(p) = k
      BY <1>0, <3>1, <3>2
    <3> QED BY <2>1, <3>2, <3>3 DEF FailedAt
  <2>5. FailedAt(r) = A \cup B
    <3> HIDE DEF A, B
    <3> QED BY <2>2, <2>3, <2>4
  <2> QED BY <2>5 DEF r
<1>6. Cardinality(A \cup B) = Cardinality(A) + Cardinality(B) - Cardinality(A \cap B)
  BY <1>1, <1>3, FS_Union
<1>7. Cardinality(A \cap B) = 0
  BY <1>4, FS_EmptySet
<1>8. Cardinality(A) \in Nat /\ Cardinality(Q) \in Nat
  BY FailedFinite
<1> HIDE DEF A, B, Q
<1>9. Cardinality(A \cup B) = Cardinality(A) + Cardinality(Q)
  BY <1>3, <1>6, <1>7, <1>8
<1> QED BY <1>5, <1>9 DEF A, Q

LEMMA FailedOne ==
  ASSUME NEW s \in Sdu
  PROVE  Cardinality(FailedAt(<<s>>)) = IF s.failed THEN 1 ELSE 0
<1>1. DOMAIN <<s>> = {1} /\ <<s>>[1] = s
  OBVIOUS
<1>2. CASE s.failed
  <2>1. FailedAt(<<s>>) = {1}
    BY <1>1, <1>2 DEF FailedAt
  <2> QED BY <1>2, <2>1, FS_Singleton
<1>3. CASE ~s.failed
  <2>1. FailedAt(<<s>>) = {}
    BY <1>1, <1>3 DEF FailedAt
  <2> QED BY <1>3, <2>1, FS_EmptySet
<1> QED BY <1>2, <1>3

(* Handing up the first n SDUs moves the failed among them. *)
LEMMA FailedSplit ==
  ASSUME NEW list \in Seq(Sdu), NEW n \in 0 .. Len(list)
  PROVE  Cardinality(FailedAt(list)) =
           Cardinality(FailedAt(SubSeq(list, 1, n))) + Cardinality(FailedAt(Drop(list, n)))
<1>1. SubSeq(list, 1, n) \in Seq(Sdu) /\ Drop(list, n) \in Seq(Sdu)
  BY DropIs DEF Drop
<1>2. SubSeq(list, 1, n) \o Drop(list, n) = list
  <2>1. SubSeq(list, 1, n) \o SubSeq(list, n + 1, Len(list)) = SubSeq(list, 1, Len(list))
    <3>1. 1 \in 1 .. Len(list) + 1 /\ n \in 1 - 1 .. Len(list) /\ Len(list) \in n .. Len(list)
      OBVIOUS
    <3> QED BY <3>1, ConcatAdjacentSubSeq
  <2> QED BY <2>1, SubSeqFull DEF Drop
<1> QED BY <1>1, <1>2, FailedConcat

(* Adding an SDU counts it, wherever it goes. *)
LEMMA FailedAdd ==
  ASSUME NEW list \in Seq(Sdu), NEW s \in Sdu, NEW n \in 0 .. Len(list)
  PROVE  Cardinality(FailedAt(SubSeq(list, 1, n) \o <<s>> \o SubSeq(list, n + 1, Len(list)))) =
           Cardinality(FailedAt(list)) + (IF s.failed THEN 1 ELSE 0)
<1> DEFINE p == SubSeq(list, 1, n)
           q == SubSeq(list, n + 1, Len(list))
           k == IF s.failed THEN 1 ELSE 0
<1>1. p \in Seq(Sdu) /\ q \in Seq(Sdu)
  BY DropIs
<1>2. <<s>> \in Seq(Sdu)
  OBVIOUS
<1>3. Cardinality(FailedAt(list)) = Cardinality(FailedAt(p)) + Cardinality(FailedAt(q))
  BY FailedSplit DEF Drop
<1> HIDE DEF p, q
<1>4. p \o <<s>> \in Seq(Sdu)
  BY <1>1, <1>2, ConcatProperties
<1>5. Cardinality(FailedAt(p \o <<s>>)) = Cardinality(FailedAt(p)) + k
  BY <1>1, <1>2, FailedConcat, FailedOne
<1>6. Cardinality(FailedAt((p \o <<s>>) \o q)) = Cardinality(FailedAt(p \o <<s>>)) + Cardinality(FailedAt(q))
  BY <1>1, <1>4, FailedConcat
<1>7. Cardinality(FailedAt(p)) \in Nat /\ Cardinality(FailedAt(q)) \in Nat /\ k \in Nat
  BY <1>1, FailedFinite
<1> HIDE DEF k
<1>8. Cardinality(FailedAt((p \o <<s>>) \o q)) = Cardinality(FailedAt(list)) + k
  BY <1>3, <1>5, <1>6, <1>7
<1> QED BY <1>8 DEF p, q, k

-----------------------------------------------------------------------------
\* e is what went up after the first n SDUs of a list followed d, rest is what
\* still waits; hi bounds the one.
HandedOver(d, list, n, hi, e, rest) ==
  /\ e = d \o SubSeq(list, 1, n) /\ rest = Drop(list, n)
  /\ Len(e) = Len(d) + n /\ Len(rest) = Len(list) - n
  /\ Named(e) /\ Sorted(e) /\ \A i \in DOMAIN e : e[i].count < hi
  /\ Named(rest) /\ Sorted(rest)
  /\ \A i \in DOMAIN rest : n + i \in n + 1 .. Len(list) /\ rest[i] = list[n + i]
  /\ Cardinality(FailedAt(e)) + Cardinality(FailedAt(rest))
       = Cardinality(FailedAt(d)) + Cardinality(FailedAt(list))
  /\ \A i \in 1 .. Len(d) : e[i] = d[i]
  /\ \A i \in 1 .. n : e[Len(d) + i] = list[i]

(* Handing up the first n SDUs of a sorted list, all from lo on and those     *)
(* below hi, when what went up before is below lo.                            *)
LEMMA HandOver ==
  ASSUME NEW d \in Seq(Sdu), NEW list \in Seq(Sdu), NEW n \in 0 .. Len(list),
         NEW lo \in Nat, NEW hi \in Nat, lo <= hi,
         Named(d), Sorted(d), \A i \in DOMAIN d : d[i].count < lo,
         Named(list), Sorted(list), \A i \in DOMAIN list : lo <= list[i].count,
         \A i \in 1 .. n : list[i].count < hi
  PROVE  \E e \in Seq(Sdu), rest \in Seq(Sdu) : HandedOver(d, list, n, hi, e, rest)
<1> DEFINE up == SubSeq(list, 1, n)
           e == d \o up
           rest == Drop(list, n)
<1>0. /\ Len(d) \in Nat /\ Len(list) \in Nat /\ DOMAIN d = 1 .. Len(d) /\ DOMAIN list = 1 .. Len(list)
      /\ \A i \in DOMAIN d : d[i].count \in Nat
      /\ \A i \in DOMAIN list : list[i].count \in Nat
  BY ListTypes
<1>1. up \in Seq(Sdu) /\ Len(up) = n /\ \A i \in 1 .. n : up[i] = list[i]
  BY <1>0
<1>2. /\ rest \in Seq(Sdu) /\ Len(rest) = Len(list) - n /\ DOMAIN rest = 1 .. Len(list) - n
      /\ \A i \in DOMAIN rest : rest[i] = list[n + i]
  BY DropIs DEF Drop
<1>a. \A i \in DOMAIN rest : n + i \in n + 1 .. Len(list) /\ n + i \in DOMAIN list
  BY <1>0, <1>2
<1>3. /\ e \in Seq(Sdu) /\ Len(e) = Len(d) + n /\ DOMAIN e = 1 .. Len(d) + n
      /\ \A i \in 1 .. Len(d) : e[i] = d[i]
      /\ \A i \in Len(d) + 1 .. Len(d) + n : e[i] = up[i - Len(d)]
  <2>1. /\ e \in Seq(Sdu) /\ Len(e) = Len(d) + Len(up)
        /\ \A i \in 1 .. Len(d) + Len(up) :
             e[i] = IF i <= Len(d) THEN d[i] ELSE up[i - Len(d)]
    BY <1>1, ConcatProperties
  <2>2. DOMAIN e = 1 .. Len(e)
    BY <2>1
  <2>3. \A i \in 1 .. Len(d) : i \in 1 .. Len(d) + n /\ i <= Len(d)
    BY <1>0
  <2>4. \A i \in Len(d) + 1 .. Len(d) + n : i \in 1 .. Len(d) + n /\ ~(i <= Len(d))
    BY <1>0
  <2> HIDE DEF up, e
  <2> QED BY <1>1, <2>1, <2>2, <2>3, <2>4
<1>4. Cardinality(FailedAt(e)) + Cardinality(FailedAt(rest))
        = Cardinality(FailedAt(d)) + Cardinality(FailedAt(list))
  <2>1. Cardinality(FailedAt(list)) = Cardinality(FailedAt(up)) + Cardinality(FailedAt(rest))
    BY FailedSplit
  <2>2. Cardinality(FailedAt(e)) = Cardinality(FailedAt(d)) + Cardinality(FailedAt(up))
    BY <1>1, FailedConcat
  <2>3. /\ Cardinality(FailedAt(d)) \in Nat /\ Cardinality(FailedAt(up)) \in Nat
        /\ Cardinality(FailedAt(rest)) \in Nat
    BY <1>1, <1>2, FailedFinite
  <2> HIDE DEF e, up, rest
  <2> QED BY <2>1, <2>2, <2>3
<1> HIDE DEF e, up, rest
<1>5. \A i \in 1 .. n : /\ i \in DOMAIN list /\ e[Len(d) + i] = list[i]
                        /\ Len(d) + i \in DOMAIN e
  <2> SUFFICES ASSUME NEW i \in 1 .. n
               PROVE  /\ i \in DOMAIN list /\ e[Len(d) + i] = list[i]
                      /\ Len(d) + i \in DOMAIN e
    OBVIOUS
  <2>1. /\ i \in DOMAIN list /\ Len(d) + i \in Len(d) + 1 .. Len(d) + n
        /\ Len(d) + i \in 1 .. Len(d) + n /\ (Len(d) + i) - Len(d) = i
    BY <1>0
  <2> QED BY <1>1, <1>3, <2>1
<1>6. \A i \in DOMAIN e : \/ i \in DOMAIN d /\ e[i] = d[i]
                          \/ i - Len(d) \in 1 .. n /\ e[i] = list[i - Len(d)]
  <2> SUFFICES ASSUME NEW i \in 1 .. Len(d) + n, ~(i \in 1 .. Len(d))
               PROVE  i - Len(d) \in 1 .. n /\ e[i] = list[i - Len(d)]
    BY <1>0, <1>3
  <2>1. i - Len(d) \in 1 .. n /\ Len(d) + (i - Len(d)) = i
    BY <1>0
  <2> QED BY <1>5, <2>1
<1>7. Named(e) /\ \A i \in DOMAIN e : e[i].count < hi
  <2>1. \A i \in DOMAIN d : d[i].count < hi /\ d[i].count = d[i].sdu
    BY <1>0 DEF Named
  <2>2. \A i \in 1 .. n : list[i].count < hi /\ list[i].count = list[i].sdu
    BY <1>5 DEF Named
  <2> QED BY <1>6, <2>1, <2>2 DEF Named
<1>8. Sorted(e)
  <2> SUFFICES ASSUME NEW i \in DOMAIN e, NEW j \in DOMAIN e, i < j
               PROVE  e[i].count < e[j].count
    BY DEF Sorted
  <2>0. i \in Nat /\ j \in Nat
    BY <1>0, <1>3
  <2>1. CASE j \in DOMAIN d
    <3>1. i \in DOMAIN d /\ e[i] = d[i] /\ e[j] = d[j]
      BY <1>0, <1>3, <2>0, <2>1
    <3> QED BY <2>1, <3>1 DEF Sorted
  <2>2. CASE j \notin DOMAIN d /\ i \in DOMAIN d
    <3>1. j - Len(d) \in 1 .. n /\ e[j] = list[j - Len(d)]
      BY <1>6, <2>2
    <3>2. j - Len(d) \in DOMAIN list
      BY <1>5, <3>1
    <3>3. e[i] = d[i] /\ d[i].count < lo /\ lo <= list[j - Len(d)].count
      BY <1>0, <1>3, <2>2, <3>2
    <3>4. d[i].count \in Nat /\ list[j - Len(d)].count \in Nat
      BY <1>0, <2>2, <3>2
    <3> QED BY <3>1, <3>3, <3>4
  <2>3. CASE i \notin DOMAIN d /\ j \notin DOMAIN d
    <3>1. /\ i - Len(d) \in 1 .. n /\ e[i] = list[i - Len(d)]
          /\ j - Len(d) \in 1 .. n /\ e[j] = list[j - Len(d)]
      BY <1>6, <2>3
    <3>2. i - Len(d) \in DOMAIN list /\ j - Len(d) \in DOMAIN list /\ i - Len(d) < j - Len(d)
      BY <1>0, <1>5, <2>0, <3>1
    <3> QED BY <3>1, <3>2 DEF Sorted
  <2> QED BY <2>1, <2>2, <2>3
<1>9. Named(rest) /\ Sorted(rest)
  <2>1. Named(rest)
    BY <1>2, <1>a DEF Named
  <2>2. ASSUME NEW i \in DOMAIN rest, NEW j \in DOMAIN rest, i < j
        PROVE  rest[i].count < rest[j].count
    <3>1. n + i \in DOMAIN list /\ n + j \in DOMAIN list /\ n + i < n + j
      BY <1>0, <1>2, <1>a, <2>2
    <3> QED BY <1>2, <3>1 DEF Sorted
  <2> QED BY <2>1, <2>2 DEF Sorted
<1> QED BY <1>2, <1>a, <1>3, <1>4, <1>5, <1>7, <1>8, <1>9 DEF e, up, rest, HandedOver

-----------------------------------------------------------------------------
(***************************************************************************)
(* Sequence numbers and times.                                             *)
(***************************************************************************)
LEMMA Sizes ==
  /\ Window \in Nat \ {0} /\ SnSpace = 2 * Window /\ SnSpace \in Nat
  /\ CountSpace \in Nat \ {0} /\ MaxCount \in Nat /\ MaxCount < CountSpace
<1>1. 2 ^ (SnSize - 1) \in Nat \ {0} /\ 2 ^ ((SnSize - 1) + 1) = 2 * 2 ^ (SnSize - 1)
  <2>1. SnSize - 1 \in Nat
    OBVIOUS
  <2> QED BY <2>1, PowerOfTwo
<1>2. (SnSize - 1) + 1 = SnSize
  OBVIOUS
<1>3. 2 ^ CountBits \in Nat \ {0}
  BY PowerOfTwo
<1>4. SnSpace = 2 * Window
  BY <1>1, <1>2 DEF SnSpace, Window
<1> QED BY <1>1, <1>3, <1>4 DEF Window, CountSpace

(* An int holds what ToInt yields, and the times below half its range as they *)
(* are.                                                                       *)
LEMMA ToIntIs ==
  ASSUME NEW x \in Int
  PROVE  /\ ToInt(x) \in -(2 ^ (IntBits - 1)) .. 2 ^ (IntBits - 1) - 1
         /\ 0 <= x /\ x < 2 ^ (IntBits - 1) => ToInt(x) = x
<1> DEFINE H == 2 ^ (IntBits - 1)
<1>1. IntBits - 1 \in Nat /\ (IntBits - 1) + 1 = IntBits
  OBVIOUS
<1>2. H \in Nat \ {0} /\ 2 ^ IntBits = 2 * H
  <2>1. H \in Nat \ {0} /\ 2 ^ ((IntBits - 1) + 1) = 2 * H
    BY <1>1, PowerOfTwo
  <2> QED BY <1>1, <2>1
<1>3. ToInt(x) = ((x + H) % (2 * H)) - H
  BY <1>2 DEF ToInt
<1> HIDE DEF H
<1>4. (x + H) % (2 * H) \in 0 .. 2 * H - 1
  BY <1>2
<1>5. 0 <= x /\ x < H => (x + H) % (2 * H) = x + H
  <2> SUFFICES ASSUME 0 <= x, x < H PROVE (x + H) % (2 * H) = x + H
    OBVIOUS
  <2>1. x + H \in 0 .. 2 * H - 1
    BY <1>2
  <2> QED BY <1>2, <2>1
<1>6. /\ ToInt(x) \in -H .. H - 1
      /\ 0 <= x /\ x < H => ToInt(x) = x
  BY <1>2, <1>3, <1>4, <1>5
<1> QED BY <1>6 DEF H

LEMMA SmallMod ==
  ASSUME NEW m \in Nat \ {0}, NEW x \in 0 .. m - 1
  PROVE  x % m = x
OBVIOUS

LEMMA DivisionIs ==
  ASSUME NEW c \in Nat, NEW S \in Nat \ {0}
  PROVE  c \div S \in Int /\ c % S \in 0 .. S - 1 /\ c = ((c \div S) * S) + (c % S)
OBVIOUS

(* From a sequence number of a COUNT within half the space around rx_deliv    *)
(* the COUNT is recovered.                                                    *)
LEMMA CountIs ==
  ASSUME NEW c \in Nat, c < CountSpace, rx_deliv \in Nat,
         c >= rx_deliv - Window, c < rx_deliv + Window
  PROVE  RcvdCount(c % SnSpace) = c
<1> DEFINE S == SnSpace
           W == Window
           q == c \div S
           sn == c % S
           h == rx_deliv \div S
           sn0 == rx_deliv % S
<1>1. W \in Nat \ {0} /\ S = 2 * W /\ S \in Nat \ {0} /\ CountSpace \in Nat \ {0}
  BY Sizes
<1>2. /\ q \in Int /\ sn \in 0 .. S - 1 /\ c = q * S + sn
      /\ h \in Int /\ sn0 \in 0 .. S - 1 /\ rx_deliv = h * S + sn0
  <2> HIDE DEF S
  <2> QED BY <1>1, DivisionIs
<1>3. RcvdCount(sn) =
        ((IF sn < sn0 - W THEN h + 1 ELSE IF sn >= sn0 + W THEN h - 1 ELSE h) * S + sn) % CountSpace
  BY DEF RcvdCount
<1> HIDE DEF S, W, q, sn, h, sn0
<1>4. PICK d \in Int : d = rx_deliv
  OBVIOUS
<1>5. c - d = (q - h) * S + (sn - sn0) /\ -W <= c - d /\ c - d < W
  BY <1>1, <1>2, <1>4 DEF W
<1>6. q - h \in {-1, 0, 1}
  <2>1. ~(q - h >= 2)
    <3> SUFFICES ASSUME q - h >= 2 PROVE FALSE
      OBVIOUS
    <3>1. (q - h) * S >= 2 * S
      BY <1>1, <1>2
    <3> QED BY <1>1, <1>2, <1>5, <3>1
  <2>2. ~(q - h <= -2)
    <3> SUFFICES ASSUME q - h <= -2 PROVE FALSE
      OBVIOUS
    <3>1. (q - h) * S <= (-2) * S
      BY <1>1, <1>2
    <3> QED BY <1>1, <1>2, <1>5, <3>1
  <2> QED BY <1>2, <2>1, <2>2
<1>7. c % CountSpace = c
  BY <1>1
<1>8. ASSUME q - h = 1 PROVE RcvdCount(sn) = c
  <2>1. (q - h) * S = S
    BY <1>1, <1>8
  <2>2. sn < sn0 - W /\ q = h + 1
    BY <1>1, <1>2, <1>5, <1>8, <2>1
  <2>3. RcvdCount(sn) = (q * S + sn) % CountSpace
    BY <1>3, <2>2
  <2> QED BY <1>2, <1>7, <2>3
<1>9. ASSUME q - h = 0 PROVE RcvdCount(sn) = c
  <2>1. (q - h) * S = 0
    BY <1>1, <1>9
  <2>2. ~(sn < sn0 - W) /\ ~(sn >= sn0 + W) /\ q = h
    BY <1>1, <1>2, <1>5, <1>9, <2>1
  <2>3. RcvdCount(sn) = (q * S + sn) % CountSpace
    BY <1>3, <2>2
  <2> QED BY <1>2, <1>7, <2>3
<1>10. ASSUME q - h = -1 PROVE RcvdCount(sn) = c
  <2>1. (q - h) * S = -S
    BY <1>1, <1>10
  <2>2. ~(sn < sn0 - W) /\ sn >= sn0 + W /\ q = h - 1
    BY <1>1, <1>2, <1>5, <1>10, <2>1
  <2>3. RcvdCount(sn) = (q * S + sn) % CountSpace
    BY <1>3, <2>2
  <2> QED BY <1>2, <1>7, <2>3
<1>11. RcvdCount(sn) = c
  BY <1>6, <1>8, <1>9, <1>10
<1> QED BY <1>11 DEF sn, S

-----------------------------------------------------------------------------
(***************************************************************************)
(* The inductive invariant.                                                *)
(***************************************************************************)

\* The sender's COUNTs stay below the bound, and no state variable of the
\* receiver is ahead of them.
Numbering ==
  /\ tx_next <= MaxCount
  /\ \A pdu \in net : pdu.sdu < tx_next /\ pdu.sn = pdu.sdu % SnSpace
  /\ rx_next <= tx_next

\* What waits and what went up: each SDU under the COUNT it was sent with, and
\* what went up in order and below rx_deliv.
Lists ==
  /\ rx_list \in Seq(Sdu) /\ delivered \in Seq(Sdu)
  /\ Named(rx_list) /\ Named(delivered)
  /\ Sorted(delivered)
  /\ \A i \in DOMAIN delivered : delivered[i].count < rx_deliv

Accounts ==
  rxpdu_pkts + Cardinality(FailedAt(rx_list)) + Cardinality(FailedAt(delivered))
    = rxpdu_dd_pkts + Len(rx_list) + Len(delivered)

IInv ==
  /\ PdcpTypeOK
  /\ Numbering
  /\ ReceiverWindow
  /\ Lists
  /\ NothingSkipped
  /\ Accounts

\* What a step does to what was acknowledged upwards.
Forward ==
  /\ rx_deliv' >= rx_deliv
  /\ t_current' = t_current => rx_deliv' - rx_deliv = Len(delivered') - Len(delivered)

(* The parts of the type invariant, one by one. *)
LEMMA Types ==
  ASSUME PdcpTypeOK
  PROVE  /\ tx_next \in Nat /\ tx_next < CountSpace
         /\ rx_next \in Nat /\ rx_deliv \in Nat /\ rx_reord \in Nat
         /\ rx_next < CountSpace /\ rx_deliv < CountSpace /\ rx_reord < CountSpace
         /\ rxpdu_pkts \in Nat /\ rxpdu_dd_pkts \in Nat /\ txsdu_pkts \in Nat
         /\ t_current \in Nat /\ t_reordering_start \in Int
         /\ \A pdu \in net : pdu.sdu \in Nat /\ pdu.sn \in Nat
<1>1. \A pdu \in Pdus : pdu.sdu \in Nat /\ pdu.sn \in Nat
  BY Sizes DEF Pdus
<1>2. 2 ^ (IntBits - 1) \in Nat
  <2>1. IntBits - 1 \in Nat
    OBVIOUS
  <2> QED BY <2>1, PowerOfTwo
<1>3. t_reordering_start \in Int
  BY <1>2 DEF PdcpTypeOK
<1> QED BY <1>1, <1>3, Sizes DEF PdcpTypeOK

LEMMA InvInit == Init => IInv
<1> SUFFICES ASSUME Init PROVE IInv
  OBVIOUS
<1>1. PdcpTypeOK
  <2>1. IntBits - 1 \in Nat
    OBVIOUS
  <2>2. 2 ^ (IntBits - 1) \in Nat \ {0}
    BY <2>1, PowerOfTwo
  <2>3. 0 \in -(2 ^ (IntBits - 1)) .. 2 ^ (IntBits - 1) - 1
    BY <2>2
  <2>4. 0 \in 0 .. CountSpace - 1
    BY Sizes
  <2>5. txSecure \in BOOLEAN /\ rxSecure \in BOOLEAN
    BY Zenon DEF Init
  <2>6. DOMAIN rx_list = {}
    BY DEF Init
  <2>7. /\ tx_next = 0 /\ net = {} /\ rx_next = 0 /\ rx_deliv = 0 /\ rx_reord = 0
        /\ t_current = StartTime /\ t_reordering_start = 0
        /\ rxpdu_pkts = 0 /\ rxpdu_dd_pkts = 0 /\ txsdu_pkts = 0
    BY DEF Init
  <2> QED BY <2>3, <2>4, <2>5, <2>6, <2>7 DEF PdcpTypeOK
<1>2. rx_list = <<>> /\ delivered = <<>> /\ Len(<<>>) = 0 /\ DOMAIN <<>> = {} /\ <<>> \in Seq(Sdu)
  BY DEF Init
<1>3. Numbering /\ ReceiverWindow /\ NothingSkipped
  BY <1>2 DEF Init, Numbering, ReceiverWindow, NothingSkipped
<1>4. Lists
  BY <1>2 DEF Lists, Named, Sorted
<1>5. Cardinality(FailedAt(<<>>)) = 0
  <2>1. FailedAt(<<>>) = {}
    BY <1>2 DEF FailedAt
  <2> QED BY <2>1, FS_EmptySet
<1>6. Accounts
  BY <1>2, <1>5 DEF Init, Accounts
<1> QED BY <1>1, <1>3, <1>4, <1>6 DEF IInv

(* The sender, the start of security and the clock between expiries leave the *)
(* receiver alone.                                                            *)
LEMMA SenderKeeps ==
  ASSUME IInv, recv_sdu
  PROVE  IInv' /\ Forward
<1>0. PdcpTypeOK /\ tx_next \in Nat /\ rx_next \in Nat /\ rx_deliv \in Nat
  BY Types DEF IInv
<1>1. /\ tx_next < MaxCount
      /\ UNCHANGED <<txSecure, rxVars, rxSecure, t_reordering, timeVars, statVars, delivered>>
      /\ tx_next' = (tx_next + 1) % CountSpace
  BY DEF recv_sdu
<1>2. tx_next' = tx_next + 1 /\ tx_next' \in 0 .. CountSpace - 1 /\ tx_next' <= MaxCount
  <2>1. tx_next + 1 \in 0 .. CountSpace - 1 /\ CountSpace \in Nat \ {0}
    BY <1>0, <1>1, Sizes
  <2>2. (tx_next + 1) % CountSpace = tx_next + 1
    BY <2>1
  <2> QED BY <1>0, <1>1, <2>1, <2>2
<1>3. ASSUME NEW pdu \in net'
      PROVE  \/ pdu \in net
             \/ pdu \in Pdus /\ pdu.sdu = tx_next /\ pdu.sn = tx_next % SnSpace
  <2>1. CASE pdu \notin net
    <3>1. PICK d \in {FALSE, Damage} :
            pdu = [sn |-> tx_next % SnSpace, sdu |-> tx_next, secure |-> txSecure, damaged |-> d]
      BY <1>3, <2>1 DEF recv_sdu
    <3>2. tx_next % SnSpace \in 0 .. SnSpace - 1
      BY <1>0, Sizes
    <3>3. d \in BOOLEAN /\ txSecure \in BOOLEAN
      BY <1>0 DEF PdcpTypeOK
    <3>4. pdu \in Pdus
      BY <1>0, <3>1, <3>2, <3>3 DEF Pdus
    <3> QED BY <3>1, <3>4
  <2> QED BY <2>1
<1>4. PdcpTypeOK'
  <2>1. net' \subseteq Pdus
    BY <1>0, <1>3 DEF PdcpTypeOK
  <2> QED BY <1>0, <1>1, <1>2, <2>1 DEF PdcpTypeOK, rxVars, timeVars, statVars
<1>5. Numbering'
  <2>1. \A pdu \in net' : pdu.sdu < tx_next' /\ pdu.sn = pdu.sdu % SnSpace
    <3> SUFFICES ASSUME NEW pdu \in net' PROVE pdu.sdu < tx_next' /\ pdu.sn = pdu.sdu % SnSpace
      OBVIOUS
    <3>1. CASE pdu \in net
      <4>1. pdu.sdu \in Nat /\ pdu.sdu < tx_next /\ pdu.sn = pdu.sdu % SnSpace
        BY <1>0, <3>1, Types DEF IInv, Numbering
      <4> QED BY <1>0, <1>2, <4>1
    <3>2. CASE pdu.sdu = tx_next /\ pdu.sn = tx_next % SnSpace
      BY <1>0, <1>2, <3>2
    <3> QED BY <1>3, <3>1, <3>2
  <2>2. rx_next' <= tx_next'
    BY <1>0, <1>1, <1>2 DEF IInv, Numbering, rxVars
  <2> QED BY <1>2, <2>1, <2>2 DEF Numbering
<1>6. ReceiverWindow' /\ Lists' /\ NothingSkipped' /\ Accounts'
  BY <1>1 DEF IInv, ReceiverWindow, Lists, NothingSkipped, Accounts, rxVars, timeVars, statVars
<1>7. Forward
  <2>1. Len(delivered) \in Nat
    BY DEF IInv, Lists
  <2> QED BY <1>0, <1>1, <2>1 DEF Forward, rxVars
<1> QED BY <1>4, <1>5, <1>6, <1>7 DEF IInv

(* Steps that leave the numbers and lists alone. *)
LEMMA QuietKeeps ==
  ASSUME IInv, UNCHANGED <<tx_next, net, rxVars, t_reordering, t_reordering_start, delivered, txsdu_pkts>>,
         txSecure' \in BOOLEAN, rxSecure' \in BOOLEAN, t_current' \in Nat,
         \/ rxpdu_pkts' = rxpdu_pkts /\ rxpdu_dd_pkts' = rxpdu_dd_pkts
         \/ rxpdu_pkts' = rxpdu_pkts + 1 /\ rxpdu_dd_pkts' = rxpdu_dd_pkts + 1
  PROVE  IInv' /\ Forward
<1>0. /\ rxpdu_pkts \in Nat /\ rxpdu_dd_pkts \in Nat /\ rx_deliv \in Nat
      /\ Len(rx_list) \in Nat /\ Len(delivered) \in Nat
      /\ Cardinality(FailedAt(rx_list)) \in Nat /\ Cardinality(FailedAt(delivered)) \in Nat
  BY Types, FailedFinite DEF IInv, Lists
<1>1. PdcpTypeOK'
  <2>1. rxpdu_pkts' \in Nat /\ rxpdu_dd_pkts' \in Nat
    BY <1>0
  <2>2. {rxpdu_pkts', rxpdu_dd_pkts', txsdu_pkts'} \subseteq Nat
    BY <2>1 DEF IInv, PdcpTypeOK
  <2> QED BY <2>2 DEF IInv, PdcpTypeOK, rxVars
<1>2. Numbering' /\ ReceiverWindow' /\ Lists' /\ NothingSkipped'
  BY DEF IInv, Numbering, ReceiverWindow, Lists, NothingSkipped, rxVars
<1>3. Accounts'
  BY <1>0 DEF IInv, Accounts, rxVars
<1>4. Forward
  BY <1>0 DEF Forward, rxVars
<1> QED BY <1>1, <1>2, <1>3, <1>4 DEF IInv

-----------------------------------------------------------------------------
(***************************************************************************)
(* nr_pdcp_entity_recv_pdu.                                                *)
(***************************************************************************)

(* A PDU of the network within the window is taken for what it is. *)
LEMMA CountsRecovered ==
  ASSUME PdcpTypeOK, Numbering, NEW pdu \in net, InWindow(pdu)
  PROVE  RcvdCount(pdu.sn) = pdu.sdu
<1>1. /\ pdu.sdu \in Nat /\ pdu.sdu < tx_next /\ pdu.sn = pdu.sdu % SnSpace
      /\ tx_next \in Nat /\ tx_next < CountSpace /\ CountSpace \in Nat /\ rx_deliv \in Nat
  BY Types, Sizes DEF Numbering
<1> QED BY <1>1, CountIs DEF InWindow

(* What Accept does, without the modulus: the SDU goes to its place, a run    *)
(* from rx_deliv on goes up and nothing that waits is left at or below the    *)
(* new rx_deliv.                                                              *)
LEMMA AcceptIs ==
  ASSUME IInv, NEW pdu \in net, NEW c \in Nat, c = pdu.sdu, rx_deliv <= c,
         ~nr_pdcp_sdu_in_list(rx_list, c), Accept(pdu, c), rxSecure \in BOOLEAN
  PROVE  \E s \in Sdu, list \in Seq(Sdu), nxt \in Nat : \E run \in 0 .. Len(list) :
           /\ Sorted(list) /\ Named(list) /\ Len(list) = Len(rx_list) + 1
           /\ Cardinality(FailedAt(list)) = Cardinality(FailedAt(rx_list)) + (IF s.failed THEN 1 ELSE 0)
           /\ \A i \in DOMAIN list : rx_deliv <= list[i].count /\ list[i].count < nxt
           /\ \A i \in 1 .. run : list[i].count = rx_deliv + i - 1
           /\ \A i \in run + 1 .. Len(list) : rx_deliv + run < list[i].count
           /\ rx_deliv + run <= nxt /\ rx_next <= nxt /\ nxt <= tx_next
           /\ rx_list' = Drop(list, run)
           /\ delivered' = delivered \o SubSeq(list, 1, run)
           /\ txsdu_pkts' = txsdu_pkts + run
           /\ rx_deliv' = rx_deliv + run
           /\ rx_next' = nxt
           /\ UpdateTimer(rx_deliv + run, nxt)
           /\ rxpdu_dd_pkts' = rxpdu_dd_pkts + (IF s.failed THEN 1 ELSE 0)
<1>0. /\ tx_next \in Nat /\ rx_next \in Nat /\ rx_deliv \in Nat /\ tx_next < CountSpace
      /\ CountSpace \in Nat \ {0}
  BY Types, Sizes DEF IInv
<1>1. c < tx_next /\ rx_next <= tx_next /\ rx_deliv <= rx_next
  BY DEF IInv, Numbering, ReceiverWindow
<1>2. rx_list \in Seq(Sdu) /\ Named(rx_list) /\ Sorted(rx_list)
  BY DEF IInv, Lists, ReceiverWindow, Sorted
<1>3. \A i \in DOMAIN rx_list : rx_deliv < rx_list[i].count /\ rx_list[i].count < rx_next
  BY DEF IInv, ReceiverWindow
<1> DEFINE failed == rxSecure /\ (pdu.damaged \/ ~pdu.secure)
           t == [count |-> c, sdu |-> pdu.sdu, failed |-> failed]
<1>4. t \in Sdu /\ t.count = c /\ t.sdu = c /\ t.failed = failed
  <2>1. failed \in BOOLEAN
    OBVIOUS
  <2> HIDE DEF failed
  <2> QED BY <2>1 DEF Sdu
<1>5. PICK list \in Seq(Sdu) :
        /\ nr_pdcp_sdu_list_add(rx_list, t) = list
        /\ Sorted(list)
        /\ Len(list) = Len(rx_list) + 1
        /\ \E n \in 0 .. Len(rx_list) :
             list = SubSeq(rx_list, 1, n) \o <<t>> \o SubSeq(rx_list, n + 1, Len(rx_list))
        /\ \A i \in DOMAIN list : list[i] = t \/ \E j \in DOMAIN rx_list : list[i] = rx_list[j]
        /\ (\A j \in DOMAIN rx_list : t.count < rx_list[j].count) => list[1] = t
  <2> HIDE DEF t
  <2> QED BY <1>2, <1>4, ListAddIs
<1> DEFINE run == IF c = rx_deliv THEN RunLength(list, rx_deliv) ELSE 0
           nxt == IF c >= rx_next THEN c + 1 ELSE rx_next
<1>6. nxt \in Nat /\ c < nxt /\ rx_next <= nxt /\ nxt <= tx_next
  BY <1>0, <1>1
<1>7. /\ rx_list' = Drop(list, run)
      /\ delivered' = delivered \o SubSeq(list, 1, run)
      /\ txsdu_pkts' = txsdu_pkts + run
      /\ rx_deliv' = (rx_deliv + run) % CountSpace
      /\ rx_next' = IF c >= rx_next THEN (c + 1) % CountSpace ELSE rx_next
      /\ UpdateTimer((rx_deliv + run) % CountSpace,
                     IF c >= rx_next THEN (c + 1) % CountSpace ELSE rx_next)
      /\ rxpdu_dd_pkts' = rxpdu_dd_pkts + (IF failed THEN 1 ELSE 0)
  BY <1>5 DEF Accept, Deliver
<1>8. Cardinality(FailedAt(list)) = Cardinality(FailedAt(rx_list)) + (IF t.failed THEN 1 ELSE 0)
  <2> HIDE DEF t
  <2> QED BY <1>2, <1>4, <1>5, FailedAdd
<1>9. \A i \in DOMAIN list :
        /\ list[i].count \in Nat
        /\ rx_deliv <= list[i].count /\ list[i].count < nxt /\ list[i].count = list[i].sdu
        /\ c # rx_deliv => rx_deliv < list[i].count
  <2> HIDE DEF t, nxt
  <2> SUFFICES ASSUME NEW i \in DOMAIN list
               PROVE  /\ list[i].count \in Nat
                      /\ rx_deliv <= list[i].count /\ list[i].count < nxt
                      /\ list[i].count = list[i].sdu
                      /\ c # rx_deliv => rx_deliv < list[i].count
    OBVIOUS
  <2>1. CASE list[i] = t
    BY <1>0, <1>4, <1>6, <2>1
  <2>2. ASSUME NEW j \in DOMAIN rx_list, list[i] = rx_list[j]
        PROVE  /\ list[i].count \in Nat
               /\ rx_deliv <= list[i].count /\ list[i].count < nxt
               /\ list[i].count = list[i].sdu
               /\ c # rx_deliv => rx_deliv < list[i].count
    <3>1. rx_list[j].count \in Nat /\ rx_list[j].count = rx_list[j].sdu
      BY <1>2, ListTypes DEF Named
    <3> QED BY <1>0, <1>3, <1>6, <2>2, <3>1
  <2> QED BY <1>5, <2>1, <2>2
<1> HIDE DEF t, failed
<1>10. /\ run \in 0 .. Len(list)
       /\ \A i \in 1 .. run : list[i].count = rx_deliv + i - 1
       /\ \A i \in run + 1 .. Len(list) : rx_deliv + run < list[i].count
  <2>0. Len(list) \in Nat \ {0} /\ DOMAIN list = 1 .. Len(list)
    <3>1. Len(rx_list) \in Nat
      BY <1>2
    <3>2. Len(list) = Len(rx_list) + 1
      BY <1>5
    <3>3. DOMAIN list = 1 .. Len(list)
      OBVIOUS
    <3> QED BY <3>1, <3>2, <3>3
  <2>1. CASE c # rx_deliv
    <3>1. run = 0
      BY <2>1
    <3> HIDE DEF run
    <3> QED BY <1>0, <1>9, <2>0, <2>1, <3>1
  <2>2. CASE c = rx_deliv
    <3>1. /\ run \in 0 .. Len(list)
          /\ \A i \in 1 .. run : list[i].count = rx_deliv + i - 1
          /\ run < Len(list) => list[run + 1].count # rx_deliv + run
      BY <1>0, <2>2, RunLengthIs
    <3> HIDE DEF run
    <3>2. list[1] = t /\ 1 \in DOMAIN list
      <4>1. \A j \in DOMAIN rx_list : t.count < rx_list[j].count
        BY <1>3, <1>4, <2>2
      <4>2. list[1] = t
        BY <1>5, <4>1
      <4>3. 1 \in DOMAIN list
        BY <2>0
      <4> QED BY <4>2, <4>3
    <3>3. run # 0
      BY <1>0, <1>4, <2>0, <2>2, <3>1, <3>2
    <3>4. ASSUME NEW i \in run + 1 .. Len(list) PROVE rx_deliv + run < list[i].count
      <4>1. /\ run \in DOMAIN list /\ run + 1 \in DOMAIN list /\ run < run + 1 /\ run \in 1 .. run
            /\ i \in DOMAIN list /\ (i = run + 1 \/ run + 1 < i) /\ run < Len(list)
        BY <2>0, <3>1, <3>3
      <4>2. list[run].count < list[run + 1].count /\ list[run].count = rx_deliv + run - 1
        BY <1>5, <3>1, <4>1 DEF Sorted
      <4>3. list[run + 1].count # rx_deliv + run
        BY <3>1, <4>1
      <4>4. i = run + 1 \/ list[run + 1].count < list[i].count
        BY <1>5, <4>1 DEF Sorted
      <4>5. list[run + 1].count \in Nat /\ list[i].count \in Nat /\ run \in Nat
        BY <1>9, <3>1, <4>1
      <4> QED BY <1>0, <4>2, <4>3, <4>4, <4>5
    <3> QED BY <3>1, <3>4
  <2> QED BY <2>1, <2>2
<1> HIDE DEF run
<1>11. rx_deliv + run <= nxt
  <2>1. CASE run = 0
    BY <1>0, <1>1, <1>6, <2>1
  <2>2. CASE run # 0
    <3>1. run \in 1 .. run /\ run \in DOMAIN list
      BY <1>10, <2>2
    <3>2. list[run].count = rx_deliv + run - 1 /\ list[run].count < nxt
      BY <1>9, <1>10, <3>1
    <3>3. run \in Nat
      BY <1>10
    <3> HIDE DEF nxt
    <3> QED BY <1>0, <1>6, <3>2, <3>3
  <2> QED BY <2>1, <2>2
<1>12. /\ (rx_deliv + run) % CountSpace = rx_deliv + run
       /\ (IF c >= rx_next THEN (c + 1) % CountSpace ELSE rx_next) = nxt
  <2>1. rx_deliv + run \in 0 .. CountSpace - 1
    <3> HIDE DEF nxt
    <3> QED BY <1>0, <1>6, <1>10, <1>11
  <2>2. c + 1 \in 0 .. CountSpace - 1
    BY <1>0, <1>1
  <2>3. (c + 1) % CountSpace = c + 1
    BY <1>0, <2>2, SmallMod
  <2>4. (rx_deliv + run) % CountSpace = rx_deliv + run
    BY <1>0, <2>1, SmallMod
  <2> QED BY <2>3, <2>4
<1> HIDE DEF nxt
<1>13. Named(list)
  BY <1>9 DEF Named
<1>14. /\ rx_deliv' = rx_deliv + run /\ rx_next' = nxt
       /\ UpdateTimer(rx_deliv + run, nxt)
       /\ rxpdu_dd_pkts' = rxpdu_dd_pkts + (IF t.failed THEN 1 ELSE 0)
  BY <1>4, <1>7, <1>12
<1> QED BY <1>4, <1>5, <1>6, <1>7, <1>8, <1>9, <1>10, <1>11, <1>13, <1>14
(* The end of recv_pdu leaves a running timer between rx_deliv and rx_next.   *)
LEMMA TimerIs ==
  ASSUME IInv, NEW deliv \in Nat, NEW nxt \in Nat, deliv <= nxt, rx_next <= nxt,
         nxt < CountSpace, UpdateTimer(deliv, nxt)
  PROVE  /\ rx_reord' \in 0 .. CountSpace - 1
         /\ t_reordering_start' \in -(2 ^ (IntBits - 1)) .. 2 ^ (IntBits - 1) - 1
         /\ t_reordering_start' # 0 => deliv < rx_reord' /\ rx_reord' <= nxt
<1>0. /\ rx_reord \in Nat /\ rx_reord < CountSpace /\ CountSpace \in Nat /\ t_current \in Int
      /\ t_reordering_start \in -(2 ^ (IntBits - 1)) .. 2 ^ (IntBits - 1) - 1
      /\ rx_next \in Nat
      /\ t_reordering_start # 0 => rx_reord <= rx_next
  BY Types, Sizes DEF IInv, PdcpTypeOK, ReceiverWindow
<1>1. ToInt(t_current) \in -(2 ^ (IntBits - 1)) .. 2 ^ (IntBits - 1) - 1
  BY <1>0, ToIntIs
<1>2. 0 \in -(2 ^ (IntBits - 1)) .. 2 ^ (IntBits - 1) - 1
  <2>1. IntBits - 1 \in Nat
    OBVIOUS
  <2>2. 2 ^ (IntBits - 1) \in Nat \ {0}
    BY <2>1, PowerOfTwo
  <2> QED BY <2>2
<1>3. CASE (deliv >= rx_reord \/ t_reordering_start = 0) /\ deliv < nxt
  <2>1. rx_reord' = nxt /\ t_reordering_start' = ToInt(t_current)
    BY <1>3 DEF UpdateTimer
  <2> QED BY <1>0, <1>1, <1>3, <2>1
<1>4. CASE (deliv >= rx_reord \/ t_reordering_start = 0) /\ ~(deliv < nxt)
  <2>1. rx_reord' = rx_reord /\ t_reordering_start' = 0
    BY <1>4 DEF UpdateTimer
  <2> QED BY <1>0, <1>2, <2>1
<1>5. CASE ~(deliv >= rx_reord) /\ t_reordering_start # 0
  <2>1. rx_reord' = rx_reord /\ t_reordering_start' = t_reordering_start
    BY <1>5 DEF UpdateTimer
  <2> QED BY <1>0, <1>5, <2>1
<1> QED BY <1>3, <1>4, <1>5

(* The counts of a list below a bound are in range. *)
LEMMA CountsInRange ==
  ASSUME NEW list \in Seq(Sdu), NEW x \in Nat, x < CountSpace,
         \A i \in DOMAIN list : list[i].count < x
  PROVE  \A i \in DOMAIN list : list[i].count \in 0 .. CountSpace - 1
<1>1. \A i \in DOMAIN list : list[i].count \in Nat
  BY ListTypes
<1> QED BY <1>1, Sizes

(* A PDU that is accepted keeps the invariant. *)
LEMMA AcceptKeeps ==
  ASSUME IInv, NEW pdu \in net, NEW c \in Nat, c = pdu.sdu, rx_deliv <= c,
         ~nr_pdcp_sdu_in_list(rx_list, c), Accept(pdu, c),
         rxpdu_pkts' = rxpdu_pkts + 1,
         UNCHANGED <<txVars, net, rxSecure, t_reordering, t_current>>
  PROVE  IInv' /\ Forward
<1>0. /\ tx_next \in Nat /\ rx_next \in Nat /\ rx_deliv \in Nat /\ tx_next < CountSpace
      /\ CountSpace \in Nat /\ rxpdu_pkts \in Nat /\ rxpdu_dd_pkts \in Nat /\ txsdu_pkts \in Nat
      /\ t_current \in Nat
  BY Types, Sizes DEF IInv
<1>1. rxSecure \in BOOLEAN
  BY DEF IInv, PdcpTypeOK
<1>2. PICK s \in Sdu, list \in Seq(Sdu), nxt \in Nat : \E r \in 0 .. Len(list) :
           /\ Sorted(list) /\ Named(list) /\ Len(list) = Len(rx_list) + 1
           /\ Cardinality(FailedAt(list)) = Cardinality(FailedAt(rx_list)) + (IF s.failed THEN 1 ELSE 0)
           /\ \A i \in DOMAIN list : rx_deliv <= list[i].count /\ list[i].count < nxt
           /\ \A i \in 1 .. r : list[i].count = rx_deliv + i - 1
           /\ \A i \in r + 1 .. Len(list) : rx_deliv + r < list[i].count
           /\ rx_deliv + r <= nxt /\ rx_next <= nxt /\ nxt <= tx_next
           /\ rx_list' = Drop(list, r)
           /\ delivered' = delivered \o SubSeq(list, 1, r)
           /\ txsdu_pkts' = txsdu_pkts + r
           /\ rx_deliv' = rx_deliv + r
           /\ rx_next' = nxt
           /\ UpdateTimer(rx_deliv + r, nxt)
           /\ rxpdu_dd_pkts' = rxpdu_dd_pkts + (IF s.failed THEN 1 ELSE 0)
  BY <1>1, AcceptIs
<1>3. PICK run \in 0 .. Len(list) :
           /\ Sorted(list) /\ Named(list) /\ Len(list) = Len(rx_list) + 1
           /\ Cardinality(FailedAt(list)) = Cardinality(FailedAt(rx_list)) + (IF s.failed THEN 1 ELSE 0)
           /\ \A i \in DOMAIN list : rx_deliv <= list[i].count /\ list[i].count < nxt
           /\ \A i \in 1 .. run : list[i].count = rx_deliv + i - 1
           /\ \A i \in run + 1 .. Len(list) : rx_deliv + run < list[i].count
           /\ rx_deliv + run <= nxt /\ rx_next <= nxt /\ nxt <= tx_next
           /\ rx_list' = Drop(list, run)
           /\ delivered' = delivered \o SubSeq(list, 1, run)
           /\ txsdu_pkts' = txsdu_pkts + run
           /\ rx_deliv' = rx_deliv + run
           /\ rx_next' = nxt
           /\ UpdateTimer(rx_deliv + run, nxt)
           /\ rxpdu_dd_pkts' = rxpdu_dd_pkts + (IF s.failed THEN 1 ELSE 0)
  BY <1>2
<1>4. /\ run \in Nat /\ Len(list) \in Nat /\ DOMAIN list = 1 .. Len(list) /\ run <= Len(list)
      /\ \A i \in DOMAIN list : list[i].count \in Nat
      /\ rx_list \in Seq(Sdu) /\ delivered \in Seq(Sdu)
      /\ Len(rx_list) \in Nat /\ Len(delivered) \in Nat
  BY <1>3, ListTypes DEF IInv, Lists
<1>5. nxt < CountSpace
  BY <1>0, <1>3
<1>6. PICK e \in Seq(Sdu), rest \in Seq(Sdu) :
           /\ e = delivered \o SubSeq(list, 1, run) /\ rest = Drop(list, run)
           /\ Len(e) = Len(delivered) + run /\ Len(rest) = Len(list) - run
           /\ Named(e) /\ Sorted(e) /\ \A i \in DOMAIN e : e[i].count < rx_deliv + run
           /\ Named(rest) /\ Sorted(rest)
           /\ \A i \in DOMAIN rest : run + i \in run + 1 .. Len(list) /\ rest[i] = list[run + i]
           /\ Cardinality(FailedAt(e)) + Cardinality(FailedAt(rest))
                = Cardinality(FailedAt(delivered)) + Cardinality(FailedAt(list))
           /\ \A i \in 1 .. Len(delivered) : e[i] = delivered[i]
           /\ \A i \in 1 .. run : e[Len(delivered) + i] = list[i]
  <2>1. \A i \in 1 .. run : list[i].count < rx_deliv + run
    BY <1>0, <1>3, <1>4
  <2>2. /\ Named(delivered) /\ Sorted(delivered)
        /\ \A i \in DOMAIN delivered : delivered[i].count < rx_deliv
    BY DEF IInv, Lists
  <2>3. PICK hi \in Nat : hi = rx_deliv + run /\ rx_deliv <= hi
    BY <1>0, <1>4
  <2>4. /\ Sorted(list) /\ Named(list)
        /\ \A i \in DOMAIN list : rx_deliv <= list[i].count
        /\ \A i \in 1 .. run : list[i].count < hi
    BY <1>3, <2>1, <2>3
  <2>5. \E e \in Seq(Sdu), rest \in Seq(Sdu) : HandedOver(delivered, list, run, hi, e, rest)
    <3>1. delivered \in Seq(Sdu) /\ rx_deliv \in Nat
      BY <1>0, <1>4
    <3> QED BY <2>2, <2>3, <2>4, <3>1, HandOver, Zenon
  <2> QED BY <2>3, <2>5 DEF HandedOver
<1>7. delivered' = e /\ rx_list' = rest
  BY <1>3, <1>6
<1>8. \A i \in DOMAIN rest : /\ rest[i].count \in Nat
                             /\ rx_deliv + run < rest[i].count /\ rest[i].count < nxt
  <2> SUFFICES ASSUME NEW i \in DOMAIN rest
               PROVE  /\ rest[i].count \in Nat
                      /\ rx_deliv + run < rest[i].count /\ rest[i].count < nxt
    OBVIOUS
  <2>1. run + i \in run + 1 .. Len(list) /\ rest[i] = list[run + i]
    BY <1>6
  <2>2. run + i \in DOMAIN list
    BY <1>4, <2>1
  <2> QED BY <1>3, <1>4, <2>1, <2>2
<1>9. /\ rx_reord' \in 0 .. CountSpace - 1
      /\ t_reordering_start' \in -(2 ^ (IntBits - 1)) .. 2 ^ (IntBits - 1) - 1
      /\ t_reordering_start' # 0 => rx_deliv + run < rx_reord' /\ rx_reord' <= nxt
  <2>1. rx_deliv + run \in Nat
    BY <1>0, <1>4
  <2> QED BY <1>3, <1>5, <2>1, TimerIs
<1>10. PdcpTypeOK'
  <2>1. {rx_next', rx_deliv', rx_reord'} \subseteq 0 .. CountSpace - 1
    <3>1. rx_next' = nxt /\ rx_deliv' = rx_deliv + run /\ rx_deliv + run <= nxt
      BY <1>3
    <3>2. rx_deliv \in Nat /\ run \in Nat /\ CountSpace \in Nat
      BY <1>0, <1>4
    <3>3. rx_deliv + run <= nxt
      BY <3>1
    <3>4. nxt \in 0 .. CountSpace - 1 /\ rx_deliv + run \in 0 .. CountSpace - 1
      BY <1>5, <3>2, <3>3
    <3> QED BY <1>9, <3>1, <3>4
  <2>2. \A i \in DOMAIN rx_list' : rx_list'[i].count \in 0 .. CountSpace - 1
    BY <1>5, <1>7, <1>8, CountsInRange
  <2>3. {rxpdu_pkts', rxpdu_dd_pkts', txsdu_pkts'} \subseteq Nat
    BY <1>0, <1>3, <1>4
  <2>4. /\ tx_next' \in 0 .. CountSpace - 1 /\ txSecure' \in BOOLEAN /\ rxSecure' \in BOOLEAN
        /\ net' \subseteq Pdus /\ t_current' \in Nat
    BY DEF IInv, PdcpTypeOK, txVars
  <2> QED BY <1>9, <2>1, <2>2, <2>3, <2>4 DEF PdcpTypeOK
<1>11. Numbering'
  BY <1>3 DEF IInv, Numbering, txVars
<1>12. ReceiverWindow'
  <2>1. rx_deliv' <= rx_next'
    BY <1>3
  <2>2. \A i \in DOMAIN rx_list' : rx_deliv' < rx_list'[i].count /\ rx_list'[i].count < rx_next'
    BY <1>3, <1>7, <1>8
  <2>3. \A i, j \in DOMAIN rx_list' : i < j => rx_list'[i].count < rx_list'[j].count
    BY <1>6, <1>7 DEF Sorted
  <2>4. t_reordering_start' # 0 => rx_deliv' < rx_reord' /\ rx_reord' <= rx_next'
    BY <1>3, <1>9
  <2> QED BY <2>1, <2>2, <2>3, <2>4 DEF ReceiverWindow
<1>13. Lists'
  BY <1>3, <1>6, <1>7 DEF Lists, Named, Sorted
<1>14. NothingSkipped'
  <2> SUFFICES ASSUME t_reordering = -1
               PROVE  Len(e) = rx_deliv + run /\ \A i \in DOMAIN e : e[i].sdu = i - 1
    BY <1>3, <1>7 DEF NothingSkipped
  <2>1. /\ Len(delivered) = rx_deliv
        /\ \A i \in DOMAIN delivered : delivered[i].sdu = i - 1
    BY DEF IInv, NothingSkipped
  <2>2. ASSUME NEW i \in DOMAIN e PROVE e[i].sdu = i - 1
    <3>1. i \in 1 .. Len(delivered) + run
      BY <1>6
    <3>2. CASE i <= Len(delivered)
      <4>1. i \in DOMAIN delivered /\ e[i] = delivered[i]
        BY <1>4, <1>6, <3>1, <3>2
      <4> QED BY <2>1, <4>1
    <3>3. CASE ~(i <= Len(delivered))
      <4>1. PICK k : k = i - Len(delivered)
        OBVIOUS
      <4>2. k \in 1 .. run /\ k \in DOMAIN list /\ i = Len(delivered) + k
        BY <1>4, <3>1, <3>3, <4>1
      <4>3. e[i] = list[k] /\ list[k].count = rx_deliv + k - 1
        BY <1>3, <1>6, <4>2
      <4>4. list[k].count = list[k].sdu
        BY <1>3, <4>2 DEF Named
      <4> QED BY <2>1, <4>2, <4>3, <4>4
    <3> QED BY <3>2, <3>3
  <2> QED BY <1>6, <2>1, <2>2
<1>15. Accounts'
  <2>1. /\ Cardinality(FailedAt(e)) \in Nat /\ Cardinality(FailedAt(rest)) \in Nat
        /\ Cardinality(FailedAt(delivered)) \in Nat /\ Cardinality(FailedAt(rx_list)) \in Nat
        /\ Cardinality(FailedAt(list)) \in Nat
    BY <1>4, FailedFinite
  <2>2. rxpdu_pkts + Cardinality(FailedAt(rx_list)) + Cardinality(FailedAt(delivered))
          = rxpdu_dd_pkts + Len(rx_list) + Len(delivered)
    BY DEF IInv, Accounts
  <2>3. Len(rest) = Len(list) - run /\ Len(e) = Len(delivered) + run /\ Len(list) = Len(rx_list) + 1
    BY <1>3, <1>6
  <2>4. PICK k \in Nat : /\ rxpdu_dd_pkts' = rxpdu_dd_pkts + k
                         /\ Cardinality(FailedAt(list)) = Cardinality(FailedAt(rx_list)) + k
    BY <1>3
  <2>5. Cardinality(FailedAt(e)) + Cardinality(FailedAt(rest))
                = Cardinality(FailedAt(delivered)) + Cardinality(FailedAt(list))
    BY <1>6
  <2>6. (rxpdu_pkts + 1) + Cardinality(FailedAt(rest)) + Cardinality(FailedAt(e))
          = (rxpdu_dd_pkts + k) + Len(rest) + Len(e)
    <3>1. PICK fe \in Nat, fr \in Nat, fd \in Nat, fo \in Nat, fl \in Nat :
            /\ fe = Cardinality(FailedAt(e)) /\ fr = Cardinality(FailedAt(rest))
            /\ fd = Cardinality(FailedAt(delivered)) /\ fo = Cardinality(FailedAt(rx_list))
            /\ fl = Cardinality(FailedAt(list))
      BY <2>1
    <3>2. PICK le \in Int, lr \in Int, ld \in Nat, lo \in Nat, ll \in Nat :
            le = Len(e) /\ lr = Len(rest) /\ ld = Len(delivered) /\ lo = Len(rx_list) /\ ll = Len(list)
      <4>1. Len(e) \in Int /\ Len(rest) \in Int
        OBVIOUS
      <4>2. Len(delivered) \in Nat /\ Len(rx_list) \in Nat /\ Len(list) \in Nat
        BY <1>4
      <4> QED BY <4>1, <4>2, Zenon
    <3>3. fe + fr = fd + fl /\ fl = fo + k /\ lr = ll - run /\ le = ld + run /\ ll = lo + 1
      BY <2>3, <2>4, <2>5, <3>1, <3>2
    <3>4. rxpdu_pkts + fo + fd = rxpdu_dd_pkts + lo + ld
      BY <2>2, <3>1, <3>2
    <3>5. (rxpdu_pkts + 1) + fr + fe = (rxpdu_dd_pkts + k) + lr + le
      BY <1>0, <1>4, <3>3, <3>4
    <3> QED BY <3>1, <3>2, <3>5
  <2> QED BY <1>7, <2>4, <2>6 DEF Accounts
<1>16. Forward
  BY <1>0, <1>3, <1>4, <1>6, <1>7 DEF Forward
<1> QED BY <1>10, <1>11, <1>12, <1>13, <1>14, <1>15 , <1>16 DEF IInv
(* Every PDU keeps the invariant: it is discarded, or accepted under the      *)
(* COUNT it was sent with.                                                    *)
LEMMA ReceivedKeeps ==
  ASSUME IInv, NEW pdu \in net, recv_pdu(pdu)
  PROVE  IInv' /\ Forward
<1>1. /\ rxpdu_pkts' = rxpdu_pkts + 1
      /\ UNCHANGED <<txVars, net, rxSecure, t_reordering, t_current>>
      /\ InWindow(pdu)
  BY DEF recv_pdu, Received
<1>2. /\ RcvdCount(pdu.sn) = pdu.sdu /\ pdu.sdu \in Nat /\ rx_deliv \in Nat
      /\ txSecure \in BOOLEAN /\ rxSecure \in BOOLEAN /\ t_current \in Nat
  <2>1. RcvdCount(pdu.sn) = pdu.sdu
    BY <1>1, CountsRecovered DEF IInv
  <2>2. pdu.sdu \in Nat /\ rx_deliv \in Nat /\ t_current \in Nat
    BY Types DEF IInv
  <2> QED BY <2>1, <2>2 DEF IInv, PdcpTypeOK
<1>3. CASE pdu.sdu < rx_deliv \/ nr_pdcp_sdu_in_list(rx_list, pdu.sdu)
  <2>1. /\ rxpdu_dd_pkts' = rxpdu_dd_pkts + 1
        /\ UNCHANGED <<rxVars, t_reordering_start, txsdu_pkts, delivered>>
    BY <1>2, <1>3 DEF recv_pdu, Discard
  <2>2. txSecure' \in BOOLEAN /\ rxSecure' \in BOOLEAN /\ t_current' \in Nat
    BY <1>1, <1>2 DEF txVars
  <2> QED BY <1>1, <2>1, <2>2, QuietKeeps DEF txVars
<1>4. CASE ~(pdu.sdu < rx_deliv) /\ ~nr_pdcp_sdu_in_list(rx_list, pdu.sdu)
  <2>1. Accept(pdu, pdu.sdu)
    BY <1>2, <1>4 DEF recv_pdu
  <2>2. rx_deliv <= pdu.sdu
    BY <1>2, <1>4
  <2> QED BY <1>1, <1>2, <1>4, <2>1, <2>2, AcceptKeeps
<1> QED BY <1>3, <1>4

-----------------------------------------------------------------------------
(***************************************************************************)
(* The timer.                                                              *)
(***************************************************************************)

(* When t-Reordering expires, what lies below rx_reord goes up with the run   *)
(* that follows it, and what waits afterwards lies beyond a gap.              *)
LEMMA ExpireIs ==
  ASSUME IInv, t_reordering_start # 0, NEW now, Expire(now)
  PROVE  \E n \in 0 .. Len(rx_list), hi \in Nat :
           /\ rx_reord <= hi /\ hi <= rx_next
           /\ \A i \in 1 .. n : rx_list[i].count < hi
           /\ \A i \in n + 1 .. Len(rx_list) : hi < rx_list[i].count
           /\ rx_list' = Drop(rx_list, n)
           /\ delivered' = delivered \o SubSeq(rx_list, 1, n)
           /\ rx_deliv' = hi
           /\ IF hi < rx_next
                THEN rx_reord' = rx_next /\ t_reordering_start' = ToInt(now)
                ELSE t_reordering_start' = 0 /\ rx_reord' = rx_reord
<1> DEFINE late == Cardinality({i \in DOMAIN rx_list : rx_list[i].count < rx_reord})
           q == Drop(rx_list, late)
           run == RunLength(q, rx_reord)
<1>1. /\ rx_list' = Drop(rx_list, late + run)
      /\ delivered' = delivered \o SubSeq(rx_list, 1, late + run)
      /\ rx_deliv' = rx_reord + run
      /\ IF rx_reord + run < rx_next
           THEN rx_reord' = rx_next /\ t_reordering_start' = ToInt(now)
           ELSE t_reordering_start' = 0 /\ rx_reord' = rx_reord
  BY DEF Expire, Deliver
<1>2. /\ rx_list \in Seq(Sdu) /\ Sorted(rx_list) /\ rx_reord \in Nat /\ rx_next \in Nat
      /\ rx_reord <= rx_next
      /\ \A i \in DOMAIN rx_list : rx_list[i].count < rx_next
  BY Types DEF IInv, Lists, ReceiverWindow, Sorted
<1>3. /\ Len(rx_list) \in Nat /\ DOMAIN rx_list = 1 .. Len(rx_list)
      /\ \A i \in DOMAIN rx_list : rx_list[i].count \in Nat
  BY <1>2, ListTypes
<1>4. /\ late \in 0 .. Len(rx_list)
      /\ \A i \in 1 .. Len(rx_list) : rx_list[i].count < rx_reord <=> i <= late
  BY <1>2, LateIs
<1> HIDE DEF late
<1>5. /\ q \in Seq(Sdu) /\ Len(q) = Len(rx_list) - late
      /\ \A i \in 1 .. Len(rx_list) - late : q[i] = rx_list[late + i]
  BY <1>2, <1>4, DropIs DEF Drop
<1> HIDE DEF q
<1>6. /\ run \in 0 .. Len(q)
      /\ \A i \in 1 .. run : q[i].count = rx_reord + i - 1
      /\ run < Len(q) => q[run + 1].count # rx_reord + run
  BY <1>2, <1>5, RunLengthIs
<1> HIDE DEF run
<1>7. run \in Nat /\ late \in Nat /\ late + run <= Len(rx_list) /\ run <= Len(rx_list) - late
  BY <1>3, <1>4, <1>5, <1>6
<1>8. \A i \in 1 .. run : late + i \in DOMAIN rx_list /\ rx_list[late + i].count = rx_reord + i - 1
  <2> SUFFICES ASSUME NEW i \in 1 .. run
               PROVE  late + i \in DOMAIN rx_list /\ rx_list[late + i].count = rx_reord + i - 1
    OBVIOUS
  <2>1. i \in 1 .. Len(rx_list) - late /\ late + i \in DOMAIN rx_list
    BY <1>3, <1>7
  <2>2. q[i] = rx_list[late + i] /\ q[i].count = rx_reord + i - 1
    BY <1>5, <1>6, <2>1
  <2> QED BY <2>1, <2>2
<1>9. ASSUME NEW i \in 1 .. late + run PROVE rx_list[i].count < rx_reord + run
  <2>0. i \in 1 .. Len(rx_list) /\ rx_list[i].count \in Nat
    BY <1>3, <1>7
  <2>1. CASE i <= late
    <3>1. rx_list[i].count < rx_reord
      BY <1>4, <2>0, <2>1
    <3> QED BY <1>2, <1>7, <2>0, <3>1
  <2>2. CASE ~(i <= late)
    <3>1. PICK k \in 1 .. run : i = late + k
      <4>1. i - late \in 1 .. run /\ i = late + (i - late)
        BY <1>7, <2>2
      <4> QED BY <4>1
    <3>2. rx_list[i].count = rx_reord + k - 1
      BY <1>8, <3>1
    <3> QED BY <1>2, <1>7, <3>1, <3>2
  <2> QED BY <2>1, <2>2
<1>10. ASSUME NEW i \in late + run + 1 .. Len(rx_list) PROVE rx_reord + run < rx_list[i].count
  <2> DEFINE k == late + run + 1
  <2>1. /\ k \in 1 .. Len(rx_list) /\ i \in 1 .. Len(rx_list) /\ (i = k \/ k < i) /\ ~(k <= late)
        /\ run + 1 \in 1 .. Len(rx_list) - late /\ k = late + (run + 1) /\ run < Len(q)
    BY <1>3, <1>5, <1>7
  <2>2. rx_list[k].count \in Nat /\ rx_list[i].count \in Nat
    BY <1>3, <2>1
  <2>3. ~(rx_list[k].count < rx_reord)
    BY <1>4, <2>1
  <2>4. rx_list[k].count # rx_reord + run
    <3>1. q[run + 1] = rx_list[k]
      BY <1>5, <2>1
    <3> QED BY <1>6, <2>1, <3>1
  <2>5. rx_reord + run < rx_list[k].count
    <3>1. CASE run = 0
      BY <1>2, <2>2, <2>3, <2>4, <3>1
    <3>2. CASE run # 0
      <4>1. run \in 1 .. run /\ late + run < k
        BY <1>7, <3>2
      <4>2. late + run \in DOMAIN rx_list /\ rx_list[late + run].count = rx_reord + run - 1
        BY <1>8, <4>1
      <4>3. rx_list[late + run].count < rx_list[k].count
        BY <1>2, <1>3, <2>1, <4>1, <4>2 DEF Sorted
      <4>4. PICK x \in Nat : x = rx_list[k].count
        BY <2>2
      <4>5. rx_reord + run - 1 < x /\ x # rx_reord + run
        BY <2>4, <4>2, <4>3, <4>4
      <4>6. rx_reord + run < x
        BY <1>2, <1>7, <4>5
      <4> QED BY <4>4, <4>6
    <3> QED BY <3>1, <3>2
  <2>6. i = k \/ rx_list[k].count < rx_list[i].count
    BY <1>2, <1>3, <2>1 DEF Sorted
  <2> HIDE DEF k
  <2> QED BY <1>2, <1>7, <2>2, <2>5, <2>6
<1>11. rx_reord + run <= rx_next
  <2>1. CASE run = 0
    BY <1>2, <2>1
  <2>2. CASE run # 0
    <3>1. run \in 1 .. run
      BY <1>7, <2>2
    <3>2. late + run \in DOMAIN rx_list /\ rx_list[late + run].count = rx_reord + run - 1
      BY <1>8, <3>1
    <3>3. rx_list[late + run].count < rx_next
      BY <1>2, <3>2
    <3> QED BY <1>2, <1>7, <3>2, <3>3
  <2> QED BY <2>1, <2>2
<1>12. PICK n \in 0 .. Len(rx_list), hi \in Nat : n = late + run /\ hi = rx_reord + run
  <2>1. late + run \in 0 .. Len(rx_list) /\ rx_reord + run \in Nat
    BY <1>2, <1>3, <1>7
  <2> QED BY <2>1, Zenon
<1>13. /\ rx_reord <= hi /\ hi <= rx_next
       /\ \A i \in 1 .. n : rx_list[i].count < hi
       /\ \A i \in n + 1 .. Len(rx_list) : hi < rx_list[i].count
  BY <1>2, <1>7, <1>9, <1>10, <1>11, <1>12
<1> QED BY <1>1, <1>12, <1>13

LEMMA ExpireKeeps ==
  ASSUME IInv, t_reordering # -1, t_reordering_start # 0, NEW now \in Nat, Expire(now),
         t_current' = now, now # t_current,
         UNCHANGED <<txVars, net, rx_next, rxSecure, t_reordering, statVars>>
  PROVE  IInv' /\ Forward
<1>0. /\ tx_next \in Nat /\ rx_next \in Nat /\ rx_deliv \in Nat /\ rx_next < CountSpace
      /\ CountSpace \in Nat /\ rx_reord \in Nat /\ rx_reord < CountSpace
      /\ rx_deliv < rx_reord /\ rx_reord <= rx_next
  BY Types, Sizes DEF IInv, ReceiverWindow
<1>1. PICK n \in 0 .. Len(rx_list), hi \in Nat :
           /\ rx_reord <= hi /\ hi <= rx_next
           /\ \A i \in 1 .. n : rx_list[i].count < hi
           /\ \A i \in n + 1 .. Len(rx_list) : hi < rx_list[i].count
           /\ rx_list' = Drop(rx_list, n)
           /\ delivered' = delivered \o SubSeq(rx_list, 1, n)
           /\ rx_deliv' = hi
           /\ IF hi < rx_next
                THEN rx_reord' = rx_next /\ t_reordering_start' = ToInt(now)
                ELSE t_reordering_start' = 0 /\ rx_reord' = rx_reord
  BY ExpireIs
<1>2. /\ rx_list \in Seq(Sdu) /\ delivered \in Seq(Sdu)
      /\ Named(delivered) /\ Sorted(delivered)
      /\ Named(rx_list) /\ Sorted(rx_list)
      /\ \A i \in DOMAIN delivered : delivered[i].count < rx_deliv
  BY DEF IInv, Lists, ReceiverWindow, Sorted
<1>3. /\ Len(rx_list) \in Nat /\ DOMAIN rx_list = 1 .. Len(rx_list)
      /\ \A i \in DOMAIN rx_list : /\ rx_list[i].count \in Nat
                                   /\ rx_deliv < rx_list[i].count /\ rx_list[i].count < rx_next
  BY <1>2, ListTypes DEF IInv, ReceiverWindow
<1>4. PICK e \in Seq(Sdu), rest \in Seq(Sdu) : HandedOver(delivered, rx_list, n, hi, e, rest)
  <2>1. rx_deliv <= hi /\ \A i \in DOMAIN rx_list : rx_deliv <= rx_list[i].count
    BY <1>0, <1>1, <1>3
  <2>2. \A i \in 1 .. n : rx_list[i].count < hi
    BY <1>1
  <2>3. rx_deliv \in Nat
    BY <1>0
  <2> QED BY <1>2, <2>1, <2>2, <2>3, HandOver, Zenon
<1>5. delivered' = e /\ rx_list' = rest
  BY <1>1, <1>4 DEF HandedOver
<1>6. \A i \in DOMAIN rest : hi < rest[i].count /\ rest[i].count < rx_next
  <2> SUFFICES ASSUME NEW i \in DOMAIN rest
               PROVE  hi < rest[i].count /\ rest[i].count < rx_next
    OBVIOUS
  <2>1. n + i \in n + 1 .. Len(rx_list) /\ rest[i] = rx_list[n + i]
    BY <1>4 DEF HandedOver
  <2>2. n + i \in DOMAIN rx_list
    BY <1>3, <2>1
  <2> QED BY <1>1, <1>3, <2>1, <2>2
<1>7. /\ rx_reord' \in 0 .. CountSpace - 1
      /\ t_reordering_start' \in -(2 ^ (IntBits - 1)) .. 2 ^ (IntBits - 1) - 1
      /\ t_reordering_start' # 0 => hi < rx_reord' /\ rx_reord' <= rx_next
  <2>1. CASE hi < rx_next
    <3>1. rx_reord' = rx_next /\ t_reordering_start' = ToInt(now)
      BY <1>1, <2>1
    <3>2. ToInt(now) \in -(2 ^ (IntBits - 1)) .. 2 ^ (IntBits - 1) - 1
      BY ToIntIs
    <3>3. rx_next \in 0 .. CountSpace - 1 /\ rx_next <= rx_next
      BY <1>0
    <3> QED BY <2>1, <3>1, <3>2, <3>3
  <2>2. CASE ~(hi < rx_next)
    <3>1. rx_reord' = rx_reord /\ t_reordering_start' = 0
      BY <1>1, <2>2
    <3>2. 0 \in -(2 ^ (IntBits - 1)) .. 2 ^ (IntBits - 1) - 1
      <4>1. IntBits - 1 \in Nat
        OBVIOUS
      <4>2. 2 ^ (IntBits - 1) \in Nat \ {0}
        BY <4>1, PowerOfTwo
      <4> QED BY <4>2
    <3>3. rx_reord \in 0 .. CountSpace - 1
      BY <1>0
    <3> QED BY <3>1, <3>2, <3>3
  <2> QED BY <2>1, <2>2
<1>8. PdcpTypeOK'
  <2>1. {rx_next', rx_deliv', rx_reord'} \subseteq 0 .. CountSpace - 1
    <3>1. rx_next' = rx_next /\ rx_deliv' = hi /\ hi <= rx_next
      BY <1>1
    <3>2. rx_next \in 0 .. CountSpace - 1 /\ hi \in 0 .. CountSpace - 1
      BY <1>0, <3>1
    <3> QED BY <1>7, <3>1, <3>2
  <2>2. \A i \in DOMAIN rx_list' : rx_list'[i].count \in 0 .. CountSpace - 1
    BY <1>0, <1>5, <1>6, CountsInRange
  <2>3. {rxpdu_pkts', rxpdu_dd_pkts', txsdu_pkts'} \subseteq Nat
    BY DEF IInv, PdcpTypeOK, statVars
  <2>4. /\ tx_next' \in 0 .. CountSpace - 1 /\ txSecure' \in BOOLEAN /\ rxSecure' \in BOOLEAN
        /\ net' \subseteq Pdus /\ t_current' \in Nat
    BY DEF IInv, PdcpTypeOK, txVars
  <2> QED BY <1>7, <2>1, <2>2, <2>3, <2>4 DEF PdcpTypeOK
<1>9. Numbering'
  BY DEF IInv, Numbering, txVars
<1>10. ReceiverWindow'
  <2>1. rx_deliv' <= rx_next'
    BY <1>1
  <2>2. \A i \in DOMAIN rx_list' : rx_deliv' < rx_list'[i].count /\ rx_list'[i].count < rx_next'
    BY <1>1, <1>5, <1>6
  <2>3. \A i, j \in DOMAIN rx_list' : i < j => rx_list'[i].count < rx_list'[j].count
    BY <1>4, <1>5 DEF Sorted, HandedOver
  <2>4. t_reordering_start' # 0 => rx_deliv' < rx_reord' /\ rx_reord' <= rx_next'
    BY <1>1, <1>7
  <2> QED BY <2>1, <2>2, <2>3, <2>4 DEF ReceiverWindow
<1>11. Lists'
  BY <1>1, <1>4, <1>5 DEF Lists, Named, Sorted, HandedOver
<1>12. NothingSkipped'
  BY DEF NothingSkipped
<1>13. Accounts'
  <2>1. /\ Cardinality(FailedAt(e)) \in Nat /\ Cardinality(FailedAt(rest)) \in Nat
        /\ Cardinality(FailedAt(delivered)) \in Nat /\ Cardinality(FailedAt(rx_list)) \in Nat
    BY <1>2, FailedFinite
  <2>2. PICK fe \in Nat, fr \in Nat, fd \in Nat, fl \in Nat :
            /\ fe = Cardinality(FailedAt(e)) /\ fr = Cardinality(FailedAt(rest))
            /\ fd = Cardinality(FailedAt(delivered)) /\ fl = Cardinality(FailedAt(rx_list))
    BY <2>1
  <2>3. PICK le \in Int, lr \in Int, ld \in Nat, ll \in Nat :
            le = Len(e) /\ lr = Len(rest) /\ ld = Len(delivered) /\ ll = Len(rx_list)
    <3>1. Len(e) \in Int /\ Len(rest) \in Int
      OBVIOUS
    <3>2. Len(delivered) \in Nat /\ Len(rx_list) \in Nat
      BY <1>2
    <3> QED BY <3>1, <3>2, Zenon
  <2>4. fe + fr = fd + fl /\ lr = ll - n /\ le = ld + n
    BY <1>4, <2>2, <2>3 DEF HandedOver
  <2>5. rxpdu_pkts + fl + fd = rxpdu_dd_pkts + ll + ld
    BY <2>2, <2>3 DEF IInv, Accounts
  <2>6. rxpdu_pkts \in Nat /\ rxpdu_dd_pkts \in Nat /\ n \in Nat
    BY <1>3, Types DEF IInv
  <2>7. rxpdu_pkts + fr + fe = rxpdu_dd_pkts + lr + le
    BY <2>4, <2>5, <2>6
  <2> QED BY <1>5, <2>2, <2>3, <2>7 DEF Accounts, statVars
<1>14. Forward
  BY <1>0, <1>1 DEF Forward
<1> QED BY <1>8, <1>9, <1>10, <1>11, <1>12, <1>13, <1>14 DEF IInv
-----------------------------------------------------------------------------
(***************************************************************************)
(* The invariant of the specification and what follows from it.            *)
(***************************************************************************)
LEMMA InvNext == IInv /\ [Next]_vars => IInv' /\ (Forward \/ UNCHANGED vars)
<1> SUFFICES ASSUME IInv, [Next]_vars PROVE IInv' /\ (Forward \/ UNCHANGED vars)
  OBVIOUS
<1>0. txSecure \in BOOLEAN /\ rxSecure \in BOOLEAN /\ t_current \in Nat
  BY DEF IInv, PdcpTypeOK
<1>1. CASE recv_sdu
  BY <1>1, SenderKeeps
<1>2. CASE set_security
  <2>1. /\ UNCHANGED <<tx_next, net, rxVars, t_reordering, t_reordering_start, delivered, txsdu_pkts>>
        /\ t_current' \in Nat
        /\ rxpdu_pkts' = rxpdu_pkts /\ rxpdu_dd_pkts' = rxpdu_dd_pkts
    BY <1>0, <1>2 DEF set_security, timeVars, statVars
  <2>2. txSecure' \in BOOLEAN /\ rxSecure' \in BOOLEAN
    BY <1>0, <1>2, Zenon DEF set_security
  <2> QED BY <2>1, <2>2, QuietKeeps
<1>3. CASE recv_short_pdu
  <2>1. /\ UNCHANGED <<tx_next, net, rxVars, t_reordering, t_reordering_start, delivered, txsdu_pkts>>
        /\ t_current' \in Nat /\ txSecure' \in BOOLEAN /\ rxSecure' \in BOOLEAN
        /\ rxpdu_pkts' = rxpdu_pkts + 1 /\ rxpdu_dd_pkts' = rxpdu_dd_pkts + 1
    BY <1>0, <1>3 DEF recv_short_pdu, Received, Discard, txVars, timeVars
  <2> QED BY <2>1, QuietKeeps
<1>4. CASE set_time
  <2>1. /\ t_current' = t_current + 1
        /\ UNCHANGED <<txVars, net, rx_next, rxSecure, t_reordering, statVars>>
    BY <1>4 DEF set_time
  <2>2. t_current + 1 \in Nat /\ t_current + 1 # t_current
    BY <1>0
  <2>3. CASE t_reordering # -1 /\ t_reordering_start # 0 /\ Expire(t_current + 1)
    BY <2>1, <2>2, <2>3, ExpireKeeps
  <2>4. CASE UNCHANGED <<rx_list, rx_deliv, rx_reord, t_reordering_start, delivered>>
    <3>1. /\ UNCHANGED <<tx_next, net, rxVars, t_reordering, t_reordering_start, delivered, txsdu_pkts>>
          /\ t_current' \in Nat /\ txSecure' \in BOOLEAN /\ rxSecure' \in BOOLEAN
          /\ rxpdu_pkts' = rxpdu_pkts /\ rxpdu_dd_pkts' = rxpdu_dd_pkts
      BY <1>0, <2>1, <2>2, <2>4 DEF txVars, statVars, rxVars
    <3> QED BY <3>1, QuietKeeps
  <2> QED BY <1>4, <2>3, <2>4, Zenon DEF set_time
<1>5. CASE \E pdu \in net : recv_pdu(pdu)
  BY <1>5, ReceivedKeeps
<1>6. CASE UNCHANGED vars
  <2>1. IInv'
    BY <1>6 DEF IInv, PdcpTypeOK, Numbering, ReceiverWindow, Lists, NothingSkipped, Accounts,
                vars, txVars, rxVars, timeVars, statVars
  <2> QED BY <1>6, <2>1
<1> QED BY <1>1, <1>2, <1>3, <1>4, <1>5, <1>6 DEF Next

(* The receiver's variables fit together, and within the window the COUNT of  *)
(* every PDU is recovered, on both sides of a wrap of the sequence number.    *)
THEOREM CountsFitTogether == Spec => []ReceiverInvariant
<1>1. IInv => ReceiverInvariant
  <2> SUFFICES ASSUME IInv PROVE ReceiverInvariant
    OBVIOUS
  <2>1. CountRecovered
    BY CountsRecovered DEF IInv, CountRecovered
  <2> QED BY <2>1 DEF IInv, ReceiverInvariant
<1>2. IInv /\ [Next]_vars => IInv'
  BY InvNext
<1> QED BY <1>1, <1>2, InvInit, PTL DEF Spec

(* SDUs are handed up in order, none twice, each under the COUNT it was sent  *)
(* with, and without a gap when t-Reordering is infinite.                     *)
THEOREM DeliveredInOrder == Spec => []DeliveryRight
<1>1. IInv => DeliveryRight
  <2> SUFFICES ASSUME IInv PROVE DeliveryRight
    OBVIOUS
  <2>1. delivered \in Seq(Sdu) /\ Sorted(delivered) /\ Named(delivered) /\ NothingSkipped
    BY DEF IInv, Lists
  <2>2. InOrderOnce
    BY <2>1 DEF InOrderOnce, Sorted, Named
  <2> QED BY <2>1, <2>2 DEF DeliveryRight
<1>2. IInv /\ [Next]_vars => IInv'
  BY InvNext
<1> QED BY <1>1, <1>2, InvInit, PTL DEF Spec

(* Every PDU received is discarded, waits or went up, and the counters of the *)
(* entity agree with that, SDUs that failed the integrity check apart.        *)
THEOREM CountersAgree == Spec => []PdusAccounted
<1>1. IInv => PdusAccounted
  BY DEF IInv, Accounts, FailedAt, PdusAccounted
<1>2. IInv /\ [Next]_vars => IInv'
  BY InvNext
<1> QED BY <1>1, <1>2, InvInit, PTL DEF Spec

(* rx_deliv never goes back, and passes a COUNT that was not handed up only   *)
(* when the timer expired.                                                    *)
THEOREM OnlyExpirySkips == Spec => SkipsOnlyOnExpiry
<1>1. IInv /\ [Next]_vars =>
        [ /\ rx_deliv' >= rx_deliv
          /\ t_current' = t_current => rx_deliv' - rx_deliv = Len(delivered') - Len(delivered) ]_vars
  BY InvNext DEF Forward
<1>2. IInv /\ [Next]_vars => IInv'
  BY InvNext
<1> QED BY <1>1, <1>2, InvInit, PTL DEF Spec, SkipsOnlyOnExpiry
-----------------------------------------------------------------------------
(***************************************************************************)
(* The timer watches every gap, as long as the int it is kept in can hold  *)
(* the time: t_reordering_start is an int, and 0 means not active.         *)
(***************************************************************************)

\* The clock does not start at 0 and, with t_reordering added, stays below the
\* greatest int.
TimeFits ==
  /\ StartTime > 0
  /\ \A t \in TReorderings : \A now \in {StartTime, MaxTime} :
       now < 2 ^ (IntBits - 1) /\ now + t < 2 ^ (IntBits - 1)

\* A timer runs from a time that is past, and not longer than t_reordering;
\* with a gap one runs.
TimerInv ==
  /\ t_reordering \in TReorderings
  /\ t_current >= StartTime /\ \E now \in {StartTime, MaxTime} : t_current <= now
  /\ t_reordering_start # 0 =>
       /\ 1 <= t_reordering_start /\ t_reordering_start <= t_current
       /\ t_reordering # -1 => t_current <= t_reordering_start + t_reordering
  /\ rx_deliv < rx_next => t_reordering_start # 0

LEMMA TimerTypes ==
  ASSUME TimeFits, PdcpTypeOK, TimerInv
  PROVE  /\ t_current \in Nat /\ t_current >= 1 /\ t_reordering_start \in Int
         /\ ToInt(t_current) = t_current
         /\ t_reordering # -1 => t_reordering \in Nat
         /\ t_reordering # -1 /\ t_reordering_start # 0 =>
              ToInt(t_reordering_start + t_reordering) = t_reordering_start + t_reordering
<1>0. 2 ^ (IntBits - 1) \in Nat
  <2>1. IntBits - 1 \in Nat
    OBVIOUS
  <2> QED BY <2>1, PowerOfTwo
<1>1. t_current \in Nat /\ t_reordering_start \in Int /\ t_current >= 1
  BY Types DEF TimeFits, TimerInv
<1>2. t_reordering \in TReorderings /\ (t_reordering # -1 => t_reordering \in Nat)
  BY DEF TimerInv
<1>3. PICK now \in {StartTime, MaxTime} : t_current <= now
  BY DEF TimerInv
<1>4. now \in Nat /\ now < 2 ^ (IntBits - 1) /\ now + t_reordering < 2 ^ (IntBits - 1)
  BY <1>2, <1>3 DEF TimeFits
<1>5. ToInt(t_current) = t_current
  <2>1. 0 <= t_current /\ t_current < 2 ^ (IntBits - 1)
    BY <1>0, <1>1, <1>3, <1>4
  <2> QED BY <1>1, <2>1, ToIntIs
<1>6. ASSUME t_reordering # -1, t_reordering_start # 0
      PROVE  ToInt(t_reordering_start + t_reordering) = t_reordering_start + t_reordering
  <2>1. 1 <= t_reordering_start /\ t_reordering_start <= t_current
    BY <1>6 DEF TimerInv
  <2>2. t_reordering \in Nat
    BY <1>2, <1>6
  <2>3. PICK x \in Int : x = t_reordering_start + t_reordering
    BY <1>1, <2>2
  <2>4. 0 <= x /\ x < 2 ^ (IntBits - 1)
    BY <1>0, <1>1, <1>3, <1>4, <2>1, <2>2, <2>3
  <2>5. ToInt(x) = x
    BY <2>4, ToIntIs
  <2> QED BY <2>3, <2>5
<1> QED BY <1>1, <1>2, <1>5, <1>6

(* A clock that is not at an expiry, or that stands still. *)
LEMMA TimerStays ==
  ASSUME TimeFits, PdcpTypeOK, TimerInv, UNCHANGED <<t_reordering, t_reordering_start, rx_deliv, rx_next>>,
         \/ t_current' = t_current
         \/ /\ t_current < MaxTime /\ t_current' = t_current + 1
            /\ t_reordering # -1 /\ t_reordering_start # 0 =>
                 t_current + 1 <= t_reordering_start + t_reordering
  PROVE  TimerInv'
<1>1. CASE t_current' = t_current
  BY <1>1 DEF TimerInv
<1>2. CASE /\ t_current < MaxTime /\ t_current' = t_current + 1
           /\ t_reordering # -1 /\ t_reordering_start # 0 =>
                t_current + 1 <= t_reordering_start + t_reordering
  <2>1. t_current \in Nat /\ t_reordering_start \in Int
    BY TimerTypes
  <2>2. t_current' >= StartTime /\ t_current' <= MaxTime
    BY <1>2, <2>1 DEF TimerInv
  <2>3. t_reordering_start # 0 => 1 <= t_reordering_start /\ t_reordering_start <= t_current'
    BY <1>2, <2>1 DEF TimerInv
  <2> QED BY <1>2, <2>2, <2>3 DEF TimerInv
<1> QED BY <1>1, <1>2

LEMMA TimerUpdated ==
  ASSUME TimeFits, IInv, TimerInv, NEW deliv \in Nat, NEW nxt \in Nat, UpdateTimer(deliv, nxt),
         rx_deliv' = deliv, rx_next' = nxt, UNCHANGED <<t_reordering, t_current>>
  PROVE  TimerInv'
<1>0. /\ t_current \in Nat /\ t_current >= 1 /\ t_reordering_start \in Int
      /\ ToInt(t_current) = t_current /\ (t_reordering # -1 => t_reordering \in Nat)
  BY TimerTypes DEF IInv
<1>1. /\ t_reordering' \in TReorderings
      /\ t_current' >= StartTime /\ \E now \in {StartTime, MaxTime} : t_current' <= now
  BY DEF TimerInv
<1>2. CASE (deliv >= rx_reord \/ t_reordering_start = 0) /\ deliv < nxt
  <2>1. t_reordering_start' = t_current
    BY <1>0, <1>2 DEF UpdateTimer
  <2>2. t_reordering # -1 => t_current <= t_current + t_reordering
    BY <1>0
  <2> QED BY <1>0, <1>1, <2>1, <2>2 DEF TimerInv
<1>3. CASE (deliv >= rx_reord \/ t_reordering_start = 0) /\ ~(deliv < nxt)
  <2>1. t_reordering_start' = 0
    BY <1>3 DEF UpdateTimer
  <2> QED BY <1>1, <1>3, <2>1 DEF TimerInv
<1>4. CASE ~(deliv >= rx_reord) /\ t_reordering_start # 0
  <2>1. t_reordering_start' = t_reordering_start
    BY <1>4 DEF UpdateTimer
  <2> QED BY <1>1, <1>4, <2>1 DEF TimerInv
<1> QED BY <1>2, <1>3, <1>4

LEMMA TimerNext == TimeFits /\ IInv /\ TimerInv /\ [Next]_vars => TimerInv'
<1> SUFFICES ASSUME TimeFits, IInv, TimerInv, [Next]_vars PROVE TimerInv'
  OBVIOUS
<1>0. /\ PdcpTypeOK
      /\ t_current \in Nat /\ t_current >= 1 /\ t_reordering_start \in Int
      /\ t_reordering # -1 => t_reordering \in Nat
      /\ t_reordering # -1 /\ t_reordering_start # 0 =>
              ToInt(t_reordering_start + t_reordering) = t_reordering_start + t_reordering
  BY TimerTypes DEF IInv
<1>1. CASE recv_sdu \/ set_security \/ recv_short_pdu \/ UNCHANGED vars
  <2>1. UNCHANGED <<t_reordering, t_reordering_start, rx_deliv, rx_next, t_current>>
    BY <1>1 DEF recv_sdu, set_security, recv_short_pdu, vars, rxVars, timeVars
  <2> QED BY <1>0, <2>1, TimerStays
<1>2. CASE set_time
  <2>1. /\ t_current' = t_current + 1 /\ t_current < MaxTime
        /\ UNCHANGED <<rx_next, t_reordering>>
    BY <1>2 DEF set_time
  <2>2. PICK expired \in Expired(t_current + 1, t_reordering_start + t_reordering) :
         IF t_reordering # -1 /\ t_reordering_start # 0 /\ expired
           THEN Expire(t_current + 1)
           ELSE UNCHANGED <<rx_list, rx_deliv, rx_reord, t_reordering_start, delivered>>
    BY <1>2 DEF set_time
  <2>3. ASSUME t_reordering # -1, t_reordering_start # 0
        PROVE  expired = (t_current + 1 > t_reordering_start + t_reordering)
    <3>1. 1 <= t_reordering_start
      BY <2>3 DEF TimerInv
    <3>2. t_reordering_start + t_reordering >= 0
      BY <1>0, <2>3, <3>1
    <3>3. {ToInt(t_reordering_start + t_reordering), t_reordering_start + t_reordering}
            = {t_reordering_start + t_reordering}
      BY <1>0, <2>3
    <3>4. PICK v \in {ToInt(t_reordering_start + t_reordering), t_reordering_start + t_reordering} :
            expired = (v >= 0 /\ t_current + 1 > v)
      BY <2>2, Zenon DEF Expired
    <3>5. v = t_reordering_start + t_reordering
      BY <3>3, <3>4
    <3> QED BY <3>2, <3>4, <3>5
  <2>4. CASE t_reordering # -1 /\ t_reordering_start # 0 /\ expired
    <3>1. Expire(t_current + 1)
      BY <2>2, <2>4
    <3>2. PICK n \in 0 .. Len(rx_list), hi \in Nat :
            /\ hi <= rx_next
            /\ rx_deliv' = hi
            /\ IF hi < rx_next
                 THEN rx_reord' = rx_next /\ t_reordering_start' = ToInt(t_current + 1)
                 ELSE t_reordering_start' = 0 /\ rx_reord' = rx_reord
      BY <2>4, <3>1, ExpireIs
    <3>3. ToInt(t_current + 1) = t_current + 1
      <4>1. MaxTime < 2 ^ (IntBits - 1) /\ t_current + 1 \in Int
        BY <1>0 DEF TimeFits, TimerInv
      <4>2. 2 ^ (IntBits - 1) \in Nat
        <5>1. IntBits - 1 \in Nat
          OBVIOUS
        <5> QED BY <5>1, PowerOfTwo
      <4>3. 0 <= t_current + 1 /\ t_current + 1 < 2 ^ (IntBits - 1)
        BY <1>0, <2>1, <4>1, <4>2
      <4> QED BY <4>1, <4>3, ToIntIs
    <3>4. /\ t_reordering' \in TReorderings
          /\ t_current' >= StartTime /\ t_current' <= MaxTime
      BY <1>0, <2>1 DEF TimerInv
    <3>5. CASE hi < rx_next
      <4>1. t_reordering_start' = t_current + 1
        BY <3>2, <3>3, <3>5
      <4>2. /\ 1 <= t_current + 1 /\ t_current + 1 <= t_current + 1
            /\ t_reordering # -1 => t_current + 1 <= (t_current + 1) + t_reordering
        BY <1>0
      <4>3. t_reordering_start' # 0
        BY <1>0, <4>1
      <4> QED BY <2>1, <3>4, <4>1, <4>2, <4>3 DEF TimerInv
    <3>6. CASE ~(hi < rx_next)
      <4>1. t_reordering_start' = 0 /\ ~(rx_deliv' < rx_next')
        BY <2>1, <3>2, <3>6
      <4> QED BY <3>4, <4>1 DEF TimerInv
    <3> QED BY <3>5, <3>6
  <2>5. CASE ~(t_reordering # -1 /\ t_reordering_start # 0 /\ expired)
    <3>1. UNCHANGED <<t_reordering, t_reordering_start, rx_deliv, rx_next>>
      BY <2>1, <2>2, <2>5
    <3>2. t_reordering # -1 /\ t_reordering_start # 0 =>
            t_current + 1 <= t_reordering_start + t_reordering
      <4> SUFFICES ASSUME t_reordering # -1, t_reordering_start # 0
                   PROVE  t_current + 1 <= t_reordering_start + t_reordering
        OBVIOUS
      <4>1. ~(t_current + 1 > t_reordering_start + t_reordering)
        BY <2>3, <2>5, Zenon
      <4> QED BY <1>0, <4>1
    <3> QED BY <1>0, <2>1, <3>1, <3>2, TimerStays
  <2> QED BY <2>4, <2>5
<1>3. ASSUME NEW pdu \in net, recv_pdu(pdu) PROVE TimerInv'
  <2>1. UNCHANGED <<t_reordering, t_current>> /\ InWindow(pdu)
    BY <1>3 DEF recv_pdu
  <2>2. /\ RcvdCount(pdu.sn) = pdu.sdu /\ pdu.sdu \in Nat /\ rx_deliv \in Nat
        /\ rxSecure \in BOOLEAN
    <3>1. RcvdCount(pdu.sn) = pdu.sdu
      BY <2>1, CountsRecovered DEF IInv
    <3>2. pdu.sdu \in Nat /\ rx_deliv \in Nat
      BY <1>0, Types
    <3> QED BY <1>0, <3>1, <3>2 DEF PdcpTypeOK
  <2>3. CASE pdu.sdu < rx_deliv \/ nr_pdcp_sdu_in_list(rx_list, pdu.sdu)
    <3>1. UNCHANGED <<t_reordering, t_reordering_start, rx_deliv, rx_next, t_current>>
      BY <1>3, <2>1, <2>2, <2>3 DEF recv_pdu, rxVars
    <3> QED BY <1>0, <3>1, TimerStays
  <2>4. CASE ~(pdu.sdu < rx_deliv) /\ ~nr_pdcp_sdu_in_list(rx_list, pdu.sdu)
    <3>1. Accept(pdu, pdu.sdu)
      BY <1>3, <2>2, <2>4 DEF recv_pdu
    <3>2. rx_deliv <= pdu.sdu
      BY <2>2, <2>4
    <3>3. \E list \in Seq(Sdu), nxt \in Nat : \E run \in 0 .. Len(list) :
            /\ rx_deliv' = rx_deliv + run /\ rx_next' = nxt
            /\ UpdateTimer(rx_deliv + run, nxt)
      BY <2>2, <2>4, <3>1, <3>2, AcceptIs
    <3>4. PICK list \in Seq(Sdu), nxt \in Nat : \E run \in 0 .. Len(list) :
            /\ rx_deliv' = rx_deliv + run /\ rx_next' = nxt
            /\ UpdateTimer(rx_deliv + run, nxt)
      BY <3>3
    <3>5. PICK run \in 0 .. Len(list) :
            /\ rx_deliv' = rx_deliv + run /\ rx_next' = nxt
            /\ UpdateTimer(rx_deliv + run, nxt)
      BY <3>4
    <3>6. rx_deliv + run \in Nat
      BY <2>2
    <3> QED BY <2>1, <3>5, <3>6, TimerUpdated
  <2> QED BY <2>3, <2>4
<1> QED BY <1>1, <1>2, <1>3 DEF Next

(* While the time fits an int, an SDU that waits behind a gap waits for a     *)
(* timer that was started at most t_reordering ms ago.                        *)
THEOREM GapsAreTimed == ASSUME TimeFits PROVE Spec => []HeldUpIsTimed
<1>1. Init => TimerInv
  BY DEF Init, TimerInv
<1>2. IInv /\ TimerInv /\ [Next]_vars => IInv' /\ TimerInv'
  BY InvNext, TimerNext
<1>3. IInv /\ TimerInv => HeldUpIsTimed
  <2> SUFFICES ASSUME IInv, TimerInv, rx_list # <<>>, t_reordering # -1
               PROVE  /\ t_reordering_start # 0
                      /\ t_reordering_start <= t_current
                      /\ t_current <= t_reordering_start + t_reordering
    BY DEF HeldUpIsTimed
  <2>1. rx_list \in Seq(Sdu) /\ rx_deliv \in Nat /\ rx_next \in Nat
    BY Types DEF IInv, Lists
  <2>2. 1 \in DOMAIN rx_list
    BY <2>1
  <2>3. rx_list[1].count \in Nat /\ rx_deliv < rx_list[1].count /\ rx_list[1].count < rx_next
    BY <2>1, <2>2, ListTypes DEF IInv, ReceiverWindow
  <2>4. rx_deliv < rx_next
    BY <2>1, <2>3
  <2> QED BY <2>4 DEF TimerInv
<1> QED BY <1>1, <1>2, <1>3, InvInit, PTL DEF Spec
=============================================================================
