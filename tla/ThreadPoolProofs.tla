-------------------------- MODULE ThreadPoolProofs --------------------------
(***************************************************************************)
(* Proofs for the thread pool: its FIFOs are proper lists of blocks that   *)
(* are allocated and owned once, and an abort ends the jobs of its key,    *)
(* all of them and no others.                                              *)
(***************************************************************************)
EXTENDS ThreadPool, TLAPS, FiniteSetTheorems, SequenceTheorems

-----------------------------------------------------------------------------
(***************************************************************************)
(* Lists without repetition.                                               *)
(***************************************************************************)
Elems(s) == {s[i] : i \in DOMAIN s}

Distinct(s) == \A i, j \in DOMAIN s : s[i] = s[j] => i = j

Lists == {s \in Seq(Elts) : Distinct(s)}

LEMMA ListTypes ==
  ASSUME NEW s \in Lists
  PROVE  /\ s \in Seq(Elts) /\ Len(s) \in Nat /\ DOMAIN s = 1 .. Len(s) /\ Distinct(s)
         /\ \A i \in DOMAIN s : s[i] \in Elts /\ s[i] # Null
         /\ \A i \in DOMAIN s : s[i] \in Elems(s)
         /\ Elems(s) \subseteq Elts
         /\ s = << >> <=> Len(s) = 0
BY PoolAssumption DEF Lists, Elems

(* A list of distinct blocks is no longer than there are blocks. *)
LEMMA ListFits ==
  ASSUME NEW s \in Lists
  PROVE  Len(s) <= Cardinality(Elts) /\ Cardinality(Elts) \in Nat
<1>1. s \in [1 .. Len(s) -> Elts] /\ Len(s) \in Nat
  BY ListTypes
<1>2. s \in Injection(1 .. Len(s), Elts)
  BY <1>1, ListTypes DEF Distinct, Injection, IsInjective
<1>3. IsFiniteSet(1 .. Len(s)) /\ Cardinality(1 .. Len(s)) = Len(s)
  <2>1. 1 \in Int /\ Len(s) \in Int /\ Len(s) - 1 + 1 = Len(s) /\ (1 > Len(s) => Len(s) = 0)
    BY <1>1
  <2> QED BY <2>1, FS_Interval
<1>4. Cardinality(1 .. Len(s)) <= Cardinality(Elts)
  BY <1>2, <1>3, FS_Injection, PoolAssumption
<1> QED BY <1>3, <1>4, FS_CardinalityType, PoolAssumption

(* Among takes the elements of S in their order, each once: the rank of a     *)
(* hit among the hits is a bijection.                                         *)
LEMMA AmongIs ==
  ASSUME NEW s \in Lists, NEW S
  PROVE  LET hits == {i \in DOMAIN s : s[i] \in S}
             n == Cardinality(hits)
         IN  \E p \in [1 .. n -> hits] :
               /\ n \in Nat /\ Among(S, s) = [j \in 1 .. n |-> s[p[j]]]
               /\ \A i, j \in 1 .. n : i < j => p[i] < p[j]
               /\ \A i \in hits : \E j \in 1 .. n : p[j] = i
<1> DEFINE L == {i \in DOMAIN s : s[i] \in S}
           n == Cardinality(L)
           Upto(i) == {h \in L : h <= i}
           rank == [i \in L |-> Cardinality(Upto(i))]
           p == [j \in 1 .. n |-> CHOOSE i \in L : Cardinality(Upto(i)) = j]
<1>1. L \subseteq Nat /\ IsFiniteSet(L) /\ n \in Nat
  <2>1. DOMAIN s = 1 .. Len(s) /\ Len(s) \in Nat
    BY ListTypes
  <2>2. IsFiniteSet(1 .. Len(s))
    BY <2>1, FS_Interval
  <2>3. L \in SUBSET (1 .. Len(s))
    BY <2>1
  <2> HIDE DEF L
  <2>4. IsFiniteSet(L)
    BY <2>2, <2>3, FS_Subset
  <2> QED BY <2>1, <2>3, <2>4, FS_CardinalityType
<1>2. \A i \in L : /\ IsFiniteSet(Upto(i)) /\ Cardinality(Upto(i)) \in Nat
                   /\ Cardinality(Upto(i)) \in 1 .. n
  <2> SUFFICES ASSUME NEW i \in L
               PROVE  /\ IsFiniteSet(Upto(i)) /\ Cardinality(Upto(i)) \in Nat
                      /\ Cardinality(Upto(i)) \in 1 .. n
    OBVIOUS
  <2> HIDE DEF L
  <2>1. Upto(i) \in SUBSET L /\ i \in Upto(i)
    BY <1>1
  <2>2. IsFiniteSet(Upto(i)) /\ Cardinality(Upto(i)) <= n
    BY <1>1, <2>1, FS_Subset
  <2>3. Cardinality(Upto(i)) \in Nat /\ Cardinality(Upto(i)) # 0
    BY <2>1, <2>2, FS_CardinalityType, FS_EmptySet
  <2> QED BY <1>1, <2>2, <2>3
<1>3. \A i, k \in L : i < k => Cardinality(Upto(i)) < Cardinality(Upto(k))
  <2> SUFFICES ASSUME NEW i \in L, NEW k \in L, i < k
               PROVE  Cardinality(Upto(i)) < Cardinality(Upto(k))
    OBVIOUS
  <2> HIDE DEF L
  <2>1. Upto(i) \in SUBSET Upto(k) /\ k \in Upto(k) /\ k \notin Upto(i)
    <3>1. i \in Nat /\ k \in Nat
      BY <1>1
    <3>2. \A h \in L : h \in Nat /\ (h <= i => h <= k)
      BY <1>1, <3>1
    <3>3. k <= k /\ ~(k <= i)
      BY <3>1
    <3> QED BY <3>2, <3>3
  <2>2. Upto(i) # Upto(k)
    BY <2>1
  <2>3. IsFiniteSet(Upto(i)) /\ IsFiniteSet(Upto(k)) /\ Cardinality(Upto(i)) \in Nat /\ Cardinality(Upto(k)) \in Nat
    BY <1>2
  <2> HIDE DEF Upto
  <2>4. /\ Cardinality(Upto(i)) <= Cardinality(Upto(k))
        /\ Cardinality(Upto(i)) = Cardinality(Upto(k)) => Upto(i) = Upto(k)
    BY <2>1, <2>3, FS_Subset
  <2> QED BY <2>2, <2>3, <2>4
<1> HIDE DEF Upto
<1>4. \A i, k \in L : Cardinality(Upto(i)) = Cardinality(Upto(k)) => i = k
  <2> SUFFICES ASSUME NEW i \in L, NEW k \in L, Cardinality(Upto(i)) = Cardinality(Upto(k)), i # k
               PROVE  FALSE
    OBVIOUS
  <2>1. i < k \/ k < i
    BY <1>1
  <2>2. Cardinality(Upto(i)) \in Nat /\ Cardinality(Upto(k)) \in Nat
    BY <1>2
  <2>3. Cardinality(Upto(i)) < Cardinality(Upto(k)) \/ Cardinality(Upto(k)) < Cardinality(Upto(i))
    BY <1>3, <2>1
  <2> QED BY <2>2, <2>3
<1>5. rank \in Injection(L, 1 .. n)
  BY <1>2, <1>4 DEF Injection, IsInjective
<1>6. IsFiniteSet(1 .. n) /\ Cardinality(1 .. n) = n
  BY <1>1, FS_Interval
<1>7. rank \in Surjection(L, 1 .. n)
  <2> HIDE DEF rank, L
  <2>1. Cardinality(L) = Cardinality(1 .. n) <=> rank \in Surjection(L, 1 .. n)
    BY <1>5, <1>6, FS_Injection
  <2> QED BY <1>6, <2>1
<1>8. \A j \in 1 .. n : \E i \in L : Cardinality(Upto(i)) = j
  BY <1>7 DEF Surjection
<1>9. \A j \in 1 .. n : p[j] \in L /\ Cardinality(Upto(p[j])) = j
  <2> SUFFICES ASSUME NEW j \in 1 .. n PROVE p[j] \in L /\ Cardinality(Upto(p[j])) = j
    OBVIOUS
  <2>1. p[j] = CHOOSE i \in L : Cardinality(Upto(i)) = j
    OBVIOUS
  <2>2. \E i \in L : Cardinality(Upto(i)) = j
    BY <1>8
  <2> HIDE DEF p, L
  <2> QED BY <2>1, <2>2
<1>10. p \in [1 .. n -> L]
  BY <1>9
<1>11. Among(S, s) = [j \in 1 .. n |-> s[p[j]]]
  <2>1. Among(S, s) = [j \in 1 .. n |-> s[CHOOSE i \in L : Cardinality(Upto(i)) = j]]
    BY DEF Among, Upto
  <2> HIDE DEF L
  <2> QED BY <2>1
<1> HIDE DEF p, L
<1>12. ASSUME NEW i \in 1 .. n, NEW j \in 1 .. n, i < j PROVE p[i] < p[j]
  <2>1. p[i] \in Nat /\ p[j] \in Nat /\ p[i] \in L /\ p[j] \in L
    BY <1>1, <1>9
  <2>2. ~(p[j] < p[i]) /\ p[i] # p[j]
    BY <1>3, <1>9, <1>12, <2>1
  <2> QED BY <2>1, <2>2
<1>13. ASSUME NEW i \in L PROVE \E j \in 1 .. n : p[j] = i
  <2>1. PICK j \in 1 .. n : j = Cardinality(Upto(i))
    BY <1>2
  <2>2. p[j] = i
    BY <1>4, <1>9, <2>1
  <2> QED BY <2>2
<1> QED BY <1>1, <1>10, <1>11, <1>12, <1>13 DEF L

(* What is among S: a list of the elements that are in S, whose last element  *)
(* is the last of the whole list if that one is in S.                         *)
LEMMA AmongOK ==
  ASSUME NEW s \in Lists, NEW S, NEW q, q = Among(S, s)
  PROVE  /\ q \in Lists /\ Elems(q) = Elems(s) \cap S
         /\ s # << >> /\ s[Len(s)] \in S => q # << >> /\ q[Len(q)] = s[Len(s)]
<1> DEFINE hits == {i \in DOMAIN s : s[i] \in S}
           n == Cardinality(hits)
<1>1. PICK p \in [1 .. n -> hits] :
               /\ n \in Nat /\ Among(S, s) = [j \in 1 .. n |-> s[p[j]]]
               /\ \A i, j \in 1 .. n : i < j => p[i] < p[j]
               /\ \A i \in hits : \E j \in 1 .. n : p[j] = i
  BY AmongIs
<1>2. /\ s \in Seq(Elts) /\ Len(s) \in Nat /\ DOMAIN s = 1 .. Len(s) /\ Distinct(s)
      /\ \A i \in DOMAIN s : s[i] \in Elts
      /\ s = << >> <=> Len(s) = 0
  BY ListTypes
<1>3. \A j \in 1 .. n : p[j] \in DOMAIN s /\ s[p[j]] \in S /\ p[j] \in Nat /\ p[j] <= Len(s)
  BY <1>1, <1>2
<1>4. \A i \in DOMAIN s : s[i] \in S => \E j \in 1 .. n : p[j] = i
  BY <1>1
<1>5. n \in Nat /\ \A i, j \in 1 .. n : i < j => p[i] < p[j]
  BY <1>1
<1>6. q = [j \in 1 .. n |-> s[p[j]]]
  BY <1>1
<1> HIDE DEF n
<1>7. q \in Seq(Elts) /\ Len(q) = n /\ DOMAIN q = 1 .. n /\ \A j \in 1 .. n : q[j] = s[p[j]]
  <2>1. q \in [1 .. n -> Elts]
    BY <1>2, <1>3, <1>6
  <2>2. q \in Seq(Elts) /\ Len(q) = n
    BY <1>5, <2>1
  <2> QED BY <1>6, <2>2
<1>8. Distinct(q)
  <2> SUFFICES ASSUME NEW i \in 1 .. n, NEW j \in 1 .. n, q[i] = q[j], i # j PROVE FALSE
    BY <1>7 DEF Distinct
  <2>1. p[i] = p[j]
    BY <1>2, <1>3, <1>7 DEF Distinct
  <2>2. i < j \/ j < i
    BY <1>5
  <2>3. p[i] < p[j] \/ p[j] < p[i]
    BY <1>5, <2>2
  <2> QED BY <1>3, <2>1, <2>3
<1>9. Elems(q) = Elems(s) \cap S
  <2>1. ASSUME NEW x \in Elems(q) PROVE x \in Elems(s) \cap S
    BY <1>3, <1>7, <2>1 DEF Elems
  <2>2. ASSUME NEW x \in Elems(s) \cap S PROVE x \in Elems(q)
    <3>1. PICK i \in DOMAIN s : x = s[i]
      BY <2>2 DEF Elems
    <3>2. PICK j \in 1 .. n : p[j] = i
      BY <1>4, <2>2, <3>1
    <3> QED BY <1>7, <3>1, <3>2 DEF Elems
  <2> QED BY <2>1, <2>2
<1>10. ASSUME s # << >>, s[Len(s)] \in S PROVE q # << >> /\ q[Len(q)] = s[Len(s)]
  <2>1. Len(s) \in DOMAIN s
    BY <1>2, <1>10
  <2>2. PICK j \in 1 .. n : p[j] = Len(s)
    BY <1>4, <1>10, <2>1
  <2>3. j = n
    <3> SUFFICES ASSUME j # n PROVE FALSE
      OBVIOUS
    <3>1. j < n /\ n \in 1 .. n
      BY <1>5
    <3>2. p[j] < p[n]
      BY <1>5, <3>1
    <3> QED BY <1>2, <1>3, <2>2, <3>1, <3>2
  <2>4. q[n] = s[Len(s)] /\ n # 0
    BY <1>7, <2>2, <2>3
  <2> QED BY <1>7, <2>4
<1> QED BY <1>7, <1>8, <1>9, <1>10 DEF Lists

(* Taking the first element out leaves the tail. *)
LEMMA AmongTail ==
  ASSUME NEW s \in Lists, s # << >>, NEW S, s[1] \notin S, \A i \in 2 .. Len(s) : s[i] \in S
  PROVE  Among(S, s) = Tail(s)
<1>1. s \in Seq(Elts) /\ Len(s) \in Nat /\ Len(s) > 0 /\ DOMAIN s = 1 .. Len(s)
  BY ListTypes
<1>2. PICK hits : hits = {i \in DOMAIN s : s[i] \in S}
  OBVIOUS
<1>3. hits = 2 .. Len(s)
  <2>1. \A i \in hits : i \in 2 .. Len(s)
    <3> SUFFICES ASSUME NEW i \in hits PROVE i \in 2 .. Len(s)
      OBVIOUS
    <3>1. i \in 1 .. Len(s) /\ i # 1
      BY <1>1, <1>2
    <3> QED BY <1>1, <3>1
  <2>2. \A i \in 2 .. Len(s) : i \in hits
    BY <1>1, <1>2
  <2> QED BY <2>1, <2>2
<1>4. \A i \in hits : Cardinality({h \in hits : h <= i}) = i - 1
  <2> SUFFICES ASSUME NEW i \in 2 .. Len(s) PROVE Cardinality({h \in hits : h <= i}) = i - 1
    BY <1>3
  <2>1. {h \in hits : h <= i} = 2 .. i
    BY <1>1, <1>3
  <2>2. 2 \in Int /\ i \in Int /\ ~(2 > i) /\ i - 2 + 1 = i - 1
    BY <1>1
  <2>3. Cardinality(2 .. i) = i - 1
    BY <2>2, FS_Interval
  <2> QED BY <2>1, <2>3
<1>5. Cardinality(hits) = Len(s) - 1
  <2>1. 2 \in Int /\ Len(s) \in Int /\ (2 > Len(s) => 0 = Len(s) - 1) /\ Len(s) - 2 + 1 = Len(s) - 1
    BY <1>1
  <2> QED BY <1>3, <2>1, FS_Interval
<1>6. ASSUME NEW j \in 1 .. (Len(s) - 1)
      PROVE  (CHOOSE i \in hits : Cardinality({h \in hits : h <= i}) = j) = j + 1
  <2>1. PICK c : c = CHOOSE i \in hits : Cardinality({h \in hits : h <= i}) = j
    OBVIOUS
  <2>2. j + 1 \in hits /\ (j + 1) - 1 = j
    BY <1>1, <1>3
  <2>3. Cardinality({h \in hits : h <= j + 1}) = j
    BY <1>4, <2>2
  <2>4. c \in hits /\ Cardinality({h \in hits : h <= c}) = j
    BY <2>1, <2>2, <2>3
  <2>5. c - 1 = j /\ c \in 2 .. Len(s)
    BY <1>3, <1>4, <2>4
  <2>6. c = j + 1
    BY <1>1, <2>5
  <2> QED BY <2>1, <2>6
<1>7. Among(S, s) = [j \in 1 .. Cardinality(hits) |->
                       s[CHOOSE i \in hits : Cardinality({h \in hits : h <= i}) = j]]
  BY <1>2 DEF Among
<1>8. Among(S, s) = [j \in 1 .. (Len(s) - 1) |-> s[j + 1]]
  BY <1>5, <1>6, <1>7
<1>9. Tail(s) = [j \in 1 .. (Len(s) - 1) |-> s[j + 1]]
  <2>1. Tail(s) \in Seq(Elts) /\ Len(Tail(s)) = Len(s) - 1 /\ \A j \in 1 .. (Len(s) - 1) : Tail(s)[j] = s[j + 1]
    BY <1>1, HeadTailProperties
  <2>2. PICK t : t = Tail(s)
    OBVIOUS
  <2>3. t \in Seq(Elts) /\ Len(t) = Len(s) - 1 /\ \A j \in 1 .. (Len(s) - 1) : t[j] = s[j + 1]
    BY <2>1, <2>2
  <2>4. t = [j \in 1 .. (Len(s) - 1) |-> t[j]]
    <3>1. t = [j \in 1 .. Len(t) |-> t[j]]
      BY <2>3
    <3> QED BY <2>3, <3>1
  <2> QED BY <2>2, <2>3, <2>4
<1> QED BY <1>8, <1>9

-----------------------------------------------------------------------------
(***************************************************************************)
(* Linked lists.                                                           *)
(***************************************************************************)
\* The links nxt from e run through s and end.
Chain(e, nxt, s) ==
  /\ e = IF s = << >> THEN Null ELSE s[1]
  /\ \A i \in 1 .. Len(s) : nxt[s[i]] = IF i < Len(s) THEN s[i + 1] ELSE Null

\* The walk of ListFrom, as a function of itself.
Walk(e, nxt, f) == [i \in Nat |-> IF i = 0 THEN e ELSE IF f[i - 1] = Null THEN Null ELSE nxt[f[i - 1]]]

LEMMA WalkIs ==
  ASSUME NEW e, NEW nxt, NEW s \in Lists, Chain(e, nxt, s),
         NEW f, f = CHOOSE h : h = Walk(e, nxt, h)
  PROVE  \A i \in Nat : f[i] = IF i < Len(s) THEN s[i + 1] ELSE Null
<1> DEFINE g == [i \in Nat |-> IF i < Len(s) THEN s[i + 1] ELSE Null]
<1>1. s \in Seq(Elts) /\ Len(s) \in Nat /\ DOMAIN s = 1 .. Len(s) /\ (s = << >> <=> Len(s) = 0)
      /\ \A i \in 1 .. Len(s) : s[i] # Null
  BY ListTypes
<1>2. e = g[0]
  BY <1>1 DEF Chain
<1>3. ASSUME NEW i \in Nat, i # 0
      PROVE  g[i] = IF g[i - 1] = Null THEN Null ELSE nxt[g[i - 1]]
  <2>1. CASE i - 1 < Len(s)
    <3>1. i - 1 \in Nat /\ i \in 1 .. Len(s) /\ (i - 1) + 1 = i
      BY <1>1, <1>3, <2>1
    <3>2. g[i - 1] = s[i]
      BY <2>1, <3>1
    <3>3. s[i] # Null /\ nxt[s[i]] = IF i < Len(s) THEN s[i + 1] ELSE Null
      BY <1>1, <3>1 DEF Chain
    <3> QED BY <3>2, <3>3
  <2>2. CASE ~(i - 1 < Len(s))
    BY <1>1, <1>3, <2>2
  <2> QED BY <2>1, <2>2
<1>4. g = Walk(e, nxt, g)
  <2>1. \A i \in Nat : g[i] = IF i = 0 THEN e ELSE IF g[i - 1] = Null THEN Null ELSE nxt[g[i - 1]]
    BY <1>2, <1>3
  <2>2. g = [i \in Nat |-> g[i]]
    OBVIOUS
  <2> HIDE DEF g
  <2> QED BY <2>1, <2>2 DEF Walk
<1> HIDE DEF g
<1>5. f = Walk(e, nxt, f)
  BY <1>4
<1>6. \A i \in Nat : f[i] = IF i = 0 THEN e ELSE IF f[i - 1] = Null THEN Null ELSE nxt[f[i - 1]]
  <2> SUFFICES ASSUME NEW i \in Nat
               PROVE  f[i] = IF i = 0 THEN e ELSE IF f[i - 1] = Null THEN Null ELSE nxt[f[i - 1]]
    OBVIOUS
  <2>1. Walk(e, nxt, f)[i] = IF i = 0 THEN e ELSE IF f[i - 1] = Null THEN Null ELSE nxt[f[i - 1]]
    BY DEF Walk
  <2> QED BY <1>5, <2>1
<1>7. \A i \in Nat : f[i] = g[i]
  <2> SUFFICES ASSUME NEW i0 \in Nat, f[i0] # g[i0] PROVE FALSE
    OBVIOUS
  <2> DEFINE Bad == {i \in Nat : f[i] # g[i]}
  <2>1. Bad \subseteq Nat /\ i0 \in Bad
    OBVIOUS
  <2>2. PICK m \in Bad : \A k \in Bad : ~(<<k, m>> \in OpToRel(<, Nat))
    <3> HIDE DEF Bad
    <3> QED BY <2>1, NatLessThanWellFounded, WFMin
  <2>3. m # 0
    BY <1>2, <1>6
  <2>4. m - 1 \in Nat /\ m - 1 < m /\ m \in Nat
    BY <2>3
  <2>5. f[m - 1] = g[m - 1]
    <3> SUFFICES ASSUME m - 1 \in Bad PROVE FALSE
      BY <2>4
    <3>1. <<m - 1, m>> \in OpToRel(<, Nat)
      BY <2>4 DEF OpToRel
    <3> QED BY <2>2, <3>1
  <2>6. f[m] = g[m]
    BY <1>3, <1>6, <2>3, <2>4, <2>5
  <2> QED BY <2>2, <2>6
<1> QED BY <1>7 DEF g

LEMMA ListIsWalk ==
  ASSUME NEW e, NEW nxt
  PROVE  ListFrom(e, nxt)
           = [i \in 1 .. Cardinality({i \in 0 .. Cardinality(Elts) - 1 :
                                       (CHOOSE h : h = Walk(e, nxt, h))[i] # Null}) |->
                (CHOOSE h : h = Walk(e, nxt, h))[i - 1]]
BY Zenon DEF ListFrom, Walk

(* ListFrom walks a list to its end: it is not cut short. *)
LEMMA ListIs ==
  ASSUME NEW e, NEW nxt, NEW s \in Lists, Chain(e, nxt, s)
  PROVE  ListFrom(e, nxt) = s
<1> DEFINE f == CHOOSE h : h = Walk(e, nxt, h)
           N == Cardinality(Elts)
<1>3. ListFrom(e, nxt) = [i \in 1 .. Cardinality({i \in 0 .. N - 1 : f[i] # Null}) |-> f[i - 1]]
  BY ListIsWalk
<1>4. /\ s \in Seq(Elts) /\ Len(s) \in Nat /\ DOMAIN s = 1 .. Len(s)
      /\ \A i \in 1 .. Len(s) : s[i] # Null
  BY ListTypes
<1>5. N \in Nat /\ Len(s) <= N
  BY ListFits
<1>6. \A i \in Nat : f[i] = IF i < Len(s) THEN s[i + 1] ELSE Null
  <2> HIDE DEF f
  <2>1. f = CHOOSE g : g = Walk(e, nxt, g)
    BY DEF f
  <2> QED BY <2>1, WalkIs
<1> HIDE DEF f, N
<1>7. {i \in 0 .. N - 1 : f[i] # Null} = 0 .. Len(s) - 1
  <2>1. \A i \in 0 .. N - 1 : f[i] # Null <=> i < Len(s)
    <3> SUFFICES ASSUME NEW i \in 0 .. N - 1 PROVE f[i] # Null <=> i < Len(s)
      OBVIOUS
    <3>1. i \in Nat /\ (i < Len(s) => i + 1 \in 1 .. Len(s))
      BY <1>4, <1>5
    <3> QED BY <1>4, <1>6, <3>1
  <2>2. \A i : i \in 0 .. Len(s) - 1 <=> i \in 0 .. N - 1 /\ i < Len(s)
    BY <1>4, <1>5
  <2> QED BY <2>1, <2>2
<1>8. Cardinality(0 .. Len(s) - 1) = Len(s)
  <2>1. 0 \in Int /\ Len(s) - 1 \in Int /\ (0 > Len(s) - 1 => Len(s) = 0) /\ (Len(s) - 1) - 0 + 1 = Len(s)
    BY <1>4
  <2> QED BY <2>1, FS_Interval
<1>9. ListFrom(e, nxt) = [i \in 1 .. Len(s) |-> f[i - 1]]
  BY <1>3, <1>7, <1>8
<1>10. \A i \in 1 .. Len(s) : f[i - 1] = s[i]
  <2> SUFFICES ASSUME NEW i \in 1 .. Len(s) PROVE f[i - 1] = s[i]
    OBVIOUS
  <2>1. i - 1 \in Nat /\ i - 1 < Len(s) /\ (i - 1) + 1 = i
    BY <1>4
  <2> QED BY <1>6, <2>1
<1>11. s = [i \in 1 .. Len(s) |-> s[i]]
  BY <1>4
<1> QED BY <1>9, <1>10, <1>11

\* The FIFO with outF = o and inF = l is the list s.
IsFifo(o, l, nxt, s) ==
  /\ s \in Lists
  /\ Chain(o, nxt, s)
  /\ l = IF s = << >> THEN Null ELSE s[Len(s)]

(* Links elsewhere do not matter. *)
LEMMA OtherFifo ==
  ASSUME NEW o, NEW l, NEW nxt, NEW s, IsFifo(o, l, nxt, s),
         NEW nxt2, \A x \in Elems(s) : nxt2[x] = nxt[x]
  PROVE  IsFifo(o, l, nxt2, s)
<1>1. \A i \in 1 .. Len(s) : s[i] \in Elems(s)
  BY ListTypes DEF IsFifo
<1> QED BY <1>1 DEF IsFifo, Chain

Links == [Elts -> Elts \cup {Null}]

\* What pushNotifiedFIFO of e makes of any first and last element and links.
IsPush(o, l, nxt, e, o2, nxt2) ==
  /\ o2 = IF o = Null THEN e ELSE o
  /\ nxt2 = IF l = Null THEN [nxt EXCEPT ![e] = Null] ELSE [[nxt EXCEPT ![e] = Null] EXCEPT ![l] = e]

\* The list s with e appended, in links that differ from nxt only there.
Pushed(o2, e, nxt, nxt2, s) ==
  /\ IsFifo(o2, e, nxt2, Append(s, e))
  /\ Elems(Append(s, e)) = Elems(s) \cup {e}
  /\ nxt2 \in Links
  /\ \A x \in Elts : x # e /\ x \notin Elems(s) => nxt2[x] = nxt[x]

(* pushNotifiedFIFO appends. *)
LEMMA PushFifo ==
  ASSUME NEW o, NEW l, NEW nxt \in Links, NEW s, IsFifo(o, l, nxt, s),
         NEW e \in Elts, e \notin Elems(s),
         NEW o2, NEW nxt2, IsPush(o, l, nxt, e, o2, nxt2)
  PROVE  Pushed(o2, e, nxt, nxt2, s)
<1>1. /\ s \in Lists /\ s \in Seq(Elts) /\ Len(s) \in Nat /\ DOMAIN s = 1 .. Len(s) /\ Distinct(s)
      /\ \A i \in 1 .. Len(s) : s[i] \in Elts /\ s[i] # Null /\ s[i] \in Elems(s)
      /\ s = << >> <=> Len(s) = 0
  BY ListTypes DEF IsFifo
<1>2. PICK t : t = Append(s, e)
  OBVIOUS
<1>3. /\ t \in Seq(Elts) /\ Len(t) = Len(s) + 1 /\ DOMAIN t = 1 .. (Len(s) + 1)
      /\ \A i \in 1 .. Len(s) : t[i] = s[i]
      /\ t[Len(s) + 1] = e
  BY <1>1, <1>2
<1>4. \A i \in 1 .. (Len(s) + 1) : i \in 1 .. Len(s) \/ i = Len(s) + 1
  BY <1>1
<1>5. Distinct(t)
  <2> SUFFICES ASSUME NEW i \in 1 .. (Len(s) + 1), NEW j \in 1 .. (Len(s) + 1), t[i] = t[j] PROVE i = j
    BY <1>3 DEF Distinct
  <2>1. CASE i \in 1 .. Len(s) /\ j \in 1 .. Len(s)
    BY <1>1, <1>3, <2>1 DEF Distinct
  <2>2. CASE i \in 1 .. Len(s) /\ j = Len(s) + 1
    BY <1>1, <1>3, <2>2
  <2>3. CASE j \in 1 .. Len(s) /\ i = Len(s) + 1
    BY <1>1, <1>3, <2>3
  <2> QED BY <1>4, <2>1, <2>2, <2>3
<1>6. t \in Lists
  BY <1>3, <1>5 DEF Lists
<1>7. Elems(t) = Elems(s) \cup {e}
  <2>1. ASSUME NEW x \in Elems(t) PROVE x \in Elems(s) \cup {e}
    BY <1>1, <1>3, <1>4 DEF Elems
  <2>2. ASSUME NEW x \in Elems(s) \cup {e} PROVE x \in Elems(t)
    <3>1. CASE x = e
      <4>1. Len(s) + 1 \in DOMAIN t
        BY <1>1, <1>3
      <4> QED BY <1>3, <3>1, <4>1 DEF Elems
    <3>2. CASE x \in Elems(s)
      <4>1. PICK i \in 1 .. Len(s) : x = s[i]
        BY <1>1, <3>2 DEF Elems
      <4>2. i \in DOMAIN t
        BY <1>1, <1>3
      <4> QED BY <1>3, <4>1, <4>2 DEF Elems
    <3> QED BY <2>2, <3>1, <3>2
  <2> QED BY <2>1, <2>2
<1>8. l = IF Len(s) = 0 THEN Null ELSE s[Len(s)]
  BY <1>1 DEF IsFifo
<1>9. l = Null <=> Len(s) = 0
  <2>1. Len(s) # 0 => Len(s) \in 1 .. Len(s)
    BY <1>1
  <2> QED BY <1>1, <1>8, <2>1
<1>10. nxt2 \in [Elts -> Elts \cup {Null}] /\ nxt2[e] = Null /\ \A x \in Elts : x # e /\ x # l => nxt2[x] = nxt[x]
  <2>1. Len(s) # 0 => l \in Elts /\ l # e
    <3>1. Len(s) # 0 => Len(s) \in 1 .. Len(s)
      BY <1>1
    <3> QED BY <1>1, <1>8, <3>1
  <2> QED BY <1>9, <2>1 DEF IsPush, Links
<1>11. Len(s) # 0 => nxt2[l] = e /\ l \in Elems(s) /\ l # e
  <2>1. Len(s) # 0 => Len(s) \in 1 .. Len(s)
    BY <1>1
  <2> QED BY <1>1, <1>8, <1>9, <2>1 DEF IsPush, Links
<1>12. o = IF Len(s) = 0 THEN Null ELSE s[1]
  BY <1>1 DEF IsFifo, Chain
<1>13. (IF o = Null THEN e ELSE o) = IF t = << >> THEN Null ELSE t[1]
  <2>1. t # << >>
    BY <1>1, <1>3
  <2>2. CASE Len(s) = 0
    BY <1>3, <1>12, <2>1, <2>2
  <2>3. CASE Len(s) # 0
    <3>1. 1 \in 1 .. Len(s)
      BY <1>1, <2>3
    <3> QED BY <1>1, <1>3, <1>12, <2>1, <2>3, <3>1
  <2> QED BY <2>2, <2>3
<1>14. ASSUME NEW i \in 1 .. Len(t) PROVE nxt2[t[i]] = IF i < Len(t) THEN t[i + 1] ELSE Null
  <2>1. CASE i = Len(s) + 1
    BY <1>1, <1>3, <1>10, <2>1
  <2>2. CASE i \in 1 .. Len(s) /\ i = Len(s)
    <3>1. Len(s) # 0 /\ i < Len(t) /\ t[i] = l /\ t[i + 1] = e
      BY <1>1, <1>3, <1>8, <2>2
    <3> QED BY <1>11, <3>1
  <2>3. CASE i \in 1 .. Len(s) /\ i # Len(s)
    <3>1. i < Len(s) /\ i < Len(t) /\ i + 1 \in 1 .. Len(s) /\ Len(s) # 0 /\ Len(s) \in 1 .. Len(s)
      <4>1. Len(s) \in Nat /\ Len(t) = Len(s) + 1
        BY <1>1, <1>3
      <4> QED BY <2>3, <4>1
    <3>2. nxt[s[i]] = s[i + 1]
      BY <2>3, <3>1 DEF IsFifo, Chain
    <3>3. s[i] # l
      BY <1>1, <1>8, <2>3, <3>1 DEF Distinct
    <3>4. s[i] # e /\ s[i] \in Elts
      BY <1>1, <2>3
    <3> QED BY <1>3, <1>10, <2>3, <3>1, <3>2, <3>3, <3>4
  <2> QED BY <1>3, <1>4, <1>14, <2>1, <2>2, <2>3
<1>15. Chain(IF o = Null THEN e ELSE o, nxt2, t)
  BY <1>13, <1>14 DEF Chain
<1>16. e = IF t = << >> THEN Null ELSE t[Len(t)]
  BY <1>1, <1>3
<1>17. IsFifo(o2, e, nxt2, t)
  BY <1>6, <1>15, <1>16 DEF IsFifo, IsPush
<1>18. \A x \in Elts : x # e /\ x \notin Elems(s) => nxt2[x] = nxt[x]
  BY <1>9, <1>10, <1>11, PoolAssumption
<1> QED BY <1>2, <1>7, <1>10, <1>17, <1>18 DEF Links, Pushed

(* pullNotifiedFIFO takes the first element, the whole of it. *)
LEMMA PullFifo ==
  ASSUME NEW o, NEW l, NEW nxt, NEW s, IsFifo(o, l, nxt, s), o # Null
  PROVE  /\ s # << >> /\ o = s[1] /\ o \in Elems(s)
         /\ IsFifo(nxt[o], IF nxt[o] = Null THEN Null ELSE l, nxt, Tail(s))
         /\ Elems(Tail(s)) = Elems(s) \ {o}
         /\ Among(Elts \ {o}, s) = Tail(s)
<1>1. /\ s \in Lists /\ s \in Seq(Elts) /\ Len(s) \in Nat /\ DOMAIN s = 1 .. Len(s) /\ Distinct(s)
      /\ \A i \in 1 .. Len(s) : s[i] \in Elts /\ s[i] # Null /\ s[i] \in Elems(s)
      /\ s = << >> <=> Len(s) = 0
  BY ListTypes DEF IsFifo
<1>2. s # << >> /\ Len(s) # 0 /\ 1 \in 1 .. Len(s) /\ o = s[1] /\ o \in Elems(s)
  BY <1>1 DEF IsFifo, Chain
<1>3. PICK t : t = Tail(s)
  OBVIOUS
<1>4. /\ t \in Seq(Elts) /\ Len(t) = Len(s) - 1 /\ DOMAIN t = 1 .. (Len(s) - 1)
      /\ \A i \in 1 .. (Len(s) - 1) : t[i] = s[i + 1] /\ i + 1 \in 1 .. Len(s) /\ i + 1 # 1
      /\ t = << >> <=> Len(s) = 1
  <2>1. t \in Seq(Elts) /\ Len(t) = Len(s) - 1 /\ \A i \in 1 .. Len(t) : t[i] = s[i + 1]
    BY <1>1, <1>2, <1>3, HeadTailProperties
  <2>2. DOMAIN t = 1 .. Len(t) /\ (t = << >> <=> Len(t) = 0)
    BY <2>1
  <2> QED BY <1>1, <1>2, <2>1, <2>2
<1>5. Distinct(t)
  <2> SUFFICES ASSUME NEW i \in 1 .. (Len(s) - 1), NEW j \in 1 .. (Len(s) - 1), t[i] = t[j] PROVE i = j
    BY <1>4 DEF Distinct
  <2>1. s[i + 1] = s[j + 1] /\ i + 1 \in DOMAIN s /\ j + 1 \in DOMAIN s
    BY <1>1, <1>4
  <2>2. i + 1 = j + 1
    BY <1>1, <2>1 DEF Distinct
  <2> QED BY <1>1, <2>2
<1>6. Elems(t) = Elems(s) \ {o}
  <2>1. ASSUME NEW x \in Elems(t) PROVE x \in Elems(s) \ {o}
    <3>1. PICK i \in 1 .. (Len(s) - 1) : x = t[i]
      BY <1>4, <2>1 DEF Elems
    <3>2. x = s[i + 1] /\ i + 1 \in 1 .. Len(s) /\ i + 1 # 1
      BY <1>4, <3>1
    <3> QED BY <1>1, <1>2, <3>2 DEF Distinct
  <2>2. ASSUME NEW x \in Elems(s) \ {o} PROVE x \in Elems(t)
    <3>1. PICK i \in 1 .. Len(s) : x = s[i]
      BY <1>1, <2>2 DEF Elems
    <3>2. i # 1
      BY <1>2, <2>2, <3>1
    <3>3. i - 1 \in 1 .. (Len(s) - 1) /\ (i - 1) + 1 = i
      BY <1>1, <3>2
    <3>4. x = t[i - 1] /\ i - 1 \in DOMAIN t
      BY <1>4, <3>1, <3>3
    <3> QED BY <3>4 DEF Elems
  <2> QED BY <2>1, <2>2
<1>7. \A i \in 1 .. Len(s) : nxt[s[i]] = IF i < Len(s) THEN s[i + 1] ELSE Null
  BY DEF IsFifo, Chain
<1>8. nxt[o] = IF t = << >> THEN Null ELSE t[1]
  <2>1. CASE Len(s) = 1
    BY <1>2, <1>4, <1>7, <2>1
  <2>2. CASE Len(s) # 1
    <3>1. 1 < Len(s) /\ 1 \in 1 .. (Len(s) - 1) /\ t # << >>
      BY <1>1, <1>2, <1>4, <2>2
    <3>2. t[1] = s[1 + 1]
      BY <1>4, <3>1
    <3> QED BY <1>2, <1>7, <3>1, <3>2
  <2> QED BY <2>1, <2>2
<1>9. ASSUME NEW i \in 1 .. Len(t) PROVE nxt[t[i]] = IF i < Len(t) THEN t[i + 1] ELSE Null
  <2>1. /\ i \in 1 .. (Len(s) - 1) /\ t[i] = s[i + 1] /\ i + 1 \in 1 .. Len(s)
        /\ i < Len(t) <=> i + 1 < Len(s)
        /\ i < Len(t) => i + 1 \in 1 .. (Len(s) - 1)
    BY <1>1, <1>4, <1>9
  <2>2. i < Len(t) => t[i + 1] = s[(i + 1) + 1]
    BY <1>4, <2>1
  <2> QED BY <1>7, <2>1, <2>2
<1>10. Chain(nxt[o], nxt, t)
  BY <1>8, <1>9 DEF Chain
<1>11. (IF nxt[o] = Null THEN Null ELSE l) = IF t = << >> THEN Null ELSE t[Len(t)]
  <2>1. CASE t = << >>
    BY <1>8, <2>1
  <2>2. CASE t # << >>
    <3>1. 1 \in 1 .. (Len(s) - 1) /\ Len(s) - 1 \in 1 .. (Len(s) - 1) /\ (Len(s) - 1) + 1 = Len(s)
      BY <1>1, <1>2, <1>4, <2>2
    <3>2. nxt[o] # Null
      BY <1>1, <1>4, <1>8, <2>2, <3>1
    <3>3. t[Len(t)] = s[Len(s)] /\ l = s[Len(s)]
      BY <1>2, <1>4, <3>1 DEF IsFifo
    <3> QED BY <2>2, <3>2, <3>3
  <2> QED BY <2>1, <2>2
<1>12. IsFifo(nxt[o], IF nxt[o] = Null THEN Null ELSE l, nxt, t)
  BY <1>4, <1>5, <1>10, <1>11 DEF IsFifo, Lists
<1>13. Among(Elts \ {o}, s) = t
  <2>1. s[1] \notin Elts \ {o}
    BY <1>2
  <2>2. \A i \in 2 .. Len(s) : s[i] \in Elts \ {o}
    <3> SUFFICES ASSUME NEW i \in 2 .. Len(s) PROVE s[i] \in Elts \ {o}
      OBVIOUS
    <3>1. i \in 1 .. Len(s) /\ i # 1
      BY <1>1
    <3> QED BY <1>1, <1>2, <3>1 DEF Distinct
  <2> QED BY <1>1, <1>2, <1>3, <2>1, <2>2, AmongTail
<1> QED BY <1>2, <1>3, <1>6, <1>12, <1>13

\* The links after abortNotifiedFIFO has left the list left.
Unlinked(nxt, left) ==
  [e \in Elts |->
     IF \E i \in DOMAIN left : left[i] = e
       THEN IF (CHOOSE i \in DOMAIN left : left[i] = e) < Len(left)
              THEN left[(CHOOSE i \in DOMAIN left : left[i] = e) + 1] ELSE Null
       ELSE nxt[e]]

\* The first and the last element that abortNotifiedFIFO leaves.
FirstLeft(left) == IF left = << >> THEN Null ELSE left[1]
LastLeft(left, l) == IF left = << >> THEN Null ELSE l

\* The elements of s in S, in links that differ from nxt only there.
Remains(l, nxt, nxt2, s, S, left) ==
  /\ IsFifo(FirstLeft(left), LastLeft(left, l), nxt2, left)
  /\ Elems(left) = Elems(s) \cap S
  /\ nxt2 \in Links
  /\ \A e \in Elts : e \notin Elems(s) => nxt2[e] = nxt[e]

(* Unlinking leaves the rest of the list, as long as its last element stays   *)
(* or nothing does.                                                           *)
LEMMA UnlinkFifo ==
  ASSUME NEW o, NEW l, NEW nxt \in Links, NEW s, IsFifo(o, l, nxt, s), NEW S,
         NEW left, left = Among(S, s),
         left = << >> \/ s[Len(s)] \in S,
         NEW nxt2, nxt2 = Unlinked(nxt, left)
  PROVE  Remains(l, nxt, nxt2, s, S, left)
<1>1. s \in Lists /\ l = IF s = << >> THEN Null ELSE s[Len(s)]
  BY DEF IsFifo
<1>2. /\ left \in Lists /\ Elems(left) = Elems(s) \cap S
      /\ s # << >> /\ s[Len(s)] \in S => left # << >> /\ left[Len(left)] = s[Len(s)]
  BY <1>1, AmongOK
<1>3. /\ left \in Seq(Elts) /\ Len(left) \in Nat /\ DOMAIN left = 1 .. Len(left) /\ Distinct(left)
      /\ \A i \in 1 .. Len(left) : left[i] \in Elts /\ left[i] \in Elems(left)
      /\ left = << >> <=> Len(left) = 0
  BY <1>2, ListTypes
<1>4. ASSUME NEW i \in 1 .. Len(left)
      PROVE  nxt2[left[i]] = IF i < Len(left) THEN left[i + 1] ELSE Null
  <2>1. PICK e : e = left[i]
    OBVIOUS
  <2>2. PICK c : c = CHOOSE j \in DOMAIN left : left[j] = e
    OBVIOUS
  <2>3. e \in Elts /\ \E j \in DOMAIN left : left[j] = e
    BY <1>3, <2>1
  <2>4. c \in DOMAIN left /\ left[c] = e
    BY <2>2, <2>3
  <2>5. c = i
    BY <1>3, <2>1, <2>4 DEF Distinct
  <2>6. nxt2[e] = IF c < Len(left) THEN left[c + 1] ELSE Null
    BY <2>2, <2>3 DEF Unlinked
  <2> QED BY <2>1, <2>5, <2>6
<1>5. \A e \in Elts : \A i \in 1 .. Len(left) :
         e = left[i] => nxt2[e] = IF i < Len(left) THEN left[i + 1] ELSE Null
  BY <1>4, Zenon
<1>6. \A e \in Elts : e \notin Elems(left) => nxt2[e] = nxt[e]
  BY DEF Elems, Unlinked
<1>7. nxt2 \in [Elts -> Elts \cup {Null}]
  <2>1. \A e \in Elts : nxt2[e] \in Elts \cup {Null}
    <3> SUFFICES ASSUME NEW e \in Elts PROVE nxt2[e] \in Elts \cup {Null}
      OBVIOUS
    <3>1. CASE e \in Elems(left)
      <4>1. PICK i \in 1 .. Len(left) : e = left[i]
        BY <1>3, <3>1 DEF Elems
      <4>2. i < Len(left) => i + 1 \in 1 .. Len(left)
        BY <1>3
      <4>3. nxt2[e] = IF i < Len(left) THEN left[i + 1] ELSE Null
        BY <1>5, <4>1
      <4> QED BY <1>3, <4>2, <4>3
    <3>2. CASE e \notin Elems(left)
      BY <1>6, <3>2 DEF Links
    <3> QED BY <3>1, <3>2
  <2>2. nxt2 = [e \in Elts |-> nxt2[e]]
    BY DEF Unlinked
  <2> QED BY <2>1, <2>2
<1>8. Chain(IF left = << >> THEN Null ELSE left[1], nxt2, left)
  BY <1>4 DEF Chain
<1>9. (IF left = << >> THEN Null ELSE l) = IF left = << >> THEN Null ELSE left[Len(left)]
  <2>1. CASE left = << >>
    BY <2>1
  <2>2. CASE left # << >>
    <3>1. s # << >>
      <4> SUFFICES ASSUME s = << >> PROVE FALSE
        OBVIOUS
      <4>1. Elems(s) = {}
        BY DEF Elems
      <4>2. 1 \in 1 .. Len(left)
        BY <1>3, <2>2
      <4> QED BY <1>2, <1>3, <4>1, <4>2
    <3> QED BY <1>1, <1>2, <2>2, <3>1
  <2> QED BY <2>1, <2>2
<1> QED BY <1>2, <1>6, <1>7, <1>8, <1>9 DEF IsFifo, FirstLeft, LastLeft, Links, Remains

-----------------------------------------------------------------------------
(***************************************************************************)
(* The inductive invariant.                                                *)
(***************************************************************************)
Allocated == {e \in Elts : malloced[e]}
Flagged == {w \in Workers : abortFlag[w]}

\* A worker with a job has it to itself, knows its key, and will drop it if
\* and only if an abort ended it.
WorkersOK ==
  \A w \in Workers :
    /\ pc[w] = "wait" <=> elt[w] = Null
    /\ elt[w] # Null =>
         /\ elt[w] \in Allocated
         /\ stage[elt[w]] = IF pc[w] = "process" THEN "picked" ELSE "processed"
         /\ runningOnKey[w] = key[elt[w]]
         /\ w \in Flagged <=> elt[w] \in cancelled
    /\ \A v \in Workers : elt[v] = elt[w] /\ elt[w] # Null => v = w

\* The stages of what is queued, and that it is allocated.
QueuesOK(resp) ==
  /\ IsFifo(outF["in"], inF["in"], next, pending)
  /\ IsFifo(outF["resp"], inF["resp"], next, resp)
  /\ \A e \in Elts : stage[e] = "pushed" <=> e \in Elems(pending)
  /\ \A e \in Elems(resp) : stage[e] = "posted"
  /\ Elems(pending) \cup Elems(resp) \subseteq Allocated

CancelledOK == \A e \in cancelled : stage[e] \notin {"pushed", "posted"}

PInv == PoolTypeOK /\ WorkersOK /\ CancelledOK /\ \E resp \in Lists : QueuesOK(resp)

LEMMA EmptyFifo ==
  ASSUME NEW nxt
  PROVE  << >> \in Lists /\ Elems(<< >>) = {} /\ IsFifo(Null, Null, nxt, << >>)
<1>1. << >> \in Lists /\ Elems(<< >>) = {}
  BY DEF Lists, Distinct, Elems
<1>2. Chain(Null, nxt, << >>)
  BY DEF Chain
<1> QED BY <1>1, <1>2 DEF IsFifo

LEMMA PoolInitOK == Init => PInv
<1> SUFFICES ASSUME Init PROVE PInv
  OBVIOUS
<1>1. PoolTypeOK
  <2>1. malloced \in [Elts -> BOOLEAN] /\ reponseFifo \in [Elts -> BOOLEAN] /\ abortFlag \in [Workers -> BOOLEAN]
    BY Zenon DEF Init
  <2>2. activated \in BOOLEAN
    BY DEF Init
  <2>3. /\ outF \in [Fifos -> Elts \cup {Null}] /\ inF \in [Fifos -> Elts \cup {Null}]
        /\ next \in [Elts -> Elts \cup {Null}]
        /\ key \in [Elts -> Keys \cup {Null}]
        /\ runningOnKey \in [Workers -> Keys \cup {Null}]
        /\ elt \in [Workers -> Elts \cup {Null}]
        /\ pc \in [Workers -> {"wait", "process", "answer"}]
        /\ stage \in [Elts -> Stages] /\ pending \in Seq(Elts)
        /\ cancelled \subseteq Elts
    BY DEF Init, Stages
  <2> QED BY <2>1, <2>2, <2>3 DEF PoolTypeOK
<1>2. WorkersOK /\ CancelledOK
  BY DEF Init, WorkersOK, CancelledOK
<1>3. QueuesOK(<< >>)
  <2>1. /\ outF["in"] = Null /\ inF["in"] = Null /\ outF["resp"] = Null /\ inF["resp"] = Null
        /\ pending = << >> /\ \A e \in Elts : stage[e] = "none"
    BY DEF Init, Fifos
  <2> QED BY <2>1, EmptyFifo DEF QueuesOK
<1> QED BY <1>1, <1>2, <1>3, EmptyFifo DEF PInv

-----------------------------------------------------------------------------
(***************************************************************************)
(* What the operations on the FIFOs and on memory do.                      *)
(***************************************************************************)
QueueTypes ==
  /\ outF \in [Fifos -> Elts \cup {Null}] /\ inF \in [Fifos -> Elts \cup {Null}]
  /\ next \in [Elts -> Elts \cup {Null}]

LEMMA PushQueue ==
  ASSUME QueueTypes, NEW f \in Fifos, NEW g \in Fifos, f # g, NEW e \in Elts, NEW s, NEW t,
         IsFifo(outF[f], inF[f], next, s), IsFifo(outF[g], inF[g], next, t),
         e \notin Elems(s), e \notin Elems(t), Elems(s) \cap Elems(t) = {},
         pushNotifiedFIFO(f, e)
  PROVE  /\ QueueTypes' /\ IsFifo(outF'[f], inF'[f], next', Append(s, e))
         /\ IsFifo(outF'[g], inF'[g], next', t)
         /\ Elems(Append(s, e)) = Elems(s) \cup {e}
<1>1. PICK o, l : o = outF[f] /\ l = inF[f]
  OBVIOUS
<1>2. PICK o2 : IsPush(o, l, next, e, o2, next')
  BY <1>1 DEF pushNotifiedFIFO, Linked, IsPush
<1>3. next \in Links
  BY DEF QueueTypes, Links
<1>4. IsFifo(o, l, next, s)
  BY <1>1
<1>5. Pushed(o2, e, next, next', s)
  BY <1>2, <1>3, <1>4, PushFifo, Zenon
<1>6. /\ IsFifo(o2, e, next', Append(s, e))
      /\ Elems(Append(s, e)) = Elems(s) \cup {e}
      /\ next' \in Links
      /\ \A x \in Elts : x # e /\ x \notin Elems(s) => next'[x] = next[x]
  BY <1>5 DEF Pushed
<1>7. /\ outF'[f] = o2 /\ inF'[f] = e
      /\ outF'[g] = outF[g] /\ inF'[g] = inF[g]
      /\ outF' \in [Fifos -> Elts \cup {Null}] /\ inF' \in [Fifos -> Elts \cup {Null}]
  BY <1>1, <1>2 DEF pushNotifiedFIFO, QueueTypes, IsPush
<1>8. Elems(t) \subseteq Elts
  BY ListTypes DEF IsFifo
<1>9. IsFifo(outF[g], inF[g], next', t)
  BY <1>6, <1>8, OtherFifo
<1> QED BY <1>6, <1>7, <1>9 DEF QueueTypes, Links

LEMMA PullQueue ==
  ASSUME QueueTypes, NEW f \in Fifos, NEW g \in Fifos, f # g, NEW s, NEW t,
         IsFifo(outF[f], inF[f], next, s), IsFifo(outF[g], inF[g], next, t),
         pullNotifiedFIFO(f)
  PROVE  /\ QueueTypes' /\ outF[f] # Null /\ outF[f] \in Elems(s) /\ outF[f] \in Elts
         /\ IsFifo(outF'[f], inF'[f], next', Tail(s)) /\ Tail(s) \in Lists
         /\ IsFifo(outF'[g], inF'[g], next', t)
         /\ Elems(Tail(s)) = Elems(s) \ {outF[f]}
         /\ Among(Elts \ {outF[f]}, s) = Tail(s)
<1>1. PICK o, l : o = outF[f] /\ l = inF[f]
  OBVIOUS
<1>2. o # Null /\ next' = next
  BY <1>1 DEF pullNotifiedFIFO
<1>3. /\ o \in Elems(s)
      /\ IsFifo(next[o], IF next[o] = Null THEN Null ELSE l, next, Tail(s))
      /\ Elems(Tail(s)) = Elems(s) \ {o}
      /\ Among(Elts \ {o}, s) = Tail(s)
  BY <1>1, <1>2, PullFifo
<1>4. o \in Elts
  BY <1>1, <1>2 DEF QueueTypes
<1>5. /\ outF'[f] = next[o] /\ inF'[f] = (IF next[o] = Null THEN Null ELSE l)
      /\ outF'[g] = outF[g] /\ inF'[g] = inF[g]
      /\ outF' \in [Fifos -> Elts \cup {Null}] /\ inF' \in [Fifos -> Elts \cup {Null}]
  BY <1>1, <1>4 DEF pullNotifiedFIFO, QueueTypes
<1>6. Tail(s) \in Lists
  BY <1>3 DEF IsFifo
<1> QED BY <1>1, <1>2, <1>3, <1>4, <1>5, <1>6 DEF QueueTypes

LEMMA NewAllocates ==
  ASSUME malloced \in [Elts -> BOOLEAN], reponseFifo \in [Elts -> BOOLEAN],
         NEW e \in Elts, NEW k, NEW r \in BOOLEAN, newNotifiedFIFO_elt(e, k, r)
  PROVE  /\ malloced' \in [Elts -> BOOLEAN] /\ reponseFifo' \in [Elts -> BOOLEAN]
         /\ e \notin Allocated /\ Allocated' = Allocated \cup {e}
<1>1. malloced' \in [Elts -> BOOLEAN] /\ reponseFifo' \in [Elts -> BOOLEAN]
  BY Zenon DEF newNotifiedFIFO_elt
<1>2. e \notin Allocated
  BY Zenon DEF newNotifiedFIFO_elt, Allocated
<1>3. malloced'[e] /\ \A x \in Elts \ {e} : malloced'[x] = malloced[x]
  BY Zenon DEF newNotifiedFIFO_elt
<1>4. Allocated' = Allocated \cup {e}
  BY <1>3, Zenon DEF Allocated
<1> QED BY <1>1, <1>2, <1>4

LEMMA DelFrees ==
  ASSUME malloced \in [Elts -> BOOLEAN], NEW es, delNotifiedFIFO_elts(es)
  PROVE  malloced' \in [Elts -> BOOLEAN] /\ Allocated' = Allocated \ es
<1>1. \A x \in Elts : malloced'[x] <=> malloced[x] /\ x \notin es
  BY Zenon DEF delNotifiedFIFO_elts
<1>2. Allocated' = Allocated \ es
  BY <1>1, Zenon DEF Allocated
<1>3. malloced' \in [Elts -> BOOLEAN]
  BY Zenon DEF delNotifiedFIFO_elts
<1> QED BY <1>2, <1>3

LEMMA PInvFacts ==
  ASSUME PInv
  PROVE  /\ PoolTypeOK /\ WorkersOK /\ CancelledOK /\ QueueTypes
         /\ malloced \in [Elts -> BOOLEAN] /\ reponseFifo \in [Elts -> BOOLEAN]
         /\ key \in [Elts -> Keys \cup {Null}] /\ stage \in [Elts -> Stages]
         /\ Allocated \subseteq Elts /\ cancelled \subseteq Elts
         /\ \E resp \in Lists : QueuesOK(resp)
BY DEF PInv, PoolTypeOK, QueueTypes, Allocated

(* The two queues share nothing, and no worker holds what is in one. *)
LEMMA Apart ==
  ASSUME PInv, NEW resp \in Lists, QueuesOK(resp)
  PROVE  /\ Elems(pending) \cap Elems(resp) = {}
         /\ Elems(pending) \subseteq Elts /\ Elems(resp) \subseteq Elts /\ pending \in Lists
         /\ \A w \in Workers : elt[w] # Null => /\ elt[w] \in Elts
                                                /\ elt[w] \notin Elems(pending)
                                                /\ elt[w] \notin Elems(resp)
<1>1. Elems(pending) \subseteq Elts /\ Elems(resp) \subseteq Elts /\ pending \in Lists
  BY ListTypes DEF QueuesOK, IsFifo
<1>2. Elems(pending) \cap Elems(resp) = {}
  BY <1>1 DEF QueuesOK
<1>3. ASSUME NEW w \in Workers, elt[w] # Null
      PROVE  elt[w] \in Elts /\ elt[w] \notin Elems(pending) /\ elt[w] \notin Elems(resp)
  <2>1. elt[w] \in Allocated /\ stage[elt[w]] \in {"picked", "processed"}
    BY <1>3 DEF PInv, WorkersOK
  <2>2. elt[w] \in Elts
    BY <2>1 DEF Allocated
  <2> QED BY <1>1, <2>1, <2>2 DEF QueuesOK
<1> QED BY <1>1, <1>2, <1>3

-----------------------------------------------------------------------------
(***************************************************************************)
(* The actions keep the inductive invariant.                               *)
(***************************************************************************)
Flags == /\ activated \in BOOLEAN
         /\ reponseFifo \in [Elts -> BOOLEAN] /\ malloced \in [Elts -> BOOLEAN]
         /\ abortFlag \in [Workers -> BOOLEAN]

Records ==
  /\ key \in [Elts -> Keys \cup {Null}]
  /\ runningOnKey \in [Workers -> Keys \cup {Null}]
  /\ elt \in [Workers -> Elts \cup {Null}]
  /\ pc \in [Workers -> {"wait", "process", "answer"}]
  /\ stage \in [Elts -> Stages]
  /\ cancelled \subseteq Elts

LEMMA TypesOf == PoolTypeOK <=> Flags /\ QueueTypes /\ Records /\ pending \in Seq(Elts)
BY DEF PoolTypeOK, Flags, QueueTypes, Records

(* The parts of the invariant make the whole after a step. *)
LEMMA Together ==
  ASSUME Flags', Records', QueueTypes', WorkersOK', CancelledOK', NEW resp, QueuesOK(resp)'
  PROVE  PInv'
<1>1. resp \in Lists /\ pending' \in Lists
  BY DEF QueuesOK, IsFifo
<1>2. pending' \in Seq(Elts)
  BY <1>1 DEF Lists
<1>3. PoolTypeOK'
  BY <1>2 DEF PoolTypeOK, Flags, QueueTypes, Records
<1> QED BY <1>1, <1>3 DEF PInv

(* A step that leaves the workers and their jobs alone. *)
LEMMA SameWorkers ==
  ASSUME WorkersOK, elt' = elt, pc' = pc, runningOnKey' = runningOnKey, Flagged' = Flagged,
         \A w \in Workers : elt[w] # Null =>
           /\ elt[w] \in Allocated'
           /\ stage'[elt[w]] = stage[elt[w]] /\ key'[elt[w]] = key[elt[w]]
           /\ elt[w] \in cancelled' <=> elt[w] \in cancelled
  PROVE  WorkersOK'
BY DEF WorkersOK

LEMMA PushKeeps ==
  ASSUME PInv, NEW e \in Elts, NEW k \in Keys, NEW r \in BOOLEAN, pushTpool(e, k, r), UNCHANGED activated
  PROVE  PInv'
<1>1. PICK resp \in Lists : QueuesOK(resp)
  BY DEF PInv
<1>2. /\ Flags /\ QueueTypes /\ Records /\ WorkersOK /\ CancelledOK
  BY TypesOf DEF PInv
<1>3. /\ Elems(pending) \cap Elems(resp) = {} /\ Elems(pending) \subseteq Elts /\ Elems(resp) \subseteq Elts
      /\ Elems(pending) \cup Elems(resp) \subseteq Allocated
      /\ \A w \in Workers : elt[w] # Null => elt[w] \in Elts /\ elt[w] \in Allocated
  BY <1>1, <1>2, Apart DEF QueuesOK, WorkersOK
<1>4. /\ malloced' \in [Elts -> BOOLEAN] /\ reponseFifo' \in [Elts -> BOOLEAN]
      /\ e \notin Allocated /\ Allocated' = Allocated \cup {e}
  BY <1>2, NewAllocates DEF pushTpool, Flags
<1>5. /\ workerVars' = workerVars /\ cancelled' = cancelled \ {e} /\ key' = [key EXCEPT ![e] = k]
      /\ elt' = elt /\ pc' = pc /\ runningOnKey' = runningOnKey /\ abortFlag' = abortFlag
  BY DEF pushTpool, newNotifiedFIFO_elt, workerVars
<1>6. Flags' /\ Flagged' = Flagged
  <2>1. activated' \in BOOLEAN /\ abortFlag' \in [Workers -> BOOLEAN] /\ Flagged' = Flagged
    BY <1>2, <1>5, Zenon DEF Flags, Flagged
  <2> QED BY <1>4, <2>1, Zenon DEF Flags
<1>7. ASSUME NEW st \in {"pushed", "posted", "processed"}, stage' = [stage EXCEPT ![e] = st]
      PROVE  /\ Records' /\ WorkersOK' /\ CancelledOK'
             /\ stage'[e] = st /\ \A x \in Elts : x # e => stage'[x] = stage[x]
  <2>1. stage'[e] = st /\ \A x \in Elts : x # e => stage'[x] = stage[x]
    BY <1>2, <1>7 DEF Records
  <2>2. Records'
    BY <1>2, <1>5, <1>7 DEF Records, Stages
  <2>3. \A w \in Workers : elt[w] # Null =>
           /\ elt[w] \in Allocated'
           /\ stage'[elt[w]] = stage[elt[w]] /\ key'[elt[w]] = key[elt[w]]
           /\ elt[w] \in cancelled' <=> elt[w] \in cancelled
    BY <1>2, <1>3, <1>4, <1>5, <2>1 DEF Records
  <2>4. WorkersOK'
    BY <1>2, <1>5, <1>6, <2>3, SameWorkers
  <2>5. CancelledOK'
    BY <1>2, <1>5, <2>1 DEF CancelledOK, Records
  <2> QED BY <2>1, <2>2, <2>4, <2>5
<1>8. /\ IsFifo(outF["in"], inF["in"], next, pending)
      /\ IsFifo(outF["resp"], inF["resp"], next, resp)
      /\ e \notin Elems(pending) /\ e \notin Elems(resp)
      /\ "in" \in Fifos /\ "resp" \in Fifos /\ "in" # "resp"
  BY <1>1, <1>3, <1>4 DEF QueuesOK, Fifos
<1>9. CASE activated
  <2>1. /\ pushNotifiedFIFO("in", e) /\ stage' = [stage EXCEPT ![e] = "pushed"]
        /\ pending' = Append(pending, e)
    BY <1>9 DEF pushTpool
  <2>2. /\ QueueTypes' /\ IsFifo(outF'["in"], inF'["in"], next', Append(pending, e))
        /\ IsFifo(outF'["resp"], inF'["resp"], next', resp)
        /\ Elems(Append(pending, e)) = Elems(pending) \cup {e}
    BY <1>2, <1>3, <1>8, <2>1, PushQueue
  <2>3. /\ Records' /\ WorkersOK' /\ CancelledOK'
        /\ stage'[e] = "pushed" /\ \A x \in Elts : x # e => stage'[x] = stage[x]
    BY <1>7, <2>1
  <2>4. QueuesOK(resp)'
    BY <1>1, <1>3, <1>4, <1>8, <2>1, <2>2, <2>3 DEF QueuesOK
  <2> QED BY <1>6, <2>2, <2>3, <2>4, Together
<1>10. CASE ~activated /\ r
  <2>1. pushNotifiedFIFO("resp", e) /\ stage' = [stage EXCEPT ![e] = "posted"] /\ pending' = pending
    BY <1>10 DEF pushTpool
  <2>2. PICK resp2 : resp2 = Append(resp, e)
    OBVIOUS
  <2>3. /\ QueueTypes' /\ IsFifo(outF'["resp"], inF'["resp"], next', resp2)
        /\ IsFifo(outF'["in"], inF'["in"], next', pending)
        /\ Elems(resp2) = Elems(resp) \cup {e}
    BY <1>2, <1>3, <1>8, <2>1, <2>2, PushQueue
  <2>4. /\ Records' /\ WorkersOK' /\ CancelledOK'
        /\ stage'[e] = "posted" /\ \A x \in Elts : x # e => stage'[x] = stage[x]
    BY <1>7, <2>1
  <2>5. QueuesOK(resp2)'
    BY <1>1, <1>3, <1>4, <1>8, <2>1, <2>3, <2>4 DEF QueuesOK
  <2> QED BY <1>6, <2>3, <2>4, <2>5, Together
<1>11. CASE ~activated /\ ~r
  <2>1. outF' = outF /\ inF' = inF /\ next' = next /\ stage' = [stage EXCEPT ![e] = "processed"] /\ pending' = pending
    BY <1>11 DEF pushTpool, queueVars
  <2>2. /\ Records' /\ WorkersOK' /\ CancelledOK'
        /\ stage'[e] = "processed" /\ \A x \in Elts : x # e => stage'[x] = stage[x]
    BY <1>7, <2>1
  <2>3. QueueTypes' /\ QueuesOK(resp)'
    BY <1>1, <1>2, <1>3, <1>4, <1>8, <2>1, <2>2 DEF QueuesOK, QueueTypes
  <2> QED BY <1>6, <2>2, <2>3, Together
<1> QED BY <1>9, <1>10, <1>11

LEMMA PullKeeps ==
  ASSUME PInv, pullTpool, UNCHANGED activated
  PROVE  PInv'
<1>1. PICK resp \in Lists : QueuesOK(resp)
  BY DEF PInv
<1>2. /\ Flags /\ QueueTypes /\ Records /\ WorkersOK /\ CancelledOK
  BY TypesOf DEF PInv
<1>3. /\ Elems(pending) \cap Elems(resp) = {} /\ Elems(pending) \subseteq Elts /\ Elems(resp) \subseteq Elts
      /\ \A w \in Workers : elt[w] # Null => /\ elt[w] \in Elts /\ elt[w] \in Allocated
                                             /\ elt[w] \notin Elems(resp)
  BY <1>1, <1>2, Apart DEF WorkersOK
<1>4. /\ IsFifo(outF["in"], inF["in"], next, pending)
      /\ IsFifo(outF["resp"], inF["resp"], next, resp)
      /\ "in" \in Fifos /\ "resp" \in Fifos /\ "in" # "resp"
  BY <1>1 DEF QueuesOK, Fifos
<1>5. PICK e, resp2 : e = outF["resp"] /\ resp2 = Tail(resp)
  OBVIOUS
<1>6. /\ QueueTypes' /\ e \in Elems(resp) /\ e \in Elts
      /\ IsFifo(outF'["resp"], inF'["resp"], next', resp2)
      /\ IsFifo(outF'["in"], inF'["in"], next', pending)
      /\ Elems(resp2) = Elems(resp) \ {e}
  BY <1>2, <1>4, <1>5, PullQueue DEF pullTpool
<1>7. malloced' \in [Elts -> BOOLEAN] /\ Allocated' = Allocated \ {e}
  <2>1. delNotifiedFIFO_elts({e}) /\ malloced \in [Elts -> BOOLEAN]
    BY <1>2, <1>5, Zenon DEF pullTpool, Flags
  <2> QED BY <2>1, DelFrees
<1>8. /\ elt' = elt /\ pc' = pc /\ runningOnKey' = runningOnKey /\ abortFlag' = abortFlag
      /\ key' = key /\ reponseFifo' = reponseFifo /\ cancelled' = cancelled /\ pending' = pending
      /\ stage' = [stage EXCEPT ![e] = "none"]
  BY <1>5 DEF pullTpool, delNotifiedFIFO_elts, workerVars
<1>9. Flags' /\ Flagged' = Flagged
  <2>1. /\ activated' \in BOOLEAN /\ abortFlag' \in [Workers -> BOOLEAN] /\ Flagged' = Flagged
        /\ reponseFifo' \in [Elts -> BOOLEAN]
    BY <1>2, <1>8, Zenon DEF Flags, Flagged
  <2> QED BY <1>7, <2>1, Zenon DEF Flags
<1>10. stage'[e] = "none" /\ \A x \in Elts : x # e => stage'[x] = stage[x]
  BY <1>2, <1>6, <1>8 DEF Records
<1>11. Records'
  BY <1>2, <1>6, <1>8 DEF Records, Stages
<1>12. WorkersOK'
  <2>1. \A w \in Workers : elt[w] # Null =>
           /\ elt[w] \in Allocated'
           /\ stage'[elt[w]] = stage[elt[w]] /\ key'[elt[w]] = key[elt[w]]
           /\ elt[w] \in cancelled' <=> elt[w] \in cancelled
    BY <1>3, <1>6, <1>7, <1>8, <1>10
  <2> QED BY <1>2, <1>8, <1>9, <2>1, SameWorkers
<1>13. CancelledOK'
  BY <1>2, <1>8, <1>10 DEF CancelledOK, Records
<1>14. QueuesOK(resp2)'
  BY <1>1, <1>3, <1>6, <1>7, <1>8, <1>10 DEF QueuesOK
<1> QED BY <1>6, <1>9, <1>11, <1>12, <1>13, <1>14, Together

LEMMA RememberKeeps ==
  ASSUME PInv, NEW w \in Workers, PullRemember(w), UNCHANGED activated
  PROVE  PInv'
<1>1. PICK resp \in Lists : QueuesOK(resp)
  BY DEF PInv
<1>2. /\ Flags /\ QueueTypes /\ Records /\ WorkersOK /\ CancelledOK
  BY TypesOf DEF PInv
<1>3. /\ Elems(pending) \cap Elems(resp) = {} /\ Elems(pending) \subseteq Elts /\ Elems(resp) \subseteq Elts
      /\ \A v \in Workers : elt[v] # Null => elt[v] \in Elts /\ elt[v] \notin Elems(pending)
  BY <1>1, Apart
<1>4. /\ IsFifo(outF["in"], inF["in"], next, pending)
      /\ IsFifo(outF["resp"], inF["resp"], next, resp)
      /\ "in" \in Fifos /\ "resp" \in Fifos /\ "in" # "resp"
  BY <1>1 DEF QueuesOK, Fifos
<1>5. PICK e : e = outF["in"]
  OBVIOUS
<1>6. /\ QueueTypes' /\ e \in Elems(pending) /\ e \in Elts
      /\ IsFifo(outF'["in"], inF'["in"], next', Tail(pending))
      /\ IsFifo(outF'["resp"], inF'["resp"], next', resp)
      /\ Elems(Tail(pending)) = Elems(pending) \ {e}
      /\ Among(Elts \ {e}, pending) = Tail(pending)
  BY <1>2, <1>4, <1>5, PullQueue DEF PullRemember
<1>7. /\ pc[w] = "wait" /\ elt' = [elt EXCEPT ![w] = e] /\ runningOnKey' = [runningOnKey EXCEPT ![w] = key[e]]
      /\ pc' = [pc EXCEPT ![w] = "process"] /\ stage' = [stage EXCEPT ![e] = "picked"]
      /\ pending' = Tail(pending) /\ cancelled' = cancelled
      /\ key' = key /\ reponseFifo' = reponseFifo /\ malloced' = malloced
  BY <1>5, <1>6 DEF PullRemember, eltVars
<1>8. Flags' /\ Flagged' = Flagged \ {w} /\ Allocated' = Allocated
  <2>1. abortFlag' = [abortFlag EXCEPT ![w] = FALSE]
    BY DEF PullRemember
  <2>2. abortFlag' \in [Workers -> BOOLEAN]
    BY <1>2, <2>1, Zenon DEF Flags
  <2>3. ~abortFlag'[w] /\ \A v \in Workers : v # w => abortFlag'[v] = abortFlag[v]
    BY <1>2, <2>1, Zenon DEF Flags
  <2>4. Flagged' = Flagged \ {w} /\ Allocated' = Allocated
    BY <1>7, <2>3, Zenon DEF Flagged, Allocated
  <2> QED BY <1>2, <1>7, <2>2, <2>4, Zenon DEF Flags
<1>9. /\ stage'[e] = "picked" /\ \A x \in Elts : x # e => stage'[x] = stage[x]
      /\ stage[e] = "pushed" /\ e \in Allocated /\ e \notin cancelled /\ e # Null
  BY <1>1, <1>2, <1>3, <1>6, <1>7, PoolAssumption DEF Records, QueuesOK, CancelledOK
<1>10. Records'
  BY <1>2, <1>6, <1>7 DEF Records, Stages
<1>11. /\ elt'[w] = e /\ pc'[w] = "process" /\ runningOnKey'[w] = key[e]
       /\ \A v \in Workers : v # w => elt'[v] = elt[v] /\ pc'[v] = pc[v] /\ runningOnKey'[v] = runningOnKey[v]
  BY <1>2, <1>7 DEF Records
<1>12. WorkersOK'
  <2> SUFFICES ASSUME NEW v \in Workers
      PROVE  /\ pc'[v] = "wait" <=> elt'[v] = Null
             /\ elt'[v] # Null =>
                  /\ elt'[v] \in Allocated'
                  /\ stage'[elt'[v]] = IF pc'[v] = "process" THEN "picked" ELSE "processed"
                  /\ runningOnKey'[v] = key'[elt'[v]]
                  /\ v \in Flagged' <=> elt'[v] \in cancelled'
             /\ \A u \in Workers : elt'[u] = elt'[v] /\ elt'[v] # Null => u = v
    BY DEF WorkersOK
  <2>1. \A u \in Workers : elt[u] # Null => elt[u] # e
    BY <1>3, <1>6
  <2>2. CASE v = w
    BY <1>6, <1>7, <1>8, <1>9, <1>11, <2>1, <2>2
  <2>3. CASE v # w
    BY <1>2, <1>3, <1>7, <1>8, <1>9, <1>11, <2>1, <2>3 DEF WorkersOK
  <2> QED BY <2>2, <2>3
<1>13. CancelledOK'
  BY <1>2, <1>7, <1>9 DEF CancelledOK, Records
<1>14. QueuesOK(resp)'
  BY <1>1, <1>3, <1>6, <1>7, <1>8, <1>9 DEF QueuesOK
<1> QED BY <1>6, <1>8, <1>10, <1>12, <1>13, <1>14, Together

LEMMA ProcessKeeps ==
  ASSUME PInv, NEW w \in Workers, Process(w), UNCHANGED activated
  PROVE  PInv'
<1>1. PICK resp \in Lists : QueuesOK(resp)
  BY DEF PInv
<1>2. /\ Flags /\ QueueTypes /\ Records /\ WorkersOK /\ CancelledOK
  BY TypesOf DEF PInv
<1>3. /\ Elems(pending) \subseteq Elts /\ Elems(resp) \subseteq Elts
      /\ \A v \in Workers : elt[v] # Null => /\ elt[v] \in Elts /\ elt[v] \notin Elems(pending)
                                             /\ elt[v] \notin Elems(resp)
  BY <1>1, Apart
<1>4. PICK e : e = elt[w]
  OBVIOUS
<1>5. pc[w] = "process" /\ e # Null /\ e \in Elts /\ stage[e] = "picked"
  BY <1>2, <1>3, <1>4 DEF Process, WorkersOK
<1>6. /\ stage' = [stage EXCEPT ![e] = "processed"]
      /\ outF' = outF /\ inF' = inF /\ next' = next /\ key' = key /\ reponseFifo' = reponseFifo
      /\ malloced' = malloced /\ runningOnKey' = runningOnKey /\ abortFlag' = abortFlag
      /\ pending' = pending /\ cancelled' = cancelled
  BY <1>4 DEF Process, queueVars, eltVars
<1>7. \/ pc' = [pc EXCEPT ![w] = "answer"] /\ elt' = elt
      \/ pc' = [pc EXCEPT ![w] = "wait"] /\ elt' = [elt EXCEPT ![w] = Null]
  BY Zenon DEF Process
<1>8. Flags' /\ Flagged' = Flagged /\ Allocated' = Allocated /\ QueueTypes'
  <2>1. Flags' /\ Flagged' = Flagged /\ Allocated' = Allocated
    BY <1>2, <1>6, Zenon DEF Flags, Flagged, Allocated
  <2>2. QueueTypes'
    BY <1>2, <1>6 DEF QueueTypes
  <2> QED BY <2>1, <2>2
<1>9. stage'[e] = "processed" /\ \A x \in Elts : x # e => stage'[x] = stage[x]
  BY <1>2, <1>5, <1>6 DEF Records
<1>10. Records'
  BY <1>2, <1>6, <1>7 DEF Records, Stages
<1>11. /\ (pc'[w] = "answer" /\ elt'[w] = e) \/ (pc'[w] = "wait" /\ elt'[w] = Null)
       /\ \A v \in Workers : v # w => elt'[v] = elt[v] /\ pc'[v] = pc[v]
  BY <1>2, <1>4, <1>7 DEF Records
<1>12. WorkersOK'
  <2> SUFFICES ASSUME NEW v \in Workers
      PROVE  /\ pc'[v] = "wait" <=> elt'[v] = Null
             /\ elt'[v] # Null =>
                  /\ elt'[v] \in Allocated'
                  /\ stage'[elt'[v]] = IF pc'[v] = "process" THEN "picked" ELSE "processed"
                  /\ runningOnKey'[v] = key'[elt'[v]]
                  /\ v \in Flagged' <=> elt'[v] \in cancelled'
             /\ \A u \in Workers : elt'[u] = elt'[v] /\ elt'[v] # Null => u = v
    BY DEF WorkersOK
  <2>1. \A u \in Workers : elt[u] = e => u = w
    BY <1>2, <1>4, <1>5 DEF WorkersOK
  <2>2. CASE v = w
    BY <1>2, <1>4, <1>5, <1>6, <1>8, <1>9, <1>11, <2>1, <2>2 DEF WorkersOK
  <2>3. CASE v # w
    BY <1>2, <1>3, <1>4, <1>5, <1>6, <1>8, <1>9, <1>11, <2>1, <2>3 DEF WorkersOK
  <2> QED BY <2>2, <2>3
<1>13. CancelledOK'
  BY <1>2, <1>6, <1>9 DEF CancelledOK, Records
<1>14. QueuesOK(resp)'
  BY <1>1, <1>3, <1>4, <1>5, <1>6, <1>8, <1>9 DEF QueuesOK
<1> QED BY <1>8, <1>10, <1>12, <1>13, <1>14, Together

LEMMA AnswerKeeps ==
  ASSUME PInv, NEW w \in Workers, Answer(w), UNCHANGED activated
  PROVE  PInv'
<1>1. PICK resp \in Lists : QueuesOK(resp)
  BY DEF PInv
<1>2. /\ Flags /\ QueueTypes /\ Records /\ WorkersOK /\ CancelledOK
  BY TypesOf DEF PInv
<1>3. /\ Elems(pending) \cap Elems(resp) = {} /\ Elems(pending) \subseteq Elts /\ Elems(resp) \subseteq Elts
      /\ \A v \in Workers : elt[v] # Null => /\ elt[v] \in Elts /\ elt[v] \notin Elems(pending)
                                             /\ elt[v] \notin Elems(resp)
  BY <1>1, Apart
<1>4. PICK e : e = elt[w]
  OBVIOUS
<1>5. /\ pc[w] = "answer" /\ e # Null /\ e \in Elts /\ stage[e] = "processed"
      /\ e \notin Elems(pending) /\ e \notin Elems(resp) /\ e \in Allocated
      /\ w \in Flagged <=> e \in cancelled
      /\ \A v \in Workers : elt[v] = e => v = w
  BY <1>2, <1>3, <1>4 DEF Answer, WorkersOK
<1>6. /\ runningOnKey' = [runningOnKey EXCEPT ![w] = Null]
      /\ pc' = [pc EXCEPT ![w] = "wait"] /\ elt' = [elt EXCEPT ![w] = Null]
      /\ abortFlag' = abortFlag /\ pending' = pending /\ cancelled' = cancelled
      /\ key' = key /\ reponseFifo' = reponseFifo
  BY DEF Answer, delNotifiedFIFO_elts, eltVars
<1>7. /\ elt'[w] = Null /\ pc'[w] = "wait"
      /\ \A v \in Workers : v # w => elt'[v] = elt[v] /\ pc'[v] = pc[v] /\ runningOnKey'[v] = runningOnKey[v]
  BY <1>2, <1>6 DEF Records
<1>8. Flagged' = Flagged
  BY <1>6, Zenon DEF Flagged
<1>9. ASSUME NEW st \in {"dropped", "posted"}, stage' = [stage EXCEPT ![e] = st],
             Allocated \ {e} \subseteq Allocated', st = "posted" => e \notin cancelled
      PROVE  /\ Records' /\ WorkersOK' /\ CancelledOK'
             /\ stage'[e] = st /\ \A x \in Elts : x # e => stage'[x] = stage[x]
  <2>1. stage'[e] = st /\ \A x \in Elts : x # e => stage'[x] = stage[x]
    BY <1>2, <1>5, <1>9 DEF Records
  <2>2. Records'
    BY <1>2, <1>6, <1>9 DEF Records, Stages
  <2>3. WorkersOK'
    <3> SUFFICES ASSUME NEW v \in Workers
        PROVE  /\ pc'[v] = "wait" <=> elt'[v] = Null
               /\ elt'[v] # Null =>
                    /\ elt'[v] \in Allocated'
                    /\ stage'[elt'[v]] = IF pc'[v] = "process" THEN "picked" ELSE "processed"
                    /\ runningOnKey'[v] = key'[elt'[v]]
                    /\ v \in Flagged' <=> elt'[v] \in cancelled'
               /\ \A u \in Workers : elt'[u] = elt'[v] /\ elt'[v] # Null => u = v
      BY DEF WorkersOK
    <3>1. CASE v = w
      BY <1>7, <3>1
    <3>2. CASE v # w
      BY <1>2, <1>3, <1>5, <1>6, <1>7, <1>8, <1>9, <2>1, <3>2 DEF WorkersOK
    <3> QED BY <3>1, <3>2
  <2>4. CancelledOK'
    BY <1>2, <1>6, <1>9, <2>1 DEF CancelledOK, Records
  <2> QED BY <2>1, <2>2, <2>3, <2>4
<1>10. /\ IsFifo(outF["in"], inF["in"], next, pending)
       /\ IsFifo(outF["resp"], inF["resp"], next, resp)
       /\ "in" \in Fifos /\ "resp" \in Fifos /\ "in" # "resp"
  BY <1>1 DEF QueuesOK, Fifos
<1>11. CASE w \in Flagged
  <2>1. /\ delNotifiedFIFO_elts({e}) /\ stage' = [stage EXCEPT ![e] = "dropped"]
        /\ outF' = outF /\ inF' = inF /\ next' = next
    <3>1. abortFlag[w]
      BY <1>11, Zenon DEF Flagged
    <3> QED BY <1>4, <3>1 DEF Answer, queueVars
  <2>2. malloced' \in [Elts -> BOOLEAN] /\ Allocated' = Allocated \ {e}
    <3>1. malloced \in [Elts -> BOOLEAN]
      BY <1>2, Zenon DEF Flags
    <3> QED BY <2>1, <3>1, DelFrees
  <2>3. Flags'
    BY <1>2, <1>6, <2>2, Zenon DEF Flags
  <2>4. /\ Records' /\ WorkersOK' /\ CancelledOK'
        /\ stage'[e] = "dropped" /\ \A x \in Elts : x # e => stage'[x] = stage[x]
    BY <1>9, <2>1, <2>2
  <2>5. QueueTypes' /\ QueuesOK(resp)'
    BY <1>1, <1>2, <1>3, <1>5, <1>6, <2>1, <2>2, <2>4 DEF QueuesOK, QueueTypes
  <2> QED BY <2>3, <2>4, <2>5, Together
<1>12. CASE w \notin Flagged
  <2>1. pushNotifiedFIFO("resp", e) /\ stage' = [stage EXCEPT ![e] = "posted"] /\ malloced' = malloced
    <3>1. ~abortFlag[w]
      BY <1>12, Zenon DEF Flagged
    <3> QED BY <1>4, <3>1 DEF Answer, eltVars
  <2>2. Flags' /\ Allocated' = Allocated
    BY <1>2, <1>6, <2>1, Zenon DEF Flags, Allocated
  <2>3. PICK resp2 : resp2 = Append(resp, e)
    OBVIOUS
  <2>4. /\ QueueTypes' /\ IsFifo(outF'["resp"], inF'["resp"], next', resp2)
        /\ IsFifo(outF'["in"], inF'["in"], next', pending)
        /\ Elems(resp2) = Elems(resp) \cup {e}
    BY <1>2, <1>3, <1>5, <1>10, <2>1, <2>3, PushQueue
  <2>5. /\ Records' /\ WorkersOK' /\ CancelledOK'
        /\ stage'[e] = "posted" /\ \A x \in Elts : x # e => stage'[x] = stage[x]
    BY <1>5, <1>9, <1>12, <2>1, <2>2
  <2>6. QueuesOK(resp2)'
    BY <1>1, <1>3, <1>5, <1>6, <2>2, <2>4, <2>5 DEF QueuesOK
  <2> QED BY <2>2, <2>4, <2>5, <2>6, Together
<1> QED BY <1>11, <1>12

LEMMA AbortKeeps ==
  ASSUME PInv, NEW k \in Keys, ~AbortsTail, abortTpool(k), UNCHANGED activated
  PROVE  PInv'
<1>1. PICK resp \in Lists : QueuesOK(resp)
  BY DEF PInv
<1>2. /\ Flags /\ QueueTypes /\ Records /\ WorkersOK /\ CancelledOK
  BY TypesOf DEF PInv
<1>3. /\ Elems(pending) \cap Elems(resp) = {} /\ Elems(pending) \subseteq Elts /\ Elems(resp) \subseteq Elts
      /\ pending \in Lists
      /\ \A v \in Workers : elt[v] # Null => /\ elt[v] \in Elts /\ elt[v] \notin Elems(pending)
                                             /\ elt[v] \notin Elems(resp)
  BY <1>1, Apart
<1>4. /\ IsFifo(outF["in"], inF["in"], next, pending)
      /\ IsFifo(outF["resp"], inF["resp"], next, resp)
      /\ "in" \in Fifos /\ "resp" \in Fifos /\ "in" # "resp"
  BY <1>1 DEF QueuesOK, Fifos
<1>5. ListFrom(outF["in"], next) = pending
  BY <1>3, <1>4, ListIs DEF IsFifo
<1>6. PICK S, left, l, gone :
        /\ S = WithoutKey(k) /\ left = Among(S, pending) /\ l = inF["in"]
        /\ gone = {pending[i] : i \in {j \in DOMAIN pending : key[pending[j]] = k}}
  OBVIOUS
<1>7. /\ outF' = [outF EXCEPT !["in"] = FirstLeft(left)]
      /\ inF' = [inF EXCEPT !["in"] = LastLeft(left, l)]
      /\ next' = Unlinked(next, left)
      /\ delNotifiedFIFO_elts(gone)
      /\ stage' = [e \in Elts |-> IF e \in gone THEN "dropped" ELSE stage[e]]
  BY <1>5, <1>6 DEF abortTpool, abortNotifiedFIFO, FirstLeft, LastLeft, Unlinked
<1>8. /\ pending' = left /\ runningOnKey' = runningOnKey /\ elt' = elt /\ pc' = pc
      /\ key' = key /\ reponseFifo' = reponseFifo
      /\ cancelled' = cancelled \cup
                        {e \in Elts : key[e] = k /\ stage[e] \in {"pushed", "picked", "processed"}}
  BY <1>6 DEF abortTpool, abortNotifiedFIFO, delNotifiedFIFO_elts
<1>9. gone = Elems(pending) \ S
  BY <1>3, <1>6, ListTypes DEF WithoutKey, Elems
<1>10. left = << >> \/ pending[Len(pending)] \in S
  <2>1. KeepsTail(k)
    BY DEF abortTpool
  <2>2. left \in Lists /\ Elems(left) = Elems(pending) \cap S
    BY <1>3, <1>6, AmongOK
  <2>3. /\ Len(pending) \in Nat /\ DOMAIN pending = 1 .. Len(pending)
        /\ \A i \in DOMAIN pending : pending[i] \in Elts
    BY <1>3, ListTypes
  <2>4. CASE \A i \in DOMAIN pending : key[pending[i]] = k
    <3>1. Elems(pending) \cap S = {}
      BY <1>6, <2>4 DEF Elems, WithoutKey
    <3>2. Len(left) \in Nat /\ DOMAIN left = 1 .. Len(left) /\ (left = << >> <=> Len(left) = 0)
          /\ \A i \in DOMAIN left : left[i] \in Elems(left)
      BY <2>2, ListTypes
    <3>3. Len(left) # 0 => 1 \in DOMAIN left
      BY <3>2
    <3> QED BY <2>2, <3>1, <3>2, <3>3
  <2>5. CASE ~\A i \in DOMAIN pending : key[pending[i]] = k
    <3>1. Len(pending) \in DOMAIN pending
      BY <2>3, <2>5
    <3>2. key[pending[Len(pending)]] # k
      BY <2>1, <2>5, <3>1 DEF KeepsTail
    <3> QED BY <1>6, <2>3, <3>1, <3>2 DEF WithoutKey
  <2> QED BY <2>4, <2>5
<1>11. /\ IsFifo(FirstLeft(left), LastLeft(left, l), next', left)
       /\ Elems(left) = Elems(pending) \cap S
       /\ next' \in Links
       /\ \A e \in Elts : e \notin Elems(pending) => next'[e] = next[e]
  <2>1. next \in Links /\ IsFifo(outF["in"], l, next, pending)
    BY <1>2, <1>4, <1>6 DEF QueueTypes, Links
  <2>2. left = Among(S, pending)
    BY <1>6
  <2>3. PICK n : n = next'
    OBVIOUS
  <2>4. n = Unlinked(next, left)
    BY <1>7, <2>3
  <2>5. Remains(l, next, n, pending, S, left)
    BY <1>10, <2>1, <2>2, <2>4, UnlinkFifo
  <2> QED BY <2>3, <2>5 DEF Remains
<1>12. /\ IsFifo(outF'["in"], inF'["in"], next', left)
       /\ IsFifo(outF'["resp"], inF'["resp"], next', resp)
       /\ QueueTypes'
  <2>1. IsFifo(outF["resp"], inF["resp"], next', resp)
    BY <1>3, <1>4, <1>11, OtherFifo
  <2>2. FirstLeft(left) \in Elts \cup {Null} /\ LastLeft(left, l) \in Elts \cup {Null}
    <3>1. left \in Lists
      BY <1>11 DEF IsFifo
    <3>2. left # << >> => 1 \in DOMAIN left /\ left[1] \in Elts
      BY <3>1, ListTypes
    <3> QED BY <1>2, <1>4, <1>6, <3>2 DEF QueueTypes, FirstLeft, LastLeft
  <2> QED BY <1>2, <1>4, <1>7, <1>11, <2>1, <2>2 DEF QueueTypes, Links
<1>13. /\ \A e \in gone : stage'[e] = "dropped" /\ stage[e] = "pushed" /\ key[e] = k /\ e \in Elts
       /\ \A e \in Elts : e \notin gone => stage'[e] = stage[e]
  BY <1>1, <1>3, <1>6, <1>7, <1>9 DEF QueuesOK, WithoutKey
<1>14. Flags' /\ Allocated' = Allocated \ gone
  <2>1. malloced' \in [Elts -> BOOLEAN] /\ Allocated' = Allocated \ gone
    <3>1. malloced \in [Elts -> BOOLEAN]
      BY <1>2, Zenon DEF Flags
    <3> QED BY <1>7, <3>1, DelFrees
  <2>2. abortFlag' \in [Workers -> BOOLEAN]
    BY Zenon DEF abortTpool
  <2> QED BY <1>2, <1>8, <2>1, <2>2, Zenon DEF Flags
<1>15. \A w \in Workers : w \in Flagged' <=> w \in Flagged \/ runningOnKey[w] = k
  BY Zenon DEF abortTpool, Flagged
<1>16. Records'
  <2>1. stage' \in [Elts -> Stages]
    BY <1>2, <1>7 DEF Records, Stages
  <2> QED BY <1>2, <1>8, <2>1 DEF Records
<1>17. WorkersOK'
  <2> SUFFICES ASSUME NEW w \in Workers
      PROVE  /\ pc'[w] = "wait" <=> elt'[w] = Null
             /\ elt'[w] # Null =>
                  /\ elt'[w] \in Allocated'
                  /\ stage'[elt'[w]] = IF pc'[w] = "process" THEN "picked" ELSE "processed"
                  /\ runningOnKey'[w] = key'[elt'[w]]
                  /\ w \in Flagged' <=> elt'[w] \in cancelled'
             /\ \A v \in Workers : elt'[v] = elt'[w] /\ elt'[w] # Null => v = w
    BY DEF WorkersOK
  <2>1. ASSUME elt[w] # Null
        PROVE  /\ elt[w] \in Allocated' /\ stage'[elt[w]] = stage[elt[w]]
               /\ w \in Flagged' <=> elt[w] \in cancelled'
    <3>1. elt[w] \in Elts /\ elt[w] \notin gone
      BY <1>3, <1>9, <2>1
    <3>2. /\ elt[w] \in Allocated /\ stage[elt[w]] \in {"picked", "processed"}
          /\ runningOnKey[w] = key[elt[w]] /\ (w \in Flagged <=> elt[w] \in cancelled)
      BY <1>2, <2>1 DEF WorkersOK
    <3> QED BY <1>8, <1>13, <1>14, <1>15, <3>1, <3>2
  <2> QED BY <1>2, <1>8, <2>1 DEF WorkersOK
<1>18. CancelledOK'
  <2> SUFFICES ASSUME NEW e \in cancelled' PROVE stage'[e] \notin {"pushed", "posted"}
    BY DEF CancelledOK
  <2>1. e \in Elts
    BY <1>2, <1>8 DEF Records
  <2>2. CASE e \in gone
    BY <1>13, <2>2
  <2>3. CASE e \notin gone
    <3>1. stage'[e] = stage[e]
      BY <1>13, <2>1, <2>3
    <3>2. CASE e \in cancelled
      BY <1>2, <3>1, <3>2 DEF CancelledOK
    <3>3. CASE e \notin cancelled
      <4>1. key[e] = k /\ stage[e] \in {"pushed", "picked", "processed"}
        BY <1>8, <3>3
      <4>2. stage[e] # "pushed"
        BY <1>1, <1>6, <1>9, <2>1, <2>3, <4>1 DEF QueuesOK, WithoutKey
      <4> QED BY <3>1, <4>1, <4>2
    <3> QED BY <3>2, <3>3
  <2> QED BY <2>2, <2>3
<1>19. QueuesOK(resp)'
  <2>1. \A e \in Elts : stage'[e] = "pushed" <=> e \in Elems(left)
    BY <1>1, <1>3, <1>9, <1>11, <1>13 DEF QueuesOK
  <2>2. \A e \in Elems(resp) : stage'[e] = "posted"
    BY <1>1, <1>3, <1>9, <1>13 DEF QueuesOK
  <2>3. Elems(left) \cup Elems(resp) \subseteq Allocated'
    BY <1>1, <1>3, <1>9, <1>11, <1>14 DEF QueuesOK
  <2> QED BY <1>8, <1>12, <2>1, <2>2, <2>3 DEF QueuesOK
<1> QED BY <1>12, <1>14, <1>16, <1>17, <1>18, <1>19, Together

LEMMA NextKeeps == ASSUME ~AbortsTail PROVE PInv /\ [Next]_vars => PInv'
<1> SUFFICES ASSUME PInv, [Next]_vars PROVE PInv'
  OBVIOUS
<1>1. CASE Next
  <2>1. UNCHANGED activated
    BY <1>1 DEF Next
  <2>2. ASSUME NEW e \in Elts, NEW k \in Keys, NEW r \in BOOLEAN, pushTpool(e, k, r) PROVE PInv'
    BY <2>1, <2>2, PushKeeps
  <2>3. CASE pullTpool
    BY <2>1, <2>3, PullKeeps
  <2>4. ASSUME NEW k \in Keys, abortTpool(k) PROVE PInv'
    BY <2>1, <2>4, AbortKeeps
  <2>5. ASSUME NEW w \in Workers, PullRemember(w) PROVE PInv'
    BY <2>1, <2>5, RememberKeeps
  <2>6. ASSUME NEW w \in Workers, Process(w) PROVE PInv'
    BY <2>1, <2>6, ProcessKeeps
  <2>7. ASSUME NEW w \in Workers, Answer(w) PROVE PInv'
    BY <2>1, <2>7, AnswerKeeps
  <2> QED BY <1>1, <2>2, <2>3, <2>4, <2>5, <2>6, <2>7, Zenon DEF Next, ClientStep, WorkerStep
<1>2. CASE UNCHANGED vars
  <2>1. /\ activated' = activated /\ outF' = outF /\ inF' = inF /\ next' = next /\ key' = key
        /\ reponseFifo' = reponseFifo /\ malloced' = malloced /\ runningOnKey' = runningOnKey
        /\ abortFlag' = abortFlag /\ elt' = elt /\ pc' = pc /\ stage' = stage
        /\ pending' = pending /\ cancelled' = cancelled
    BY <1>2 DEF vars, queueVars, eltVars, workerVars, ghostVars
  <2>2. Allocated' = Allocated /\ Flagged' = Flagged
    BY <2>1, Zenon DEF Allocated, Flagged
  <2>3. WorkersOK' /\ CancelledOK' /\ \A resp : QueuesOK(resp) => QueuesOK(resp)'
    BY <2>1, <2>2 DEF PInv, WorkersOK, CancelledOK, QueuesOK
  <2>4. PoolTypeOK'
    BY <2>1, Zenon DEF PInv, PoolTypeOK
  <2> QED BY <2>3, <2>4 DEF PInv
<1> QED BY <1>1, <1>2

LEMMA PoolInvariant == ASSUME ~AbortsTail PROVE Spec => []PInv
<1>1. PInv /\ [Next]_vars => PInv'
  BY NextKeeps
<1> QED BY <1>1, PoolInitOK, PTL DEF Spec

-----------------------------------------------------------------------------
(***************************************************************************)
(* What the invariant says of the pool.                                    *)
(***************************************************************************)
LEMMA QueuesRight == PInv => QueueInvariant
<1> SUFFICES ASSUME PInv PROVE QueueInvariant
  OBVIOUS
<1>1. PICK resp \in Lists : QueuesOK(resp)
  BY DEF PInv
<1>2. /\ Elems(pending) \cap Elems(resp) = {} /\ pending \in Lists
      /\ \A w \in Workers : elt[w] # Null => /\ elt[w] \in Elts
                                             /\ elt[w] \notin Elems(pending)
                                             /\ elt[w] \notin Elems(resp)
  BY <1>1, Apart
<1>3. ListFrom(outF["in"], next) = pending /\ ListFrom(outF["resp"], next) = resp
  BY <1>1, <1>2, ListIs DEF QueuesOK, IsFifo
<1>4. QueueIsPending
  BY <1>1, <1>3 DEF QueuesOK, IsFifo, QueueIsPending
<1>5. \A e \in Allocated : malloced[e]
  BY Zenon DEF Allocated
<1>6. Elems(pending) \cup Elems(resp) \subseteq Allocated
  BY <1>1 DEF QueuesOK
<1>7. \A w \in Workers : elt[w] # Null =>
        elt[w] \in Allocated /\ \A v \in Workers : elt[v] = elt[w] => v = w
  BY DEF PInv, WorkersOK
<1>8. /\ Elems(ListFrom(outF["in"], next)) = Elems(pending)
      /\ Elems(ListFrom(outF["resp"], next)) = Elems(resp)
  BY <1>3
<1>9. EltsOwnedOnce
  <2> DEFINE queued(f) == ListFrom(outF[f], next)
             inQueue(f) == {queued(f)[i] : i \in DOMAIN queued(f)}
             held(w) == {elt[w]} \ {Null}
  <2>1. inQueue("in") = Elems(pending) /\ inQueue("resp") = Elems(resp)
    BY <1>8 DEF Elems
  <2>2. inQueue("in") \cap inQueue("resp") = {}
    BY <1>2, <2>1
  <2>3. \A e \in inQueue("in") \cup inQueue("resp") : e \in Allocated
    BY <1>6, <2>1
  <2>4. ASSUME NEW w \in Workers
        PROVE  /\ \A e \in held(w) : e \in Allocated /\ e \notin inQueue("in") \cup inQueue("resp")
               /\ \A v \in Workers \ {w} : held(v) \cap held(w) = {}
    BY <1>2, <1>7, <2>1
  <2> HIDE DEF inQueue, held
  <2>5. /\ inQueue("in") \cap inQueue("resp") = {}
        /\ \A e \in inQueue("in") \cup inQueue("resp") : malloced[e]
        /\ \A w \in Workers :
             /\ \A e \in held(w) : malloced[e] /\ e \notin inQueue("in") \cup inQueue("resp")
             /\ \A v \in Workers \ {w} : held(v) \cap held(w) = {}
    BY <1>5, <2>2, <2>3, <2>4, Zenon
  <2> QED BY <2>5, Zenon DEF EltsOwnedOnce, inQueue, held
<1> QED BY <1>4, <1>9 DEF QueueInvariant, PInv

LEMMA AbortRight == PInv => AbortExact
<1> SUFFICES ASSUME PInv PROVE AbortExact
  OBVIOUS
<1>1. NoAnswerAfterAbort
  BY DEF PInv, CancelledOK, NoAnswerAfterAbort
<1>2. \A w \in Workers : abortFlag[w] => w \in Flagged
  BY Zenon DEF Flagged
<1>3. \A w \in Workers : pc[w] = "answer" /\ w \in Flagged => elt[w] \in cancelled
  BY DEF PInv, WorkersOK
<1>4. DropsOnlyAborted
  BY <1>2, <1>3, Zenon DEF DropsOnlyAborted
<1> QED BY <1>1, <1>4 DEF AbortExact

(* Whatever the blocks, the keys and the threads, the FIFOs of the pool stay *)
(* proper lists: outF and next run through the jobs pushed and neither taken *)
(* up nor aborted, in their order, inF is the last of them, and no block is  *)
(* freed or queued twice while a FIFO or a worker holds it. The assumption   *)
(* is the one the code needs: abortTpool leaves inF behind when it unlinks   *)
(* the last job and an earlier one stays.                                    *)
THEOREM QueuesStayLists == ASSUME ~AbortsTail PROVE Spec => []QueueInvariant
<1>1. Spec => []PInv
  BY PoolInvariant
<1> QED BY <1>1, QueuesRight, PTL

(* abortTpool is exact: when it has returned no job of its key is answered,  *)
(* whether it was queued, running or waiting for the lock, and a worker      *)
(* drops no other job, although the flag is per thread and may be raised     *)
(* for a job the thread has left.                                            *)
THEOREM AbortsAreExact == ASSUME ~AbortsTail PROVE Spec => []AbortExact
<1>1. Spec => []PInv
  BY PoolInvariant
<1> QED BY <1>1, AbortRight, PTL

=============================================================================
