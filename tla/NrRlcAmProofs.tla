---------------------------- MODULE NrRlcAmProofs ----------------------------
(***************************************************************************)
(* Invariance proofs for NrRlcAm, for any modulus, window, SDU size,       *)
(* buffer sizes, grants and number of SDUs, and any loss, reordering,      *)
(* discard and re-establishment.                                           *)
(*                                                                         *)
(* Each half keeps an invariant of its own whatever the other sends:       *)
(* TxInv(t, H), where H are the SDUs held, for every well-formed status    *)
(* PDU, and RxInv(r) for every well-formed data PDU. RlcInv adds that what *)
(* is in flight is well formed.                                            *)
(*                                                                         *)
(* What the code computes with loops over lists is stated as a sum: the    *)
(* bytes to send, ref_count and the segments that cover a byte are sums of *)
(* weights over the four lists (Sum), which are kept when a segment moves  *)
(* from one list to another.                                               *)
(***************************************************************************)
EXTENDS NrRlcAm, TLAPS, FiniteSetTheorems, SequenceTheorems, WellFoundedInduction

(***************************************************************************)
(* Recursion over the places of a list.  Induction and the existence of a  *)
(* recursively defined function are stated with sets and functions for     *)
(* their parameters.                                                       *)
(***************************************************************************)

(* Induction over the places 0 .. n of a list. *)
LEMMA PlaceInduction ==
  ASSUME NEW n \in Nat, NEW G, 0 \in G, \A i \in 1 .. n : i - 1 \in G => i \in G
  PROVE  \A i \in 0 .. n : i \in G
<1> SUFFICES ASSUME NEW i0 \in 0 .. n, i0 \notin G PROVE FALSE
  OBVIOUS
<1> DEFINE Bad == {i \in Nat : i <= n /\ i \notin G}
<1>1. Bad \subseteq Nat /\ i0 \in Bad
  OBVIOUS
<1>2. PICK m \in Bad : \A k \in Bad : ~(<<k, m>> \in OpToRel(<, Nat))
  <2> HIDE DEF Bad
  <2> QED BY <1>1, NatLessThanWellFounded, WFMin
<1>3. m # 0 /\ m \in 1 .. n /\ m \notin G
  OBVIOUS
<1>4. m - 1 \in Nat /\ m - 1 <= n /\ m - 1 < m
  BY <1>3
<1>5. m - 1 \in G
  <2> SUFFICES ASSUME m - 1 \in Bad PROVE FALSE
    BY <1>4
  <2>1. <<m - 1, m>> \in OpToRel(<, Nat)
    BY <1>3, <1>4 DEF OpToRel
  <2> QED BY <1>2, <2>1
<1> QED BY <1>3, <1>5

\* Each place of f computes its value from the one before, by F.
Iterates(F, x0, n, f) == f[0] = x0 /\ \A i \in 1 .. n : f[i] = F[i][f[i - 1]]

(* A function that each place computes from the one before exists. *)
LEMMA RecursionExists ==
  ASSUME NEW X, NEW x0 \in X, NEW n \in Nat, NEW F \in [1 .. n -> [X -> X]]
  PROVE  \E f \in [0 .. n -> X] : Iterates(F, x0, n, f)
<1> DEFINE G == {m \in 0 .. n : \E f \in [0 .. m -> X] : Iterates(F, x0, m, f)}
<1>1. 0 \in G
  <2> DEFINE f0 == [i \in 0 .. 0 |-> x0]
  <2>1. f0 \in [0 .. 0 -> X] /\ f0[0] = x0 /\ 0 \in 0 .. n
    OBVIOUS
  <2> HIDE DEF f0
  <2>2. Iterates(F, x0, 0, f0)
    BY <2>1 DEF Iterates
  <2> QED BY <2>1, <2>2
<1>2. ASSUME NEW m \in 1 .. n, m - 1 \in G PROVE m \in G
  <2>1. PICK f \in [0 .. m - 1 -> X] : Iterates(F, x0, m - 1, f)
    BY <1>2
  <2>2. m \in Nat /\ m - 1 \in 0 .. m - 1 /\ 0 \in 0 .. m - 1 /\ 0 < m
    OBVIOUS
  <2>3. PICK y \in X : y = F[m][f[m - 1]]
    BY <2>1, <2>2
  <2> DEFINE g == [i \in 0 .. m |-> IF i < m THEN f[i] ELSE y]
  <2>4. \A i \in 0 .. m : i < m => i \in 0 .. m - 1
    OBVIOUS
  <2>5. g \in [0 .. m -> X]
    BY <2>1, <2>3, <2>4
  <2>6. g[0] = x0 /\ g[m] = y /\ \A i \in 0 .. m - 1 : g[i] = f[i]
    BY <2>1, <2>2 DEF Iterates
  <2> HIDE DEF g
  <2>7. ASSUME NEW i \in 1 .. m PROVE g[i] = F[i][g[i - 1]]
    <3>1. g[i - 1] = f[i - 1]
      BY <2>2, <2>6
    <3>2. CASE i < m
      <4>1. i \in 1 .. m - 1 /\ i \in 0 .. m - 1
        BY <2>2, <3>2
      <4> QED BY <2>1, <2>6, <3>1, <4>1 DEF Iterates
    <3>3. CASE i = m
      BY <2>3, <2>6, <3>1, <3>3
    <3> QED BY <3>2, <3>3
  <2>8. Iterates(F, x0, m, g)
    BY <2>6, <2>7 DEF Iterates
  <2> QED BY <2>5, <2>8
<1> HIDE DEF G
<1>3. \A i \in 0 .. n : i \in G
  BY <1>1, <1>2, PlaceInduction
<1>4. n \in G
  BY <1>3
<1> QED BY <1>4 DEF G

(* There is one such function only. *)
LEMMA RecursionUnique ==
  ASSUME NEW n \in Nat, NEW f, NEW g, g[0] = f[0],
         \A i \in 1 .. n : g[i - 1] = f[i - 1] => g[i] = f[i]
  PROVE  \A i \in 0 .. n : g[i] = f[i]
<1> DEFINE G == {m \in 0 .. n : g[m] = f[m]}
<1>1. 0 \in G
  OBVIOUS
<1>2. ASSUME NEW m \in 1 .. n, m - 1 \in G PROVE m \in G
  BY <1>2
<1> HIDE DEF G
<1>3. \A i \in 0 .. n : i \in G
  BY <1>1, <1>2, PlaceInduction
<1> QED BY <1>3 DEF G

(***************************************************************************)
(* The sum of a weight over a list.  Numbers of segments and numbers of     *)
(* bytes are both such sums, so that how a list operation changes them is  *)
(* shown once.                                                             *)
(***************************************************************************)
Sum(l, w) ==
  LET sum[n \in 0 .. Len(l)] == IF n = 0 THEN 0 ELSE sum[n - 1] + w[l[n]]
  IN  sum[Len(l)]

SumStep(l, w, f) == [n \in 0 .. Len(l) |-> IF n = 0 THEN 0 ELSE f[n - 1] + w[l[n]]]

\* f adds up the weights w of the list l.
Adds(l, w, f) == f[0] = 0 /\ \A i \in 1 .. Len(l) : f[i] = f[i - 1] + w[l[i]]

\* The facts about a sequence that the proofs need again and again.
LEMMA SeqFacts ==
  ASSUME NEW X, NEW l \in Seq(X)
  PROVE  /\ Len(l) \in Nat /\ DOMAIN l = 1 .. Len(l)
         /\ \A i \in 1 .. Len(l) : l[i] \in X
         /\ l = <<>> <=> Len(l) = 0
OBVIOUS

\* The recursive function behind a sum.
LEMMA SumUnfolds ==
  ASSUME NEW X, NEW l \in Seq(X), NEW w \in [X -> Int]
  PROVE  \E f \in [0 .. Len(l) -> Int] : Adds(l, w, f) /\ Sum(l, w) = f[Len(l)]
<1> DEFINE n == Len(l)
           F == [i \in 1 .. n |-> [x \in Int |-> x + w[l[i]]]]
<1>1. n \in Nat /\ \A i \in 1 .. n : l[i] \in X
  BY SeqFacts
<1>2. F \in [1 .. n -> [Int -> Int]]
  BY <1>1
<1>3. 0 \in Int
  OBVIOUS
<1>4. PICK f \in [0 .. n -> Int] : Iterates(F, 0, n, f)
  <2> HIDE DEF F, n
  <2> QED BY <1>1, <1>2, <1>3, RecursionExists
<1>5. f[0] = 0 /\ \A i \in 1 .. n : f[i] = f[i - 1] + w[l[i]]
  <2>1. f[0] = 0 /\ \A i \in 1 .. n : f[i] = F[i][f[i - 1]]
    <3> HIDE DEF F, n
    <3> QED BY <1>4 DEF Iterates
  <2>2. \A i \in 1 .. n : i - 1 \in 0 .. n
    BY <1>1
  <2> QED BY <1>1, <1>4, <2>1, <2>2
<1>6. f = SumStep(l, w, f)
  <2>1. \A i \in 0 .. n : f[i] = IF i = 0 THEN 0 ELSE f[i - 1] + w[l[i]]
    <3> HIDE DEF F
    <3> QED BY <1>1, <1>5
  <2>2. f = [i \in 0 .. n |-> f[i]]
    BY <1>4
  <2> QED BY <2>1, <2>2 DEF SumStep
<1>7. PICK g : g = CHOOSE h : h = SumStep(l, w, h)
  OBVIOUS
<1>8. g = SumStep(l, w, g)
  BY <1>6, <1>7
<1>9. Sum(l, w) = g[n]
  BY <1>7, Zenon DEF Sum, SumStep
<1>10. \A i \in 0 .. n : g[i] = IF i = 0 THEN 0 ELSE g[i - 1] + w[l[i]]
  <2> SUFFICES ASSUME NEW i \in 0 .. n PROVE g[i] = IF i = 0 THEN 0 ELSE g[i - 1] + w[l[i]]
    OBVIOUS
  <2>1. SumStep(l, w, g)[i] = IF i = 0 THEN 0 ELSE g[i - 1] + w[l[i]]
    BY DEF SumStep
  <2> QED BY <1>8, <2>1
<1> HIDE DEF F, n
<1>11. g[0] = f[0] /\ \A i \in 1 .. n : g[i - 1] = f[i - 1] => g[i] = f[i]
  BY <1>1, <1>5, <1>10
<1>12. \A i \in 0 .. n : g[i] = f[i]
  BY <1>1, <1>11, RecursionUnique
<1>13. Sum(l, w) = f[n]
  BY <1>1, <1>9, <1>12
<1> QED BY <1>4, <1>5, <1>13 DEF Adds, n

\* A sum of integers is an integer.
LEMMA SumType ==
  ASSUME NEW X, NEW l \in Seq(X), NEW w \in [X -> Int]
  PROVE  Sum(l, w) \in Int
<1>1. Len(l) \in Nat /\ Len(l) \in 0 .. Len(l)
  BY SeqFacts
<1> QED BY <1>1, SumUnfolds

\* Any function that adds up the weights gives the sum.
LEMMA SumIs ==
  ASSUME NEW X, NEW l \in Seq(X), NEW w \in [X -> Int],
         NEW f \in [0 .. Len(l) -> Int], Adds(l, w, f)
  PROVE  Sum(l, w) = f[Len(l)]
<1> DEFINE n == Len(l)
<1>1. n \in Nat /\ (\A i \in 1 .. n : l[i] \in X) /\ n \in 0 .. n
  BY SeqFacts
<1>2. PICK g \in [0 .. n -> Int] : Adds(l, w, g) /\ Sum(l, w) = g[n]
  BY SumUnfolds
<1>3. g[0] = f[0] /\ \A i \in 1 .. n : g[i - 1] = f[i - 1] => g[i] = f[i]
  BY <1>2 DEF Adds
<1> HIDE DEF n
<1>5. \A i \in 0 .. n : g[i] = f[i]
  BY <1>1, <1>3, RecursionUnique, ZenonT(60)
<1> QED BY <1>1, <1>2, <1>5 DEF n

\* The sum over no elements.
LEMMA SumEmpty ==
  ASSUME NEW X, NEW w \in [X -> Int]
  PROVE  Sum(<<>>, w) = 0
<1>1. <<>> \in Seq(X) /\ Len(<<>>) = 0
  OBVIOUS
<1>2. PICK f \in [0 .. Len(<<>>) -> Int] : Adds(<<>>, w, f) /\ Sum(<<>>, w) = f[Len(<<>>)]
  BY <1>1, SumUnfolds
<1> QED BY <1>1, <1>2 DEF Adds

\* The sum over a concatenation.
LEMMA SumConcat ==
  ASSUME NEW X, NEW l \in Seq(X), NEW m \in Seq(X), NEW w \in [X -> Int]
  PROVE  Sum(l \o m, w) = Sum(l, w) + Sum(m, w)
<1> DEFINE a == Len(l)
           b == Len(m)
<1>1. /\ a \in Nat /\ b \in Nat /\ a \in 0 .. a /\ b \in 0 .. b
      /\ (\A i \in 1 .. a : l[i] \in X) /\ (\A i \in 1 .. b : m[i] \in X)
  BY SeqFacts
<1>2. /\ l \o m \in Seq(X) /\ Len(l \o m) = a + b
      /\ \A i \in 1 .. a + b : (l \o m)[i] = IF i <= a THEN l[i] ELSE m[i - a]
  OBVIOUS
<1>3. PICK f \in [0 .. a -> Int] : Adds(l, w, f) /\ Sum(l, w) = f[a]
  BY SumUnfolds
<1>4. PICK g \in [0 .. b -> Int] : Adds(m, w, g) /\ Sum(m, w) = g[b]
  BY SumUnfolds
<1> DEFINE h == [i \in 0 .. a + b |-> IF i <= a THEN f[i] ELSE f[a] + g[i - a]]
<1>5. PICK lm : lm = l \o m
  OBVIOUS
<1>6. h \in [0 .. Len(lm) -> Int]
  <2>1. Len(lm) = a + b
    BY <1>2, <1>5
  <2>2. ASSUME NEW i \in 0 .. a + b PROVE h[i] \in Int
    <3>1. CASE i <= a
      <4>1. i \in 0 .. a /\ h[i] = f[i]
        BY <1>1, <3>1
      <4> HIDE DEF h
      <4> QED BY <1>3, <4>1
    <3>2. CASE ~(i <= a)
      <4>1. i - a \in 0 .. b /\ h[i] = f[a] + g[i - a]
        BY <1>1, <3>2
      <4>2. f[a] \in Int /\ g[i - a] \in Int
        BY <1>1, <1>3, <1>4, <4>1
      <4> HIDE DEF h
      <4> QED BY <4>1, <4>2
    <3> QED BY <3>1, <3>2
  <2> QED BY <2>1, <2>2
<1>7. f[0] = 0 /\ g[0] = 0
  BY <1>3, <1>4 DEF Adds
<1>8. /\ \A i \in 1 .. a : f[i] = f[i - 1] + w[l[i]]
      /\ \A i \in 1 .. b : g[i] = g[i - 1] + w[m[i]]
  BY <1>3, <1>4 DEF Adds
<1>9. h[0] = 0 /\ h[a + b] = f[a] + g[b]
  <2>1. 0 \in 0 .. a + b /\ 0 <= a /\ a + b \in 0 .. a + b /\ f[a] \in Int
    BY <1>1, <1>3, SMTT(40)
  <2>2. h[0] = 0
    BY <1>7, <2>1
  <2>3. CASE b = 0
    BY <1>1, <1>7, <2>1, <2>2, <2>3
  <2>4. CASE b # 0
    <3>1. ~(a + b <= a) /\ a + b - a = b
      BY <1>1, <2>4
    <3> QED BY <2>1, <2>2, <3>1
  <2> QED BY <2>2, <2>3, <2>4
<1>10. ASSUME NEW i \in 1 .. Len(lm) PROVE h[i] = h[i - 1] + w[lm[i]]
  <2>1. i \in 1 .. a + b /\ lm[i] = IF i <= a THEN l[i] ELSE m[i - a]
    BY <1>2, <1>5
  <2>2. CASE i <= a
    <3>1. i \in 1 .. a /\ h[i] = f[i] /\ h[i - 1] = f[i - 1]
      BY <1>1, <2>1, <2>2
    <3> QED BY <1>8, <2>1, <2>2, <3>1
  <2>3. CASE i = a + 1
    <3>1. 1 \in 1 .. b /\ i - a = 1 /\ ~(i <= a) /\ i - 1 = a
      BY <1>1, <2>1, <2>3
    <3>2. h[i] = f[a] + g[1] /\ h[i - 1] = f[a] /\ lm[i] = m[1]
      BY <1>1, <2>1, <3>1
    <3>3. g[1] = g[0] + w[m[1]]
      BY <1>8, <3>1
    <3>4. w[m[1]] \in Int /\ f[a] \in Int
      BY <1>1, <1>3, <3>1
    <3> HIDE DEF h
    <3> QED BY <1>7, <3>2, <3>3, <3>4
  <2>4. CASE i > a + 1
    <3>1. i - a \in 1 .. b /\ i - 1 - a = i - a - 1 /\ i - a - 1 \in 0 .. b
      BY <1>1, <2>1, <2>4
    <3>2. h[i] = f[a] + g[i - a] /\ h[i - 1] = f[a] + g[i - a - 1] /\ lm[i] = m[i - a]
      BY <1>1, <2>1, <2>4, <3>1
    <3>3. g[i - a] = g[i - a - 1] + w[m[i - a]]
      BY <1>8, <3>1
    <3>4. w[m[i - a]] \in Int /\ f[a] \in Int /\ g[i - a - 1] \in Int
      BY <1>1, <1>3, <1>4, <3>1
    <3> HIDE DEF h
    <3> QED BY <3>2, <3>3, <3>4
  <2> QED BY <1>1, <2>1, <2>2, <2>3, <2>4
<1> HIDE DEF h, a, b
<1>11. Adds(lm, w, h)
  BY <1>9, <1>10 DEF Adds
<1>12. lm \in Seq(X) /\ Len(lm) = a + b
  BY <1>2, <1>5
<1>13. Sum(lm, w) = h[a + b]
  BY <1>6, <1>11, <1>12, SumIs
<1> QED BY <1>3, <1>4, <1>5, <1>9, <1>13

\* The sum over one element.
LEMMA SumOne ==
  ASSUME NEW X, NEW x \in X, NEW w \in [X -> Int]
  PROVE  Sum(<<x>>, w) = w[x]
<1>1. PICK s : s = <<x>>
  OBVIOUS
<1>2. s \in Seq(X) /\ Len(s) = 1 /\ s[1] = x
  BY <1>1
<1>3. PICK f \in [0 .. Len(s) -> Int] : Adds(s, w, f) /\ Sum(s, w) = f[Len(s)]
  BY <1>2, SumUnfolds
<1>4. f[0] = 0 /\ f[1] = f[0] + w[x] /\ w[x] \in Int
  BY <1>2, <1>3 DEF Adds
<1> QED BY <1>1, <1>2, <1>3, <1>4

\* The sum after an element is appended.
LEMMA SumAppend ==
  ASSUME NEW X, NEW l \in Seq(X), NEW x \in X, NEW w \in [X -> Int]
  PROVE  Sum(Append(l, x), w) = Sum(l, w) + w[x]
<1>1. PICK s : s = <<x>>
  OBVIOUS
<1>2. s \in Seq(X) /\ Append(l, x) = l \o s
  BY <1>1
<1>3. Sum(l \o s, w) = Sum(l, w) + Sum(s, w)
  BY <1>2, SumConcat
<1> QED BY <1>1, <1>2, <1>3, SumOne

\* The sum as its first weight and the sum of the rest.
LEMMA SumHead ==
  ASSUME NEW X, NEW l \in Seq(X), l # <<>>, NEW w \in [X -> Int]
  PROVE  Sum(l, w) = w[Head(l)] + Sum(Tail(l), w)
<1>1. PICK s : s = <<Head(l)>>
  OBVIOUS
<1>2. s \in Seq(X) /\ Tail(l) \in Seq(X) /\ Head(l) \in X
  BY <1>1
<1>3. l = s \o Tail(l)
  BY <1>1, HeadTailProperties
<1>4. Sum(s \o Tail(l), w) = Sum(s, w) + Sum(Tail(l), w)
  BY <1>2, SumConcat
<1>5. Sum(s, w) = w[Head(l)]
  BY <1>1, <1>2, SumOne
<1> QED BY <1>3, <1>4, <1>5

(* Weights that agree on the elements of a list have the same sum over it. *)
LEMMA SumSame ==
  ASSUME NEW X, NEW l \in Seq(X), NEW v \in [X -> Int], NEW w \in [X -> Int],
         \A k \in 1 .. Len(l) : v[l[k]] = w[l[k]]
  PROVE  Sum(l, v) = Sum(l, w)
<1>1. PICK f \in [0 .. Len(l) -> Int] : Adds(l, v, f) /\ Sum(l, v) = f[Len(l)]
  BY SumUnfolds
<1>2. Adds(l, w, f)
  BY <1>1 DEF Adds
<1>3. Sum(l, w) = f[Len(l)]
  BY <1>2, SumIs
<1> QED BY <1>1, <1>3

(* A sum of weights that are not negative is at least each of them. *)
LEMMA SumBounds ==
  ASSUME NEW X, NEW l \in Seq(X), NEW w \in [X -> Int], \A x \in X : w[x] >= 0
  PROVE  Sum(l, w) \in Nat /\ \A k \in 1 .. Len(l) : w[l[k]] <= Sum(l, w)
<1> DEFINE n == Len(l)
<1>1. n \in Nat /\ (\A i \in 1 .. n : l[i] \in X) /\ n \in 0 .. n
  BY SeqFacts
<1>2. PICK f \in [0 .. n -> Int] : Adds(l, w, f) /\ Sum(l, w) = f[n]
  BY SumUnfolds
<1>3. f[0] = 0 /\ \A i \in 1 .. n : f[i] = f[i - 1] + w[l[i]]
  BY <1>2 DEF Adds
<1> DEFINE G == {m \in 0 .. n : f[m] >= 0 /\ \A k \in 1 .. m : w[l[k]] <= f[m]}
<1>4. 0 \in G
  BY <1>1, <1>3
<1>5. ASSUME NEW m \in 1 .. n, m - 1 \in G PROVE m \in G
  <2>1. f[m - 1] >= 0 /\ \A k \in 1 .. m - 1 : w[l[k]] <= f[m - 1]
    BY <1>5
  <2>2. f[m] = f[m - 1] + w[l[m]] /\ m - 1 \in 0 .. n /\ m \in 0 .. n
    BY <1>1, <1>3
  <2>3. f[m] \in Int /\ f[m - 1] \in Int /\ w[l[m]] \in Int /\ w[l[m]] >= 0
    BY <1>1, <1>2, <2>2
  <2>4. f[m] >= 0 /\ w[l[m]] <= f[m] /\ f[m - 1] <= f[m]
    BY <2>1, <2>2, <2>3
  <2>5. ASSUME NEW k \in 1 .. m PROVE w[l[k]] <= f[m]
    <3>1. CASE k = m
      BY <2>4, <3>1
    <3>2. CASE k # m
      <4>1. k \in 1 .. m - 1 /\ k \in 1 .. n /\ w[l[k]] \in Int
        BY <1>1, <3>2
      <4> QED BY <2>1, <2>3, <2>4, <4>1
    <3> QED BY <3>1, <3>2
  <2> QED BY <2>2, <2>4, <2>5
<1> HIDE DEF G
<1>6. \A i \in 0 .. n : i \in G
  BY <1>1, <1>4, <1>5, PlaceInduction
<1>7. n \in G
  BY <1>1, <1>6
<1>8. f[n] \in Int
  BY <1>1, <1>2
<1> QED BY <1>2, <1>7, <1>8 DEF G

(* A sum of zeros is zero. *)
LEMMA SumZero ==
  ASSUME NEW X, NEW l \in Seq(X), NEW w \in [X -> Int], \A k \in 1 .. Len(l) : w[l[k]] = 0
  PROVE  Sum(l, w) = 0
<1> DEFINE f == [i \in 0 .. Len(l) |-> 0]
<1>1. Len(l) \in Nat
  BY SeqFacts
<1>2. f \in [0 .. Len(l) -> Int] /\ f[Len(l)] = 0 /\ f[0] = 0
  BY <1>1
<1>3. Adds(l, w, f)
  <2>1. ASSUME NEW i \in 1 .. Len(l) PROVE f[i] = f[i - 1] + w[l[i]]
    <3>1. f[i] = 0 /\ f[i - 1] = 0
      BY <1>1
    <3> HIDE DEF f
    <3> QED BY <3>1
  <2> HIDE DEF f
  <2> QED BY <1>2, <2>1 DEF Adds
<1> HIDE DEF f
<1> QED BY <1>2, <1>3, SumIs
-----------------------------------------------------------------------------
(* Those: the elements of a list that are in a set. *)

ThoseStep(l, S, f) ==
  [n \in 0 .. Len(l) |->
     IF n = 0 THEN <<>> ELSE IF l[n] \in S THEN Append(f[n - 1], l[n]) ELSE f[n - 1]]

\* f takes them out of l, place by place.
Takes(l, S, f) ==
  /\ f[0] = <<>>
  /\ \A i \in 1 .. Len(l) : f[i] = IF l[i] \in S THEN Append(f[i - 1], l[i]) ELSE f[i - 1]

\* The recursive function behind Those.
LEMMA ThoseUnfolds ==
  ASSUME NEW X, NEW l \in Seq(X), NEW S
  PROVE  \E f \in [0 .. Len(l) -> Seq(X)] : Takes(l, S, f) /\ Those(l, S) = f[Len(l)]
<1> DEFINE n == Len(l)
           F == [i \in 1 .. n |-> [x \in Seq(X) |-> IF l[i] \in S THEN Append(x, l[i]) ELSE x]]
<1>1. n \in Nat /\ (\A i \in 1 .. n : l[i] \in X) /\ n \in 0 .. n
  BY SeqFacts
<1>2. F \in [1 .. n -> [Seq(X) -> Seq(X)]]
  BY <1>1
<1>3. <<>> \in Seq(X)
  OBVIOUS
<1>4. PICK f \in [0 .. n -> Seq(X)] : Iterates(F, <<>>, n, f)
  <2> HIDE DEF F, n
  <2> QED BY <1>1, <1>2, <1>3, RecursionExists
<1>5. f[0] = <<>> /\ \A i \in 1 .. n : f[i] = IF l[i] \in S THEN Append(f[i - 1], l[i]) ELSE f[i - 1]
  <2>1. f[0] = <<>> /\ \A i \in 1 .. n : f[i] = F[i][f[i - 1]]
    <3> HIDE DEF F, n
    <3> QED BY <1>4 DEF Iterates
  <2>2. \A i \in 1 .. n : i - 1 \in 0 .. n
    BY <1>1
  <2> QED BY <1>1, <1>4, <2>1, <2>2
<1>6. f = ThoseStep(l, S, f)
  <2>1. \A i \in 0 .. n :
          f[i] = IF i = 0 THEN <<>> ELSE IF l[i] \in S THEN Append(f[i - 1], l[i]) ELSE f[i - 1]
    <3> HIDE DEF F, n
    <3>1. \A i \in 0 .. n : i = 0 \/ (i # 0 /\ i \in 1 .. n)
      BY <1>1
    <3> QED BY <1>5, <3>1, Zenon
  <2>2. f = [i \in 0 .. n |-> f[i]]
    BY <1>4
  <2> QED BY <2>1, <2>2 DEF ThoseStep
<1>7. PICK g : g = CHOOSE h : h = ThoseStep(l, S, h)
  OBVIOUS
<1>8. g = ThoseStep(l, S, g)
  BY <1>6, <1>7
<1>9. Those(l, S) = g[n]
  BY <1>7, Zenon DEF Those, ThoseStep
<1>10. \A i \in 0 .. n :
         g[i] = IF i = 0 THEN <<>> ELSE IF l[i] \in S THEN Append(g[i - 1], l[i]) ELSE g[i - 1]
  <2> SUFFICES ASSUME NEW i \in 0 .. n
               PROVE  g[i] = IF i = 0 THEN <<>>
                             ELSE IF l[i] \in S THEN Append(g[i - 1], l[i]) ELSE g[i - 1]
    OBVIOUS
  <2>1. ThoseStep(l, S, g)[i] = IF i = 0 THEN <<>>
                                ELSE IF l[i] \in S THEN Append(g[i - 1], l[i]) ELSE g[i - 1]
    BY DEF ThoseStep
  <2> QED BY <1>8, <2>1
<1> HIDE DEF F, n
<1>11. g[0] = f[0] /\ \A i \in 1 .. n : g[i - 1] = f[i - 1] => g[i] = f[i]
  <2>1. 0 \in 0 .. n /\ \A i \in 1 .. n : i \in 0 .. n /\ i # 0
    BY <1>1
  <2>2. g[0] = <<>>
    BY <1>10, <2>1, Zenon
  <2>3. ASSUME NEW i \in 1 .. n
        PROVE  g[i] = IF l[i] \in S THEN Append(g[i - 1], l[i]) ELSE g[i - 1]
    BY <1>10, <2>1, Zenon
  <2> QED BY <1>5, <2>2, <2>3
<1>12. \A i \in 0 .. n : g[i] = f[i]
  BY <1>1, <1>11, RecursionUnique
<1>13. Those(l, S) = f[n]
  BY <1>1, <1>9, <1>12
<1> QED BY <1>4, <1>5, <1>13 DEF Takes, n

\* What is taken out of a list and what stays are lists of the same elements.
LEMMA ThoseType ==
  ASSUME NEW X, NEW l \in Seq(X), NEW S
  PROVE  Those(l, S) \in Seq(X) /\ Others(l, S) \in Seq(X)
<1>1. Len(l) \in Nat /\ Len(l) \in 0 .. Len(l)
  BY SeqFacts
<1>2. ASSUME NEW T PROVE Those(l, T) \in Seq(X)
  BY <1>1, ThoseUnfolds
<1> QED BY <1>2 DEF Others

\* The places p of l whose elements make up the list q.
Picks(l, S, q, p, n) ==
  /\ p \in [1 .. Len(q) -> 1 .. n]
  /\ \A j, k \in 1 .. Len(q) : j < k => p[j] < p[k]
  /\ \A k \in 1 .. Len(q) : q[k] = l[p[k]] /\ q[k] \in S
  /\ \A i \in 1 .. n : l[i] \in S => \E k \in 1 .. Len(q) : p[k] = i

(* The places a filter takes are in order, and are all those in the set. *)
LEMMA ThosePick ==
  ASSUME NEW X, NEW l \in Seq(X), NEW S
  PROVE  \E p : Picks(l, S, Those(l, S), p, Len(l))
<1> DEFINE n == Len(l)
<1>1. n \in Nat /\ (\A i \in 1 .. n : l[i] \in X) /\ n \in 0 .. n
  BY SeqFacts
<1>2. PICK f \in [0 .. n -> Seq(X)] : Takes(l, S, f) /\ Those(l, S) = f[n]
  BY ThoseUnfolds
<1> DEFINE G == {m \in 0 .. n : \E p : Picks(l, S, f[m], p, m)}
<1>3. 0 \in G
  <2> DEFINE p0 == [i \in 1 .. 0 |-> 0]
  <2>1. f[0] = <<>> /\ Len(f[0]) = 0
    BY <1>2 DEF Takes
  <2>2. Picks(l, S, f[0], p0, 0)
    BY <2>1 DEF Picks
  <2> HIDE DEF p0
  <2> QED BY <1>1, <2>2
<1>4. ASSUME NEW m \in 1 .. n, m - 1 \in G PROVE m \in G
  <2>1. PICK p : Picks(l, S, f[m - 1], p, m - 1)
    BY <1>4
  <2>2. PICK q \in Seq(X) : q = f[m - 1]
    BY <1>1, <1>2
  <2>3. PICK c \in Nat : c = Len(q)
    BY <2>2
  <2>4. f[m] = IF l[m] \in S THEN Append(q, l[m]) ELSE q
    BY <1>2, <2>2 DEF Takes
  <2>5. m \in Nat /\ m \in 0 .. n /\ m # 0 /\ l[m] \in X
    BY <1>1
  <2>6. /\ p \in [1 .. c -> 1 .. m - 1]
        /\ \A j, k \in 1 .. c : j < k => p[j] < p[k]
        /\ \A k \in 1 .. c : q[k] = l[p[k]] /\ q[k] \in S
        /\ \A i \in 1 .. m - 1 : l[i] \in S => \E k \in 1 .. c : p[k] = i
    BY <2>1, <2>2, <2>3 DEF Picks
  <2>7. CASE l[m] \notin S
    <3>1. f[m] = q
      BY <2>4, <2>7
    <3>2. p \in [1 .. c -> 1 .. m]
      BY <2>5, <2>6
    <3>3. ASSUME NEW i \in 1 .. m, l[i] \in S PROVE \E k \in 1 .. c : p[k] = i
      <4>1. i # m
        BY <2>7, <3>3
      <4>2. i \in 1 .. m - 1
        BY <2>5, <4>1
      <4> QED BY <2>6, <3>3, <4>2
    <3>4. Picks(l, S, q, p, m)
      BY <2>3, <2>6, <3>2, <3>3 DEF Picks
    <3> QED BY <2>5, <3>1, <3>4
  <2>8. CASE l[m] \in S
    <3>1. PICK q2 \in Seq(X) : q2 = Append(q, l[m])
      BY <2>5, SMTT(40)
    <3>2. Len(q2) = c + 1 /\ q2[c + 1] = l[m] /\ \A k \in 1 .. c : q2[k] = q[k]
      BY <2>3, <3>1
    <3> DEFINE p2 == [k \in 1 .. c + 1 |-> IF k = c + 1 THEN m ELSE p[k]]
    <3>3. p2[c + 1] = m /\ \A k \in 1 .. c : p2[k] = p[k] /\ p2[k] \in 1 .. m - 1
      BY <2>6
    <3>4. p2 \in [1 .. c + 1 -> 1 .. m]
      BY <2>5, <2>6
    <3> HIDE DEF p2
    <3>5. ASSUME NEW j \in 1 .. c + 1, NEW k \in 1 .. c + 1, j < k PROVE p2[j] < p2[k]
      <4>1. j \in 1 .. c
        BY <3>5
      <4>2. CASE k = c + 1
        BY <2>5, <3>3, <4>1, <4>2
      <4>3. CASE k # c + 1
        <5>1. k \in 1 .. c
          BY <4>3
        <5> QED BY <2>6, <3>3, <3>5, <4>1, <5>1
      <4> QED BY <4>2, <4>3
    <3>6. ASSUME NEW k \in 1 .. c + 1 PROVE q2[k] = l[p2[k]] /\ q2[k] \in S
      <4>1. CASE k = c + 1
        BY <2>8, <3>2, <3>3, <4>1
      <4>2. CASE k # c + 1
        <5>1. k \in 1 .. c
          BY <4>2
        <5> QED BY <2>6, <3>2, <3>3, <5>1
      <4> QED BY <4>1, <4>2
    <3>7. ASSUME NEW i \in 1 .. m, l[i] \in S PROVE \E k \in 1 .. c + 1 : p2[k] = i
      <4>1. CASE i = m
        BY <3>3, <4>1
      <4>2. CASE i # m
        <5>1. i \in 1 .. m - 1
          BY <2>5, <4>2
        <5>2. PICK k \in 1 .. c : p[k] = i
          BY <2>6, <3>7, <5>1
        <5>3. k \in 1 .. c + 1
          OBVIOUS
        <5> QED BY <3>3, <5>2, <5>3
      <4> QED BY <4>1, <4>2
    <3>8. Picks(l, S, q2, p2, m)
      BY <3>2, <3>4, <3>5, <3>6, <3>7 DEF Picks
    <3>9. f[m] = q2
      BY <2>4, <2>8, <3>1
    <3> QED BY <2>5, <3>8, <3>9
  <2> QED BY <2>7, <2>8
<1> HIDE DEF G
<1>5. \A i \in 0 .. n : i \in G
  BY <1>1, <1>3, <1>4, PlaceInduction
<1>6. n \in G
  BY <1>1, <1>5
<1> QED BY <1>2, <1>6 DEF G

(* What is taken out and what is left have together the weight of the list. *)
LEMMA SumSplits ==
  ASSUME NEW X, NEW l \in Seq(X), NEW S, NEW w \in [X -> Int]
  PROVE  Sum(Those(l, S), w) + Sum(Others(l, S), w) = Sum(l, w)
<1> DEFINE n == Len(l)
           T == ToSet(l) \ S
<1>1. n \in Nat /\ (\A i \in 1 .. n : l[i] \in X) /\ n \in 0 .. n /\ DOMAIN l = 1 .. n
  BY SeqFacts
<1>2. PICK f \in [0 .. n -> Seq(X)] : Takes(l, S, f) /\ Those(l, S) = f[n]
  BY ThoseUnfolds
<1>3. PICK g \in [0 .. n -> Seq(X)] : Takes(l, T, g) /\ Others(l, S) = g[n]
  <2> HIDE DEF T
  <2>1. \E g \in [0 .. n -> Seq(X)] : Takes(l, T, g) /\ Those(l, T) = g[n]
    BY ThoseUnfolds
  <2> QED BY <2>1 DEF Others, T
<1>4. PICK h \in [0 .. n -> Int] : Adds(l, w, h) /\ Sum(l, w) = h[n]
  BY SumUnfolds
<1>5. \A i \in 1 .. n : l[i] \in T <=> l[i] \notin S
  BY <1>1 DEF ToSet
<1> HIDE DEF T
<1> DEFINE G == {m \in 0 .. n : Sum(f[m], w) + Sum(g[m], w) = h[m]}
<1>6. 0 \in G
  <2>1. f[0] = <<>> /\ g[0] = <<>> /\ h[0] = 0
    BY <1>2, <1>3, <1>4 DEF Takes, Adds
  <2>2. Sum(<<>>, w) = 0
    BY SumEmpty
  <2> QED BY <1>1, <2>1, <2>2
<1>7. ASSUME NEW m \in 1 .. n, m - 1 \in G PROVE m \in G
  <2>1. m - 1 \in 0 .. n /\ m \in 0 .. n /\ l[m] \in X
    BY <1>1
  <2>2. PICK q \in Seq(X), r \in Seq(X) : q = f[m - 1] /\ r = g[m - 1]
    BY <1>2, <1>3, <2>1
  <2>3. h[m] = h[m - 1] + w[l[m]] /\ h[m - 1] = Sum(q, w) + Sum(r, w)
    BY <1>4, <1>7, <2>2 DEF Adds
  <2>4. Sum(q, w) \in Int /\ Sum(r, w) \in Int /\ w[l[m]] \in Int
    BY <2>1, SumType
  <2>5. CASE l[m] \in S
    <3>1. f[m] = Append(q, l[m]) /\ g[m] = r
      BY <1>2, <1>3, <1>5, <2>2, <2>5 DEF Takes
    <3>2. Sum(f[m], w) = Sum(q, w) + w[l[m]]
      BY <2>1, <3>1, SumAppend
    <3>3. Sum(f[m], w) + Sum(g[m], w) = h[m]
      BY <2>3, <2>4, <3>1, <3>2
    <3> QED BY <2>1, <3>3
  <2>6. CASE l[m] \notin S
    <3>1. f[m] = q /\ g[m] = Append(r, l[m])
      BY <1>2, <1>3, <1>5, <2>2, <2>6 DEF Takes
    <3>2. Sum(g[m], w) = Sum(r, w) + w[l[m]]
      BY <2>1, <3>1, SumAppend
    <3>3. Sum(f[m], w) + Sum(g[m], w) = h[m]
      BY <2>3, <2>4, <3>1, <3>2
    <3> QED BY <2>1, <3>3
  <2> QED BY <2>5, <2>6
<1> HIDE DEF G
<1>8. \A i \in 0 .. n : i \in G
  BY <1>1, <1>6, <1>7, PlaceInduction
<1>9. n \in G
  BY <1>1, <1>8
<1>10. Sum(f[n], w) + Sum(g[n], w) = h[n]
  BY <1>9 DEF G
<1> QED BY <1>2, <1>3, <1>4, <1>10

\* q has exactly the elements of l that are in S.
Filters(l, S, q) ==
  /\ \A k \in 1 .. Len(q) : q[k] \in S /\ \E i \in 1 .. Len(l) : q[k] = l[i]
  /\ \A i \in 1 .. Len(l) : l[i] \in S => \E k \in 1 .. Len(q) : q[k] = l[i]

\* Those(l, S) has the elements of l that are in S, and no other.
LEMMA ThoseFilters ==
  ASSUME NEW X, NEW l \in Seq(X), NEW S
  PROVE  Filters(l, S, Those(l, S))
<1>1. PICK p : Picks(l, S, Those(l, S), p, Len(l))
  BY ThosePick
<1> QED BY <1>1, SMTT(40) DEF Picks, Filters

\* Others(l, S) has the elements of l that are not in S, and no other.
LEMMA OthersFilter ==
  ASSUME NEW X, NEW l \in Seq(X), NEW S
  PROVE  Filters(l, ToSet(l) \ S, Others(l, S))
<1>1. PICK T : T = ToSet(l) \ S
  OBVIOUS
<1>2. Filters(l, T, Those(l, T))
  BY ThoseFilters
<1> QED BY <1>1, <1>2 DEF Others

(* Every element taken is one of the list that is in the set, every one left *)
(* is one that is not.                                                       *)
LEMMA ThoseElements ==
  ASSUME NEW X, NEW l \in Seq(X), NEW S
  PROVE  /\ \A k \in 1 .. Len(Those(l, S)) :
              Those(l, S)[k] \in S /\ \E i \in 1 .. Len(l) : Those(l, S)[k] = l[i]
         /\ \A k \in 1 .. Len(Others(l, S)) :
              Others(l, S)[k] \notin S /\ \E i \in 1 .. Len(l) : Others(l, S)[k] = l[i]
         /\ \A i \in 1 .. Len(l) :
              /\ l[i] \in S => \E k \in 1 .. Len(Those(l, S)) : Those(l, S)[k] = l[i]
              /\ l[i] \notin S => \E k \in 1 .. Len(Others(l, S)) : Others(l, S)[k] = l[i]
<1>1. Filters(l, S, Those(l, S)) /\ Filters(l, ToSet(l) \ S, Others(l, S))
  BY ThoseFilters, OthersFilter
<1>2. \A i \in 1 .. Len(l) : l[i] \in ToSet(l)
  BY SeqFacts DEF ToSet
<1> QED BY <1>1, <1>2 DEF Filters

-----------------------------------------------------------------------------
(* Counting: the number of places of a list whose element is in a set. *)

Ind(X, P) == [x \in X |-> IF x \in P THEN 1 ELSE 0]

Places(l, P) == {k \in DOMAIN l : l[k] \in P}

\* The weight that counts the elements of a set.
LEMMA IndType ==
  ASSUME NEW X, NEW P
  PROVE  /\ Ind(X, P) \in [X -> Int] /\ \A x \in X : Ind(X, P)[x] >= 0
         /\ \A x \in X : Ind(X, P)[x] = IF x \in P THEN 1 ELSE 0
BY DEF Ind

\* The number of places with an element of P is a sum.
LEMMA CountIsSum ==
  ASSUME NEW X, NEW l \in Seq(X), NEW P
  PROVE  IsFiniteSet(Places(l, P)) /\ Cardinality(Places(l, P)) = Sum(l, Ind(X, P))
<1> DEFINE n == Len(l)
           Upto(m) == {k \in 1 .. m : l[k] \in P}
<1>1. n \in Nat /\ (\A i \in 1 .. n : l[i] \in X) /\ n \in 0 .. n /\ DOMAIN l = 1 .. n
  BY SeqFacts
<1>2. PICK w \in [X -> Int] : w = Ind(X, P)
  BY IndType
<1>3. \A x \in X : w[x] = IF x \in P THEN 1 ELSE 0
  BY <1>2, IndType
<1>4. PICK f \in [0 .. n -> Int] : Adds(l, w, f) /\ Sum(l, w) = f[n]
  BY SumUnfolds
<1> DEFINE G == {m \in 0 .. n : IsFiniteSet(Upto(m)) /\ Cardinality(Upto(m)) = f[m]}
<1>5. 0 \in G
  <2>1. Upto(0) = {} /\ f[0] = 0
    BY <1>4 DEF Adds
  <2> HIDE DEF Upto
  <2> QED BY <1>1, <2>1, FS_EmptySet
<1>6. ASSUME NEW m \in 1 .. n, m - 1 \in G PROVE m \in G
  <2>1. IsFiniteSet(Upto(m - 1)) /\ Cardinality(Upto(m - 1)) = f[m - 1]
    BY <1>6
  <2>2. f[m] = f[m - 1] + w[l[m]] /\ m \in 0 .. n /\ l[m] \in X
    BY <1>1, <1>4 DEF Adds
  <2>3. m \in Nat /\ m \notin Upto(m - 1) /\ f[m - 1] \in Int
    BY <1>1, <1>4, SMTT(40)
  <2>4. CASE l[m] \in P
    <3>1. Upto(m) = Upto(m - 1) \cup {m}
      BY <2>3, <2>4
    <3>2. w[l[m]] = 1
      BY <1>3, <2>2, <2>4
    <3> HIDE DEF Upto
    <3>3. IsFiniteSet(Upto(m)) /\ Cardinality(Upto(m)) = Cardinality(Upto(m - 1)) + 1
      <4>1. PICK u : u = Upto(m - 1)
        OBVIOUS
      <4>2. IsFiniteSet(u) /\ m \notin u /\ Upto(m) = u \cup {m}
        BY <2>1, <2>3, <3>1, <4>1
      <4>3. IsFiniteSet(u \cup {m}) /\ Cardinality(u \cup {m}) = Cardinality(u) + 1
        BY <4>2, FS_AddElement
      <4> QED BY <4>1, <4>2, <4>3
    <3> QED BY <2>1, <2>2, <2>3, <3>2, <3>3
  <2>5. CASE l[m] \notin P
    <3>1. Upto(m) = Upto(m - 1)
      BY <2>3, <2>5
    <3>2. w[l[m]] = 0
      BY <1>3, <2>2, <2>5
    <3> HIDE DEF Upto
    <3> QED BY <2>1, <2>2, <2>3, <3>1, <3>2
  <2> QED BY <2>4, <2>5
<1> HIDE DEF G
<1>7. \A i \in 0 .. n : i \in G
  BY <1>1, <1>5, <1>6, PlaceInduction
<1>8. n \in G
  BY <1>1, <1>7
<1>9. Places(l, P) = Upto(n)
  BY <1>1 DEF Places
<1> QED BY <1>2, <1>4, <1>8, <1>9 DEF G

(* A count is zero exactly if no element is in the set. *)
LEMMA CountZero ==
  ASSUME NEW X, NEW l \in Seq(X), NEW P
  PROVE  /\ Sum(l, Ind(X, P)) \in Nat
         /\ Sum(l, Ind(X, P)) = 0 <=> \A k \in 1 .. Len(l) : l[k] \notin P
<1>1. PICK w \in [X -> Int] : w = Ind(X, P)
  BY IndType
<1>2. (\A x \in X : w[x] >= 0) /\ \A x \in X : w[x] = IF x \in P THEN 1 ELSE 0
  BY <1>1, IndType
<1>3. Sum(l, w) \in Nat /\ \A k \in 1 .. Len(l) : w[l[k]] <= Sum(l, w)
  BY <1>2, SumBounds
<1>4. \A k \in 1 .. Len(l) : l[k] \in X
  BY SeqFacts
<1>5. ASSUME Sum(l, w) = 0, NEW k \in 1 .. Len(l) PROVE l[k] \notin P
  BY <1>2, <1>3, <1>4, <1>5
<1>6. ASSUME \A k \in 1 .. Len(l) : l[k] \notin P PROVE Sum(l, w) = 0
  <2>1. \A k \in 1 .. Len(l) : w[l[k]] = 0
    BY <1>2, <1>4, <1>6
  <2> QED BY <2>1, SumZero
<1> QED BY <1>1, <1>3, <1>5, <1>6

(* If it is one, there is one place. *)
LEMMA CountOne ==
  ASSUME NEW X, NEW l \in Seq(X), NEW P
  PROVE  Sum(l, Ind(X, P)) = 1 <=> \E k \in Places(l, P) : Places(l, P) = {k}
<1>1. IsFiniteSet(Places(l, P)) /\ Cardinality(Places(l, P)) = Sum(l, Ind(X, P))
  BY CountIsSum
<1>2. ASSUME Sum(l, Ind(X, P)) = 1 PROVE \E k \in Places(l, P) : Places(l, P) = {k}
  <2>1. \E x : Places(l, P) = {x}
    BY <1>1, <1>2, FS_Singleton
  <2> QED BY <2>1
<1>3. ASSUME NEW k \in Places(l, P), Places(l, P) = {k} PROVE Sum(l, Ind(X, P)) = 1
  BY <1>1, <1>3, FS_Singleton
<1> QED BY <1>2, <1>3
-----------------------------------------------------------------------------
(* The least and the largest of a set of numbers. *)

\* Min of a set of naturals.
LEMMA MinIs ==
  ASSUME NEW I, I \subseteq Nat, I # {}
  PROVE  Min(I) \in I /\ \A i \in I : Min(I) <= i
<1>1. PICK m \in I : \A k \in I : ~(<<k, m>> \in OpToRel(<, Nat))
  BY NatLessThanWellFounded, WFMin
<1>2. \A k \in I : m <= k
  <2> SUFFICES ASSUME NEW k \in I PROVE m <= k
    OBVIOUS
  <2>1. ~(k < m)
    BY <1>1 DEF OpToRel
  <2>2. k \in Nat /\ m \in Nat
    OBVIOUS
  <2> QED BY <2>1, <2>2
<1>3. \E x \in I : \A y \in I : x =< y
  BY <1>2
<1> QED BY <1>3 DEF Min

\* Max of a bounded set of naturals.
LEMMA MaxIs ==
  ASSUME NEW I, I # {}, NEW n \in Nat, I \subseteq 0 .. n
  PROVE  Max(I) \in I /\ \A i \in I : i <= Max(I)
<1> DEFINE J == {j \in Nat : j <= n /\ n - j \in I}
<1>1. J \subseteq Nat /\ J # {}
  <2>1. PICK i \in I : TRUE
    OBVIOUS
  <2>2. n - i \in J
    BY <2>1
  <2> QED BY <2>2
<1> HIDE DEF J
<1>2. PICK j \in J : \A k \in J : j <= k
  BY <1>1, MinIs
<1>3. j \in Nat /\ j <= n /\ n - j \in I
  BY <1>2 DEF J
<1>4. ASSUME NEW i \in I PROVE n - j >= i
  <2>1. i \in 0 .. n /\ n - i \in Nat /\ n - (n - i) = i
    OBVIOUS
  <2>2. n - i \in J
    BY <2>1 DEF J
  <2> QED BY <1>2, <1>3, <2>1, <2>2
<1>5. \E x \in I : \A y \in I : x >= y
  BY <1>3, <1>4
<1>6. Max(I) \in I /\ \A y \in I : Max(I) >= y
  BY <1>5 DEF Max
<1> QED BY <1>6

(***************************************************************************)
(* The transmitter.                                                        *)
(***************************************************************************)

\* What the assumptions on the constants say.
LEMMA Constants ==
  /\ SnModulus \in Nat /\ SnModulus >= 2 /\ WindowSize \in Nat /\ WindowSize >= 1
  /\ SnModulus = 2 * WindowSize /\ WindowSize < SnModulus
  /\ Sdus \in Nat /\ SduSize \in Nat /\ SduSize >= 1 /\ TxMaxSize \in Nat
  /\ SduIds = 1 .. Sdus /\ Sns = 0 .. SnModulus - 1
BY SnAssumption, RlcTxAssumption DEF WindowSize, SduIds, Sns

\* The segments that resegment can make of an SDU.
Segs == {s \in Segments : /\ s.size >= 1 /\ s.so + s.size <= SduSize
                          /\ s.first <=> s.so = 0
                          /\ s.last <=> s.so + s.size = SduSize}

PduW == [s \in Segs |-> PduSize(s)]

\* The fields of a segment.
LEMMA SegTypes ==
  ASSUME NEW s \in Segs
  PROVE  /\ s \in Segments /\ s.sdu \in SduIds /\ s.so \in Nat /\ s.size \in Nat
         /\ s.size >= 1 /\ s.so + s.size <= SduSize
         /\ s.first <=> s.so = 0
         /\ s.last <=> s.so + s.size = SduSize
BY DEF Segs, Segments

\* The weight that adds up the sizes of PDUs.
LEMMA PduWType == PduW \in [Segs -> Int] /\ \A s \in Segs : PduW[s] = PduSize(s) /\ PduW[s] >= 3
<1>1. \A s \in Segs : PduSize(s) \in Int /\ PduSize(s) >= 3
  BY SegTypes DEF PduSize, compute_pdu_header_size
<1> QED BY <1>1 DEF PduW

BytesStep(l, f) == [n \in 0 .. Len(l) |-> IF n = 0 THEN 0 ELSE f[n - 1] + PduSize(l[n])]

(* Bytes is the sum of the sizes of the PDUs. *)
LEMMA BytesIsSum ==
  ASSUME NEW l \in Seq(Segs)
  PROVE  Bytes(l) = Sum(l, PduW)
<1>1. Len(l) \in Nat /\ \A i \in 1 .. Len(l) : l[i] \in Segs
  BY SeqFacts
<1>2. \A i \in 1 .. Len(l) : PduW[l[i]] = PduSize(l[i])
  BY <1>1, PduWType
<1>3. PICK f \in [0 .. Len(l) -> Int] : Adds(l, PduW, f) /\ Sum(l, PduW) = f[Len(l)]
  BY PduWType, SumUnfolds
<1>4. f[0] = 0 /\ \A i \in 1 .. Len(l) : f[i] = f[i - 1] + PduSize(l[i])
  BY <1>2, <1>3 DEF Adds
<1>5. f = BytesStep(l, f)
  <2>1. \A i \in 0 .. Len(l) : f[i] = IF i = 0 THEN 0 ELSE f[i - 1] + PduSize(l[i])
    BY <1>1, <1>4
  <2>2. f = [i \in 0 .. Len(l) |-> f[i]]
    BY <1>3
  <2> QED BY <2>1, <2>2 DEF BytesStep
<1>6. PICK g : g = CHOOSE h : h = BytesStep(l, h)
  OBVIOUS
<1>7. g = BytesStep(l, g)
  BY <1>5, <1>6
<1>8. Bytes(l) = g[Len(l)]
  BY <1>6, Zenon DEF Bytes, BytesStep
<1>9. \A i \in 0 .. Len(l) : g[i] = IF i = 0 THEN 0 ELSE g[i - 1] + PduSize(l[i])
  <2> SUFFICES ASSUME NEW i \in 0 .. Len(l)
               PROVE  g[i] = IF i = 0 THEN 0 ELSE g[i - 1] + PduSize(l[i])
    OBVIOUS
  <2>1. BytesStep(l, g)[i] = IF i = 0 THEN 0 ELSE g[i - 1] + PduSize(l[i])
    BY DEF BytesStep
  <2> QED BY <1>7, <2>1
<1>10. g[0] = f[0] /\ \A i \in 1 .. Len(l) : g[i - 1] = f[i - 1] => g[i] = f[i]
  BY <1>1, <1>4, <1>9
<1>11. \A i \in 0 .. Len(l) : g[i] = f[i]
  BY <1>1, <1>10, RecursionUnique
<1> QED BY <1>1, <1>3, <1>8, <1>11
-----------------------------------------------------------------------------
(* nr_rlc_sdu_segment_list_add puts the segment somewhere into the list. *)

\* What InsertAt does to the places of a list.
LEMMA InsertFacts ==
  ASSUME NEW X, NEW l \in Seq(X), NEW s \in X, NEW i \in 1 .. Len(l)
  PROVE  /\ InsertAt(l, i, s) \in Seq(X)
         /\ \A w \in [X -> Int] : Sum(InsertAt(l, i, s), w) = Sum(l, w) + w[s]
         /\ Len(InsertAt(l, i, s)) = Len(l) + 1
         /\ InsertAt(l, i, s)[i] = s
         /\ \A k \in 1 .. i - 1 : InsertAt(l, i, s)[k] = l[k]
         /\ \A k \in i .. Len(l) : InsertAt(l, i, s)[k + 1] = l[k]
<1>0. Len(l) \in Nat /\ \A k \in 1 .. Len(l) : l[k] \in X
  BY SeqFacts
<1>1. Len(l) \in Nat /\ i \in Nat /\ i - 1 \in Nat /\ i <= Len(l) /\ \A k \in 1 .. Len(l) : l[k] \in X
  BY <1>0
<1>2. PICK a : a = SubSeq(l, 1, i - 1)
  OBVIOUS
<1>3. PICK b : b = SubSeq(l, i, Len(l))
  OBVIOUS
<1>c. PICK c : c = <<s>>
  OBVIOUS
<1>4. c \in Seq(X) /\ c = <<s>> /\ Len(c) = 1 /\ c[1] = s
  BY <1>c
<1>5. a \in Seq(X) /\ Len(a) = i - 1 /\ \A k \in 1 .. i - 1 : a[k] = l[k]
  <2>1. \A k \in 1 .. i - 1 : l[k] \in X
    BY <1>1
  <2> QED BY <1>1, <1>2, <2>1, SubSeqProperties
<1>6. b \in Seq(X) /\ Len(b) = Len(l) - i + 1 /\ \A k \in 1 .. Len(l) - i + 1 : b[k] = l[i + k - 1]
  <2>1. \A k \in i .. Len(l) : l[k] \in X
    BY <1>1
  <2> QED BY <1>1, <1>3, <2>1, SubSeqProperties
<1>7. l = a \o b
  <2>1. 1 \in 1 .. Len(l) + 1 /\ i - 1 \in 1 - 1 .. Len(l) /\ Len(l) \in i - 1 .. Len(l)
    BY <1>1
  <2>2. PICK j \in 1 - 1 .. Len(l) : j = i - 1 /\ j + 1 = i /\ Len(l) \in j .. Len(l)
    BY <1>1
  <2>3. SubSeq(l, 1, j) \o SubSeq(l, j + 1, Len(l)) = SubSeq(l, 1, Len(l))
    BY <2>1, <2>2, ConcatAdjacentSubSeq
  <2> QED BY <1>2, <1>3, <2>2, <2>3, SubSeqFull
<1>8. PICK d \in Seq(X) : /\ d = a \o c /\ Len(d) = i /\ d[i] = s
                          /\ \A k \in 1 .. i - 1 : d[k] = l[k]
  <2>1. a \o c \in Seq(X) /\ Len(a \o c) = Len(a) + Len(c)
    BY <1>4, <1>5, ConcatProperties
  <2>2. \A k \in 1 .. Len(a) + Len(c) : (a \o c)[k] = IF k <= Len(a) THEN a[k] ELSE c[k - Len(a)]
    BY <1>4, <1>5, ConcatProperties
  <2>3. PICK d \in Seq(X) : d = a \o c
    BY <2>1
  <2>4. Len(d) = i
    BY <1>1, <1>4, <1>5, <2>1, <2>3
  <2>5. \A k \in 1 .. i : d[k] = IF k <= i - 1 THEN a[k] ELSE c[k - (i - 1)]
    BY <1>1, <1>4, <1>5, <2>2, <2>3
  <2>6. d[i] = c[i - (i - 1)]
    BY <1>1, <2>5
  <2>7. i - (i - 1) = 1
    BY <1>1
  <2>8. ASSUME NEW k \in 1 .. i - 1 PROVE d[k] = l[k]
    <3>1. k \in 1 .. i /\ k <= i - 1
      BY <1>1
    <3> QED BY <1>5, <2>5, <3>1
  <2>9. d[i] = s
    BY <1>4, <2>6, <2>7
  <2>10. d = a \o c /\ Len(d) = i /\ d[i] = s /\ \A k \in 1 .. i - 1 : d[k] = l[k]
    BY <2>3, <2>4, <2>8, <2>9
  <2> QED BY <2>10
<1>9. PICK q \in Seq(X) : q = InsertAt(l, i, s) /\ q = d \o b
  <2>1. d \o b \in Seq(X)
    BY <1>6, ConcatProperties
  <2>2. InsertAt(l, i, s) = (a \o c) \o b
    BY <1>2, <1>3, <1>4 DEF InsertAt
  <2> QED BY <1>8, <2>1, <2>2
<1>10. Len(q) = Len(l) + 1
  <2>1. Len(d \o b) = Len(d) + Len(b)
    BY <1>6, ConcatProperties
  <2> QED BY <1>1, <1>6, <1>8, <1>9, <2>1
<1>11. \A k \in 1 .. Len(l) + 1 : q[k] = IF k <= i THEN d[k] ELSE b[k - i]
  <2>1. \A k \in 1 .. Len(d) + Len(b) : (d \o b)[k] = IF k <= Len(d) THEN d[k] ELSE b[k - Len(d)]
    BY <1>6, ConcatProperties
  <2>2. Len(d) + Len(b) = Len(l) + 1
    BY <1>1, <1>6, <1>8
  <2> QED BY <1>8, <1>9, <2>1, <2>2
<1>12. q[i] = s /\ \A k \in 1 .. i - 1 : q[k] = l[k]
  <2>1. i \in 1 .. Len(l) + 1 /\ \A k \in 1 .. i - 1 : k \in 1 .. Len(l) + 1 /\ k <= i
    BY <1>1
  <2>2. q[i] = d[i] /\ \A k \in 1 .. i - 1 : q[k] = d[k]
    BY <1>1, <1>11, <2>1
  <2> QED BY <1>8, <2>2
<1>13. ASSUME NEW k \in i .. Len(l) PROVE q[k + 1] = l[k]
  <2>1. k + 1 \in 1 .. Len(l) + 1 /\ ~(k + 1 <= i)
    BY <1>1
  <2>2. PICK j \in 1 .. Len(l) - i + 1 : j = k + 1 - i /\ i + j - 1 = k
    BY <1>1
  <2>3. q[k + 1] = b[j]
    BY <1>11, <2>1, <2>2
  <2> QED BY <1>6, <2>2, <2>3
<1>14. ASSUME NEW w \in [X -> Int] PROVE Sum(q, w) = Sum(l, w) + w[s]
  <2>2. Sum(d \o b, w) = Sum(d, w) + Sum(b, w) /\ Sum(l, w) = Sum(a, w) + Sum(b, w)
    BY <1>5, <1>6, <1>7, SumConcat
  <2>3. Sum(d, w) = Sum(a, w) + Sum(c, w)
    BY <1>5, <1>8, SumConcat
  <2>4. Sum(c, w) = w[s]
    BY <1>4, SumOne
  <2>5. Sum(a, w) \in Int /\ Sum(b, w) \in Int /\ w[s] \in Int
    BY <1>5, <1>6, SumType
  <2> QED BY <1>9, <2>2, <2>3, <2>4, <2>5
<1> QED BY <1>9, <1>10, <1>12, <1>13, <1>14

\* q is l with the segment s somewhere in it.
AddedTo(l, s, q) ==
  q \in Seq(Segs) /\ \A w \in [Segs -> Int] : Sum(q, w) = Sum(l, w) + w[s]

\* nr_rlc_pdu_segment_list_add adds one weight to every sum.
LEMMA ListAddAdds ==
  ASSUME NEW t, NEW l \in Seq(Segs), NEW s \in Segs
  PROVE  AddedTo(l, s, ListAdd(t, l, s))
<1> DEFINE I == {i \in 1 .. Len(l) : \/ sn_compare_tx(t, SnOf(t, l[i]), SnOf(t, s)) > 0
                                     \/ SnOf(t, l[i]) = SnOf(t, s) /\ l[i].so > s.so}
           i0 == IF I # {} THEN Min(I) ELSE 0
<1>1. ListAdd(t, l, s) = IF i0 = 0 THEN Append(l, s) ELSE InsertAt(l, i0, s)
  BY DEF ListAdd, SelectInSeq
<1>2. I \subseteq Nat /\ I \subseteq 1 .. Len(l)
  BY SeqFacts
<1>3. i0 = 0 \/ i0 \in 1 .. Len(l)
  <2> HIDE DEF I
  <2>1. CASE I = {}
    BY <2>1
  <2>2. CASE I # {}
    BY <1>2, <2>2, MinIs
  <2> QED BY <2>1, <2>2
<1> HIDE DEF i0
<1>4. CASE i0 = 0
  <2>1. Append(l, s) \in Seq(Segs)
    OBVIOUS
  <2>2. \A w \in [Segs -> Int] : Sum(Append(l, s), w) = Sum(l, w) + w[s]
    BY SumAppend
  <2> QED BY <1>1, <1>4, <2>1, <2>2 DEF AddedTo
<1>5. CASE i0 \in 1 .. Len(l)
  <2>1. i0 # 0
    BY <1>5
  <2> QED BY <1>1, <1>5, <2>1, InsertFacts DEF AddedTo
<1> QED BY <1>3, <1>4, <1>5

AddAllStep(t, l, segs, f) ==
  [n \in 0 .. Len(segs) |-> IF n = 0 THEN l ELSE ListAdd(t, f[n - 1], segs[n])]

(* Adding a list of segments one by one: nothing is lost or added twice. *)
LEMMA ListAddAllAdds ==
  ASSUME NEW t, NEW l \in Seq(Segs), NEW segs \in Seq(Segs)
  PROVE  /\ ListAddAll(t, l, segs) \in Seq(Segs)
         /\ \A w \in [Segs -> Int] : Sum(ListAddAll(t, l, segs), w) = Sum(l, w) + Sum(segs, w)
<1> DEFINE n == Len(segs)
           F == [i \in 1 .. n |-> [x \in Seq(Segs) |-> ListAdd(t, x, segs[i])]]
<1>1. n \in Nat /\ (\A i \in 1 .. n : segs[i] \in Segs) /\ n \in 0 .. n
  BY SeqFacts
<1>2. F \in [1 .. n -> [Seq(Segs) -> Seq(Segs)]]
  <2>1. \A i \in 1 .. n, x \in Seq(Segs) : ListAdd(t, x, segs[i]) \in Seq(Segs)
    BY <1>1, ListAddAdds DEF AddedTo
  <2> QED BY <2>1
<1>3. PICK f \in [0 .. n -> Seq(Segs)] : Iterates(F, l, n, f)
  <2> HIDE DEF F, n
  <2> QED BY <1>1, <1>2, RecursionExists
<1>4. f[0] = l /\ \A i \in 1 .. n : f[i] = ListAdd(t, f[i - 1], segs[i])
  <2>1. f[0] = l /\ \A i \in 1 .. n : f[i] = F[i][f[i - 1]]
    <3> HIDE DEF F, n
    <3> QED BY <1>3 DEF Iterates
  <2>2. \A i \in 1 .. n : i - 1 \in 0 .. n
    BY <1>1
  <2> QED BY <1>1, <1>3, <2>1, <2>2
<1>5. f = AddAllStep(t, l, segs, f)
  <2>1. \A i \in 0 .. n : f[i] = IF i = 0 THEN l ELSE ListAdd(t, f[i - 1], segs[i])
    <3> HIDE DEF F
    <3> QED BY <1>1, <1>4
  <2>2. f = [i \in 0 .. n |-> f[i]]
    BY <1>3
  <2> QED BY <2>1, <2>2 DEF AddAllStep
<1>6. PICK g : g = CHOOSE h : h = AddAllStep(t, l, segs, h)
  OBVIOUS
<1>7. g = AddAllStep(t, l, segs, g)
  BY <1>5, <1>6
<1>8. ListAddAll(t, l, segs) = g[n]
  BY <1>6, Zenon DEF ListAddAll, AddAllStep
<1>9. \A i \in 0 .. n : g[i] = IF i = 0 THEN l ELSE ListAdd(t, g[i - 1], segs[i])
  <2> SUFFICES ASSUME NEW i \in 0 .. n
               PROVE  g[i] = IF i = 0 THEN l ELSE ListAdd(t, g[i - 1], segs[i])
    OBVIOUS
  <2>1. AddAllStep(t, l, segs, g)[i] = IF i = 0 THEN l ELSE ListAdd(t, g[i - 1], segs[i])
    BY DEF AddAllStep
  <2> QED BY <1>7, <2>1
<1> HIDE DEF F, n
<1>10. g[0] = f[0] /\ \A i \in 1 .. n : g[i - 1] = f[i - 1] => g[i] = f[i]
  BY <1>1, <1>4, <1>9
<1>11. \A i \in 0 .. n : g[i] = f[i]
  BY <1>1, <1>10, RecursionUnique
<1>12. ListAddAll(t, l, segs) = f[n] /\ f[n] \in Seq(Segs)
  BY <1>1, <1>3, <1>8, <1>11
<1>13. ASSUME NEW w \in [Segs -> Int] PROVE Sum(f[n], w) = Sum(l, w) + Sum(segs, w)
  <2>1. PICK h \in [0 .. n -> Int] : Adds(segs, w, h) /\ Sum(segs, w) = h[n]
    BY SumUnfolds DEF n
  <2>2. h[0] = 0 /\ \A i \in 1 .. n : h[i] = h[i - 1] + w[segs[i]]
    BY <2>1 DEF Adds, n
  <2>3. Sum(l, w) \in Int
    BY SumType
  <2> DEFINE G == {m \in 0 .. n : Sum(f[m], w) = Sum(l, w) + h[m]}
  <2>4. 0 \in G
    BY <1>1, <1>4, <2>2, <2>3
  <2>5. ASSUME NEW m \in 1 .. n, m - 1 \in G PROVE m \in G
    <3>1. m - 1 \in 0 .. n /\ m \in 0 .. n /\ segs[m] \in Segs
      BY <1>1
    <3>2. PICK q \in Seq(Segs) : q = f[m - 1]
      BY <1>3, <3>1
    <3>3. Sum(q, w) = Sum(l, w) + h[m - 1]
      BY <2>5, <3>2
    <3>4. f[m] = ListAdd(t, q, segs[m])
      BY <1>4, <3>2
    <3>5. Sum(f[m], w) = Sum(q, w) + w[segs[m]]
      BY <3>1, <3>4, ListAddAdds DEF AddedTo
    <3>6. h[m - 1] \in Int /\ w[segs[m]] \in Int /\ h[m] = h[m - 1] + w[segs[m]]
      BY <2>1, <2>2, <3>1
    <3>7. Sum(f[m], w) = Sum(l, w) + h[m]
      BY <2>3, <3>3, <3>5, <3>6
    <3> QED BY <3>1, <3>7
  <2> HIDE DEF G
  <2>6. \A i \in 0 .. n : i \in G
    BY <1>1, <2>4, <2>5, PlaceInduction
  <2>7. n \in G
    BY <1>1, <2>6
  <2> QED BY <2>1, <2>7 DEF G
<1> QED BY <1>12, <1>13

-----------------------------------------------------------------------------
(* The invariant of the transmitter.                                        *)

SduRecs == [sn : Sns \cup {-1}, ref_count : Int, retx_count : Int]

TxStates ==
  [tx_next : Sns, tx_next_ack : Sns, poll_sn : Sns, pdu_without_poll : Nat,
   byte_without_poll : Nat, force_poll : BOOLEAN, polling : BOOLEAN,
   tx_list : Seq(Segs), wait_list : Seq(Segs), retransmit_list : Seq(Segs),
   ack_list : Seq(Segs), tx_size : Int, bs_tx : Int, bs_retx : Int,
   sdu : [SduIds -> SduRecs]]

\* The weight of the segments that were sent, and of all.
SentSum(t, w) == Sum(t.wait_list, w) + Sum(t.retransmit_list, w) + Sum(t.ack_list, w)

AllSum(t, w) == Sum(t.tx_list, w) + SentSum(t, w)

Of(i) == Ind(Segs, {s \in Segs : s.sdu = i})

Covers(i, b) == Ind(Segs, {s \in Segs : s.sdu = i /\ s.so <= b /\ b < s.so + s.size})

Unnumbered(sn) == Ind(Segs, {s \in Segs : sn[s.sdu].sn = -1})

\* Each byte of an SDU that is held is once in the lists, and ref_count is right.
Partitioned(t, H) ==
  \A i \in H : /\ \A b \in 0 .. SduSize - 1 : AllSum(t, Covers(i, b)) = 1
               /\ t.sdu[i].ref_count = AllSum(t, Of(i))

\* Nothing is left of an SDU that is not held.
HeldOnly(t, H) ==
  /\ H \subseteq SduIds
  /\ \A i \in SduIds \ H : AllSum(t, Of(i)) = 0 /\ t.sdu[i] = FreshSdu

\* Only the head of tx_list may have been cut.
TxListOrder(t) ==
  /\ \A k \in 1 .. Len(t.tx_list) : t.tx_list[k].last /\ (k # 1 => t.tx_list[k].first)
  /\ \A j, k \in 1 .. Len(t.tx_list) : t.tx_list[j].sdu = t.tx_list[k].sdu => j = k

\* An SDU gets its number when its first segment is sent, and has one of its own.
Numbered(t, H) ==
  /\ \A i \in H : \/ t.sdu[i].sn = -1
                  \/ modulus_tx(t, t.sdu[i].sn) < modulus_tx(t, t.tx_next)
                  \/ /\ t.tx_list # <<>> /\ t.tx_list[1].sdu = i
                     /\ t.sdu[i].sn = t.tx_next
  /\ \A k \in 1 .. Len(t.tx_list) :
        t.sdu[t.tx_list[k].sdu].sn = IF t.tx_list[k].first THEN -1 ELSE t.tx_next
  /\ \A i, j \in H : t.sdu[i].sn # -1 /\ t.sdu[i].sn = t.sdu[j].sn => i = j
  /\ SentSum(t, Unnumbered(t.sdu)) = 0

TxWindow(t) == modulus_tx(t, t.tx_next) <= WindowSize

TxSizes(t) == t.bs_tx = Sum(t.tx_list, PduW) /\ t.bs_retx = Sum(t.retransmit_list, PduW)

\* A segment that waits to be sent again has been counted.
RetxCounted(t) ==
  /\ \A i \in SduIds : t.sdu[i].retx_count >= -1
  /\ \A k \in 1 .. Len(t.retransmit_list) : t.sdu[t.retransmit_list[k].sdu].retx_count >= 0

TxInv(t, H) ==
  /\ t \in TxStates
  /\ Partitioned(t, H) /\ HeldOnly(t, H) /\ TxListOrder(t) /\ Numbered(t, H)
  /\ TxWindow(t) /\ TxSizes(t) /\ RetxCounted(t)
-----------------------------------------------------------------------------
\* The fields of the transmitter.
LEMMA TxFields ==
  ASSUME NEW t \in TxStates
  PROVE  /\ t.tx_next \in Sns /\ t.tx_next_ack \in Sns /\ t.poll_sn \in Sns
         /\ t.tx_list \in Seq(Segs) /\ t.wait_list \in Seq(Segs)
         /\ t.retransmit_list \in Seq(Segs) /\ t.ack_list \in Seq(Segs)
         /\ t.tx_size \in Int /\ t.bs_tx \in Int /\ t.bs_retx \in Int
         /\ t.sdu \in [SduIds -> SduRecs]
         /\ \A i \in SduIds : /\ t.sdu[i] \in SduRecs /\ t.sdu[i].sn \in Sns \cup {-1}
                              /\ t.sdu[i].ref_count \in Int /\ t.sdu[i].retx_count \in Int
BY DEF TxStates, SduRecs

\* The weights used below are functions to the integers.
LEMMA WeightTypes ==
  /\ \A i : Of(i) \in [Segs -> Int]
  /\ \A i, b : Covers(i, b) \in [Segs -> Int]
  /\ \A f : Unnumbered(f) \in [Segs -> Int]
  /\ PduW \in [Segs -> Int]
BY IndType, PduWType DEF Of, Covers, Unnumbered

\* The sum over the lists of what was sent.
LEMMA SentSumType ==
  ASSUME NEW t \in TxStates, NEW w \in [Segs -> Int]
  PROVE  /\ Sum(t.tx_list, w) \in Int /\ Sum(t.wait_list, w) \in Int
         /\ Sum(t.retransmit_list, w) \in Int /\ Sum(t.ack_list, w) \in Int
         /\ SentSum(t, w) \in Int /\ AllSum(t, w) \in Int
<1>1. /\ Sum(t.tx_list, w) \in Int /\ Sum(t.wait_list, w) \in Int
      /\ Sum(t.retransmit_list, w) \in Int /\ Sum(t.ack_list, w) \in Int
  BY TxFields, SumType
<1> QED BY <1>1 DEF SentSum, AllSum

\* u has the segments of t that were sent in other lists, and counts retransmissions anew.
Moved(t, u) ==
  /\ u \in TxStates
  /\ u.tx_next = t.tx_next /\ u.tx_next_ack = t.tx_next_ack /\ u.tx_list = t.tx_list
  /\ u.tx_size = t.tx_size /\ u.bs_tx = t.bs_tx
  /\ \A i \in SduIds : u.sdu[i].sn = t.sdu[i].sn /\ u.sdu[i].ref_count = t.sdu[i].ref_count
  /\ \A w \in [Segs -> Int] : SentSum(u, w) = SentSum(t, w)

\* The invariant is kept when segments move between lists, if the sums say so.
LEMMA MovedKeeps ==
  ASSUME NEW H, NEW t, TxInv(t, H), NEW u, Moved(t, u), RetxCounted(u),
         u.bs_retx = Sum(u.retransmit_list, PduW),
         \A i \in SduIds \ H : u.sdu[i].retx_count = t.sdu[i].retx_count
  PROVE  TxInv(u, H)
<1>1. t \in TxStates /\ u \in TxStates /\ H \subseteq SduIds
  BY DEF TxInv, Moved, HeldOnly
<1>2. \A w \in [Segs -> Int] : AllSum(u, w) = AllSum(t, w)
  BY DEF Moved, AllSum
<1>3. Partitioned(u, H)
  BY <1>1, <1>2, WeightTypes DEF TxInv, Partitioned, Moved
<1>4. HeldOnly(u, H)
  <2>1. ASSUME NEW i \in SduIds \ H PROVE u.sdu[i] = FreshSdu
    <3>1. t.sdu[i] = FreshSdu
      BY DEF TxInv, HeldOnly
    <3>2. u.sdu[i] \in SduRecs
      BY <1>1, TxFields
    <3>3. u.sdu[i].sn = -1 /\ u.sdu[i].ref_count = 0 /\ u.sdu[i].retx_count = -1
      BY <3>1 DEF Moved, FreshSdu
    <3> QED BY <3>2, <3>3 DEF SduRecs, FreshSdu
  <2>2. \A i \in SduIds \ H : AllSum(u, Of(i)) = 0
    BY <1>2, WeightTypes DEF TxInv, HeldOnly
  <2> QED BY <1>1, <2>1, <2>2 DEF HeldOnly
<1>5. TxListOrder(u)
  BY DEF TxInv, TxListOrder, Moved
<1>6. Unnumbered(u.sdu) = Unnumbered(t.sdu)
  <2>1. {s \in Segs : u.sdu[s.sdu].sn = -1} = {s \in Segs : t.sdu[s.sdu].sn = -1}
    BY SegTypes DEF Moved
  <2> QED BY <2>1 DEF Unnumbered
<1>7. Numbered(u, H)
  <2>1. SentSum(u, Unnumbered(u.sdu)) = 0
    BY <1>6, WeightTypes DEF TxInv, Numbered, Moved
  <2>2. \A a : modulus_tx(u, a) = modulus_tx(t, a)
    BY DEF modulus_tx, Moved
  <2>3. \A i \in H : \/ u.sdu[i].sn = -1
                  \/ modulus_tx(u, u.sdu[i].sn) < modulus_tx(u, u.tx_next)
                  \/ /\ u.tx_list # <<>> /\ u.tx_list[1].sdu = i
                     /\ u.sdu[i].sn = u.tx_next
    BY <1>1, <2>2 DEF TxInv, Numbered, Moved
  <2>4. \A k \in 1 .. Len(u.tx_list) :
          u.sdu[u.tx_list[k].sdu].sn = IF u.tx_list[k].first THEN -1 ELSE u.tx_next
    <3>1. \A k \in 1 .. Len(t.tx_list) : t.tx_list[k].sdu \in SduIds
      BY <1>1, TxFields, SeqFacts, SegTypes
    <3> QED BY <3>1 DEF TxInv, Numbered, Moved
  <2>5. \A i, j \in H : u.sdu[i].sn # -1 /\ u.sdu[i].sn = u.sdu[j].sn => i = j
    BY <1>1 DEF TxInv, Numbered, Moved
  <2> QED BY <2>1, <2>3, <2>4, <2>5 DEF Numbered
<1>8. TxWindow(u)
  BY DEF TxInv, TxWindow, Moved, modulus_tx
<1>9. TxSizes(u)
  BY DEF TxInv, TxSizes, Moved
<1> QED BY <1>1, <1>3, <1>4, <1>5, <1>7, <1>8, <1>9 DEF TxInv

(* A segment in a list belongs to an SDU that is held; one that was sent has a *)
(* sequence number.                                                            *)
LEMMA InListsHeld ==
  ASSUME NEW H, NEW t, TxInv(t, H)
  PROVE  /\ \A k \in 1 .. Len(t.tx_list) : t.tx_list[k].sdu \in H
         /\ \A k \in 1 .. Len(t.wait_list) : t.wait_list[k].sdu \in H /\ SnOf(t, t.wait_list[k]) # -1
         /\ \A k \in 1 .. Len(t.retransmit_list) :
              t.retransmit_list[k].sdu \in H /\ SnOf(t, t.retransmit_list[k]) # -1
         /\ \A k \in 1 .. Len(t.ack_list) : t.ack_list[k].sdu \in H /\ SnOf(t, t.ack_list[k]) # -1
<1>1. t \in TxStates
  BY DEF TxInv
<1>2. /\ t.tx_list \in Seq(Segs) /\ t.wait_list \in Seq(Segs)
      /\ t.retransmit_list \in Seq(Segs) /\ t.ack_list \in Seq(Segs)
  BY <1>1, TxFields
<1>3. ASSUME NEW l \in Seq(Segs), NEW k \in 1 .. Len(l), NEW P, Sum(l, Ind(Segs, P)) = 0
      PROVE  l[k] \notin P
  BY <1>3, CountZero
<1>4. ASSUME NEW l \in Seq(Segs), NEW k \in 1 .. Len(l),
             \A i \in SduIds \ H : Sum(l, Of(i)) = 0
      PROVE  l[k].sdu \in H
  <2>1. l[k] \in Segs /\ l[k].sdu \in SduIds
    BY SeqFacts, SegTypes
  <2>2. ASSUME l[k].sdu \notin H PROVE FALSE
    <3>1. PICK i \in SduIds \ H : i = l[k].sdu
      BY <2>1, <2>2
    <3>2. Sum(l, Ind(Segs, {s \in Segs : s.sdu = i})) = 0
      BY <1>4 DEF Of
    <3>3. l[k] \notin {s \in Segs : s.sdu = i}
      BY <1>3, <3>2
    <3> QED BY <2>1, <3>1, <3>3
  <2> QED BY <2>2
<1>5. ASSUME NEW i \in SduIds \ H
      PROVE  /\ Sum(t.tx_list, Of(i)) = 0 /\ Sum(t.wait_list, Of(i)) = 0
             /\ Sum(t.retransmit_list, Of(i)) = 0 /\ Sum(t.ack_list, Of(i)) = 0
  <2>1. AllSum(t, Of(i)) = 0
    BY DEF TxInv, HeldOnly
  <2>2. \A l \in Seq(Segs) : Sum(l, Of(i)) \in Nat
    BY CountZero DEF Of
  <2>3. PICK a \in Nat, b \in Nat, c \in Nat, d \in Nat :
          /\ a = Sum(t.tx_list, Of(i)) /\ b = Sum(t.wait_list, Of(i))
          /\ c = Sum(t.retransmit_list, Of(i)) /\ d = Sum(t.ack_list, Of(i))
    BY <1>2, <2>2
  <2>4. a + (b + c + d) = 0
    BY <2>1, <2>3 DEF AllSum, SentSum
  <2>5. a = 0 /\ b = 0 /\ c = 0 /\ d = 0
    BY <2>4
  <2> QED BY <2>3, <2>5
<1>6. ASSUME NEW l \in Seq(Segs), NEW k \in 1 .. Len(l), Sum(l, Unnumbered(t.sdu)) = 0
      PROVE  SnOf(t, l[k]) # -1
  <2>1. l[k] \in Segs
    BY SeqFacts
  <2>2. l[k] \notin {s \in Segs : t.sdu[s.sdu].sn = -1}
    BY <1>3, <1>6 DEF Unnumbered
  <2> QED BY <2>1, <2>2 DEF SnOf
<1>7. /\ Sum(t.wait_list, Unnumbered(t.sdu)) = 0
      /\ Sum(t.retransmit_list, Unnumbered(t.sdu)) = 0 /\ Sum(t.ack_list, Unnumbered(t.sdu)) = 0
  <2>1. SentSum(t, Unnumbered(t.sdu)) = 0
    BY DEF TxInv, Numbered
  <2>2. \A l \in Seq(Segs) : Sum(l, Unnumbered(t.sdu)) \in Nat
    BY CountZero DEF Unnumbered
  <2>3. PICK b \in Nat, c \in Nat, d \in Nat :
          /\ b = Sum(t.wait_list, Unnumbered(t.sdu))
          /\ c = Sum(t.retransmit_list, Unnumbered(t.sdu)) /\ d = Sum(t.ack_list, Unnumbered(t.sdu))
    BY <1>2, <2>2
  <2>4. b + c + d = 0
    BY <2>1, <2>3 DEF SentSum
  <2>5. b = 0 /\ c = 0 /\ d = 0
    BY <2>4
  <2> QED BY <2>3, <2>5
<1> QED BY <1>2, <1>4, <1>5, <1>6, <1>7

-----------------------------------------------------------------------------
(* process_received_ack and process_nack_sn move sent segments. *)

\* The elements of a concatenation.
LEMMA ConcatElements ==
  ASSUME NEW X, NEW a \in Seq(X), NEW b \in Seq(X)
  PROVE  /\ a \o b \in Seq(X)
         /\ \A k \in 1 .. Len(a \o b) : \/ \E j \in 1 .. Len(a) : (a \o b)[k] = a[j]
                                        \/ \E j \in 1 .. Len(b) : (a \o b)[k] = b[j]
<1>1. a \o b \in Seq(X) /\ Len(a \o b) = Len(a) + Len(b)
  BY ConcatProperties
<1>2. Len(a) \in Nat /\ Len(b) \in Nat
  BY SeqFacts
<1>3. ASSUME NEW k \in 1 .. Len(a \o b)
      PROVE  \/ \E j \in 1 .. Len(a) : (a \o b)[k] = a[j]
             \/ \E j \in 1 .. Len(b) : (a \o b)[k] = b[j]
  <2>1. k \in 1 .. Len(a) + Len(b)
    BY <1>1
  <2>2. (a \o b)[k] = IF k <= Len(a) THEN a[k] ELSE b[k - Len(a)]
    BY <2>1, ConcatProperties
  <2>3. CASE k <= Len(a)
    <3>1. k \in 1 .. Len(a)
      BY <1>2, <2>1, <2>3
    <3> QED BY <2>2, <2>3, <3>1
  <2>4. CASE ~(k <= Len(a))
    <3>0. k - Len(a) \in 1 .. Len(b)
      BY <1>2, <2>1, <2>4
    <3>1. PICK j \in 1 .. Len(b) : j = k - Len(a)
      BY <3>0
    <3>2. (a \o b)[k] = b[j]
      BY <2>2, <2>4, <3>1
    <3> QED BY <3>2
  <2> QED BY <2>3, <2>4
<1> QED BY <1>1, <1>3

\* The elements of q are those of a and of b.
Joins(a, b, q) ==
  \A k \in 1 .. Len(q) : \/ \E j \in 1 .. Len(a) : q[k] = a[j]
                         \/ \E j \in 1 .. Len(b) : q[k] = b[j]

\* The sum over one list of both lists' elements.
LEMMA ConcatJoins ==
  ASSUME NEW X, NEW a \in Seq(X), NEW b \in Seq(X)
  PROVE  Joins(a, b, a \o b)
BY ConcatElements DEF Joins

\* What Uncount does to ref_count.
LEMMA UncountFacts ==
  ASSUME NEW t \in TxStates, NEW S
  PROVE  /\ Uncount(t, S) \in [SduIds -> SduRecs]
         /\ \A i \in SduIds : /\ Uncount(t, S)[i].sn = t.sdu[i].sn
                              /\ Uncount(t, S)[i].ref_count = t.sdu[i].ref_count
                              /\ Uncount(t, S)[i].retx_count =
                                   IF i \in S THEN t.sdu[i].retx_count - 1
                                   ELSE t.sdu[i].retx_count
<1>1. \A i \in SduIds : t.sdu[i] \in SduRecs
  BY TxFields
<1>2. ASSUME NEW i \in SduIds
      PROVE  /\ Uncount(t, S)[i] \in SduRecs
             /\ Uncount(t, S)[i].sn = t.sdu[i].sn
             /\ Uncount(t, S)[i].ref_count = t.sdu[i].ref_count
             /\ Uncount(t, S)[i].retx_count =
                  IF i \in S THEN t.sdu[i].retx_count - 1 ELSE t.sdu[i].retx_count
  <2>1. Uncount(t, S)[i] = IF i \in S THEN [t.sdu[i] EXCEPT !.retx_count = @ - 1] ELSE t.sdu[i]
    BY DEF Uncount
  <2>2. PICK d \in SduRecs : d = t.sdu[i]
    BY <1>1
  <2>3. Uncount(t, S)[i] = IF i \in S THEN [d EXCEPT !.retx_count = d.retx_count - 1] ELSE d
    BY <2>1, <2>2
  <2> HIDE DEF Uncount
  <2> QED BY <2>2, <2>3 DEF SduRecs
<1>3. Uncount(t, S) = [i \in SduIds |-> Uncount(t, S)[i]]
  BY DEF Uncount
<1> QED BY <1>2, <1>3

\* The fields that MoveAcked changes.
LEMMA MoveAckedFields ==
  ASSUME NEW t \in TxStates, NEW acked, NEW moved \in Seq(Segs), NEW unsent \in Seq(Segs),
         NEW u, u = MoveAcked(t, acked, moved, unsent)
  PROVE  /\ u \in TxStates
         /\ u.tx_next = t.tx_next /\ u.tx_next_ack = t.tx_next_ack /\ u.tx_list = t.tx_list
         /\ u.tx_size = t.tx_size /\ u.bs_tx = t.bs_tx
         /\ u.wait_list = Others(t.wait_list, acked)
         /\ u.retransmit_list = Others(t.retransmit_list, acked)
         /\ u.bs_retx = t.bs_retx - Bytes(unsent)
         /\ u.ack_list = ListAddAll(t, t.ack_list, moved)
         /\ u.sdu = Uncount(t, Uncounted(t, moved, unsent))
<1>1. Others(t.wait_list, acked) \in Seq(Segs) /\ Others(t.retransmit_list, acked) \in Seq(Segs)
  BY TxFields, ThoseType
<1>2. ListAddAll(t, t.ack_list, moved) \in Seq(Segs)
  BY TxFields, ListAddAllAdds
<1>3. Bytes(unsent) \in Int
  BY BytesIsSum, SumType, WeightTypes
<1>4. PICK f \in [SduIds -> SduRecs] : f = Uncount(t, Uncounted(t, moved, unsent))
  BY UncountFacts
<1>5. PICK wo \in Seq(Segs), ro \in Seq(Segs), al \in Seq(Segs), n \in Int :
        /\ wo = Others(t.wait_list, acked) /\ ro = Others(t.retransmit_list, acked)
        /\ al = ListAddAll(t, t.ack_list, moved) /\ n = Bytes(unsent)
  BY <1>1, <1>2, <1>3
<1>6. u = [t EXCEPT !.wait_list = wo, !.retransmit_list = ro, !.bs_retx = t.bs_retx - n,
                    !.ack_list = al, !.sdu = f]
  BY <1>4, <1>5 DEF MoveAcked
<1>7. u \in TxStates
  <2>1. t.bs_retx - n \in Int
    BY TxFields
  <2> QED BY <1>6, <2>1, ZenonT(60) DEF TxStates
<1>8. /\ u.tx_next = t.tx_next /\ u.tx_next_ack = t.tx_next_ack /\ u.tx_list = t.tx_list
      /\ u.tx_size = t.tx_size /\ u.bs_tx = t.bs_tx
      /\ u.wait_list = wo /\ u.retransmit_list = ro /\ u.bs_retx = t.bs_retx - n
      /\ u.ack_list = al /\ u.sdu = f
  BY <1>6 DEF TxStates
<1> QED BY <1>4, <1>5, <1>7, <1>8

\* The segments of acked among those of t are all of some SDUs.
WholeSdus(t, acked) ==
  \A k \in 1 .. Len(t.retransmit_list), j \in 1 .. Len(t.retransmit_list) :
     (t.retransmit_list[k] \in acked /\ t.retransmit_list[j].sdu = t.retransmit_list[k].sdu)
     => t.retransmit_list[j] \in acked

\* Segments that are acknowledged move to the ack list.
LEMMA MoveThoseKeeps ==
  ASSUME NEW H, NEW t, TxInv(t, H), NEW acked, WholeSdus(t, acked)
  PROVE  TxInv(MoveThose(t, acked), H) /\ MoveThose(t, acked).tx_size = t.tx_size
<1>1. t \in TxStates
  BY DEF TxInv
<1>2. PICK wl \in Seq(Segs), rl \in Seq(Segs), al \in Seq(Segs) :
        wl = t.wait_list /\ rl = t.retransmit_list /\ al = t.ack_list
  BY <1>1, TxFields
<1>3. PICK wt \in Seq(Segs), wo \in Seq(Segs), rt \in Seq(Segs), ro \in Seq(Segs) :
        /\ wt = Those(wl, acked) /\ wo = Others(wl, acked)
        /\ rt = Those(rl, acked) /\ ro = Others(rl, acked)
  BY ThoseType
<1>4. PICK mv \in Seq(Segs) : mv = wt \o rt
  BY ConcatElements
<1>5. PICK u : u = MoveAcked(t, acked, mv, rt)
  OBVIOUS
<1>6. u = MoveThose(t, acked)
  BY <1>2, <1>3, <1>4, <1>5 DEF MoveThose
<1>7. /\ u \in TxStates
      /\ u.tx_next = t.tx_next /\ u.tx_next_ack = t.tx_next_ack /\ u.tx_list = t.tx_list
      /\ u.tx_size = t.tx_size /\ u.bs_tx = t.bs_tx
      /\ u.wait_list = wo /\ u.retransmit_list = ro
      /\ u.bs_retx = t.bs_retx - Bytes(rt)
      /\ u.ack_list = ListAddAll(t, al, mv)
      /\ u.sdu = Uncount(t, Uncounted(t, mv, rt))
  BY <1>1, <1>2, <1>3, <1>5, MoveAckedFields
<1>8. ASSUME NEW w \in [Segs -> Int]
      PROVE  SentSum(u, w) = SentSum(t, w) /\ Sum(rl, w) = Sum(rt, w) + Sum(ro, w)
  <2>1. Sum(wl, w) = Sum(wt, w) + Sum(wo, w) /\ Sum(rl, w) = Sum(rt, w) + Sum(ro, w)
    BY <1>3, SumSplits
  <2>2. Sum(u.ack_list, w) = Sum(al, w) + Sum(mv, w)
    BY <1>7, ListAddAllAdds
  <2>3. Sum(mv, w) = Sum(wt, w) + Sum(rt, w)
    BY <1>4, SumConcat
  <2>4. /\ Sum(wt, w) \in Int /\ Sum(wo, w) \in Int /\ Sum(rt, w) \in Int /\ Sum(ro, w) \in Int
        /\ Sum(al, w) \in Int
    BY SumType
  <2> QED BY <1>2, <1>7, <2>1, <2>2, <2>3, <2>4 DEF SentSum
<1>9. PICK S : S = Uncounted(t, mv, rt)
  OBVIOUS
<1>10. \A i \in SduIds : /\ u.sdu[i].sn = t.sdu[i].sn
                         /\ u.sdu[i].ref_count = t.sdu[i].ref_count
                         /\ u.sdu[i].retx_count = IF i \in S THEN t.sdu[i].retx_count - 1
                                                  ELSE t.sdu[i].retx_count
  BY <1>1, <1>7, <1>9, UncountFacts
<1>11. Moved(t, u)
  BY <1>7, <1>8, <1>10 DEF Moved
<1>12. u.bs_retx = Sum(u.retransmit_list, PduW)
  <2>1. Bytes(rt) = Sum(rt, PduW) /\ t.bs_retx = Sum(rl, PduW)
    BY <1>2, BytesIsSum DEF TxInv, TxSizes
  <2>2. Sum(rl, PduW) = Sum(rt, PduW) + Sum(ro, PduW)
    BY <1>8, WeightTypes
  <2>3. Sum(rt, PduW) \in Int /\ Sum(ro, PduW) \in Int
    BY SumType, WeightTypes
  <2> QED BY <1>7, <2>1, <2>2, <2>3
<1>13. /\ \A k \in 1 .. Len(rt) : rt[k] \in acked /\ \E j \in 1 .. Len(rl) : rt[k] = rl[j]
       /\ \A k \in 1 .. Len(ro) : ro[k] \notin acked /\ \E j \in 1 .. Len(rl) : ro[k] = rl[j]
  BY <1>3, ThoseElements
<1>14. \A i \in S : i \in SduIds /\ \E j \in 1 .. Len(rl) : rl[j] \in acked /\ rl[j].sdu = i
  <2>0. DOMAIN rt = 1 .. Len(rt)
    BY SeqFacts
  <2>1. S = {i \in SduIds : \E k \in 1 .. Len(rt) : rt[k].sdu = i}
    BY <1>9, <2>0 DEF Uncounted
  <2> SUFFICES ASSUME NEW i \in S
               PROVE  i \in SduIds /\ \E j \in 1 .. Len(rl) : rl[j] \in acked /\ rl[j].sdu = i
    OBVIOUS
  <2>2. PICK k \in 1 .. Len(rt) : i \in SduIds /\ rt[k].sdu = i
    BY <2>1
  <2>3. PICK j \in 1 .. Len(rl) : rt[k] \in acked /\ rt[k] = rl[j]
    BY <1>13
  <2> QED BY <2>2, <2>3
<1>15. RetxCounted(t)
  BY DEF TxInv
<1>16. RetxCounted(u)
  <2>1. ASSUME NEW i \in SduIds PROVE u.sdu[i].retx_count >= -1
    <3>1. t.sdu[i].retx_count \in Int /\ t.sdu[i].retx_count >= -1
      BY <1>1, <1>15, TxFields DEF RetxCounted
    <3>2. CASE i \in S
      <4>1. t.sdu[i].retx_count >= 0
        BY <1>2, <1>14, <1>15, <3>2 DEF RetxCounted
      <4>2. u.sdu[i].retx_count = t.sdu[i].retx_count - 1
        BY <1>10, <3>2
      <4> QED BY <3>1, <4>1, <4>2
    <3>3. CASE i \notin S
      <4>2. u.sdu[i].retx_count = t.sdu[i].retx_count
        BY <1>10, <3>3
      <4> QED BY <3>1, <4>2
    <3> QED BY <3>2, <3>3
  <2>2. ASSUME NEW k \in 1 .. Len(ro) PROVE u.sdu[ro[k].sdu].retx_count >= 0
    <3>1. PICK j \in 1 .. Len(rl) : ro[k] = rl[j]
      BY <1>13
    <3>2. rl[j] \in Segs /\ rl[j].sdu \in SduIds
      BY SeqFacts, SegTypes
    <3>3. t.sdu[rl[j].sdu].retx_count >= 0
      BY <1>2, <1>15 DEF RetxCounted
    <3>4. rl[j].sdu \notin S
      <4>1. SUFFICES ASSUME rl[j].sdu \in S PROVE FALSE
        OBVIOUS
      <4>2. PICK m \in 1 .. Len(rl) : rl[m] \in acked /\ rl[m].sdu = rl[j].sdu
        BY <1>14, <4>1
      <4>3. rl[j] \in acked
        BY <1>2, <4>2 DEF WholeSdus
      <4> QED BY <1>13, <3>1, <4>3
    <3> QED BY <1>10, <3>1, <3>2, <3>3, <3>4
  <2> QED BY <1>7, <2>1, <2>2 DEF RetxCounted
<1>17. \A i \in SduIds \ H : u.sdu[i].retx_count = t.sdu[i].retx_count
  <2>1. \A j \in 1 .. Len(rl) : rl[j].sdu \in H
    BY <1>2, InListsHeld
  <2> SUFFICES ASSUME NEW i \in SduIds \ H
               PROVE  u.sdu[i].retx_count = t.sdu[i].retx_count
    OBVIOUS
  <2>2. \A j \in 1 .. Len(rl) : rl[j].sdu # i
    BY <2>1, Zenon
  <2>3. i \notin S
    BY <1>14, <2>2, Zenon
  <2> QED BY <1>10, <2>3
<1>18. TxInv(u, H)
  BY <1>11, <1>12, <1>16, <1>17, MovedKeeps
<1> QED BY <1>6, <1>7, <1>18

\* process_received_ack keeps the invariant.
LEMMA AckKeeps ==
  ASSUME NEW H, NEW t, TxInv(t, H), NEW ack_sn
  PROVE  /\ TxInv(process_received_ack(t, ack_sn), H)
         /\ process_received_ack(t, ack_sn).tx_size = t.tx_size
<1> DEFINE acked == {seg \in ToSet(t.wait_list) \cup ToSet(t.retransmit_list) :
                       sn_compare_tx(t, SnOf(t, seg), ack_sn) < 0}
<1>1. t \in TxStates /\ t.retransmit_list \in Seq(Segs)
  BY TxFields DEF TxInv
<1>2. WholeSdus(t, acked)
  <2>1. \A k \in 1 .. Len(t.retransmit_list) : t.retransmit_list[k] \in ToSet(t.retransmit_list)
    BY <1>1, SeqFacts DEF ToSet
  <2> QED BY <2>1 DEF WholeSdus, SnOf
<1> HIDE DEF acked
<1>3. TxInv(MoveThose(t, acked), H) /\ MoveThose(t, acked).tx_size = t.tx_size
  BY <1>2, MoveThoseKeeps
<1> QED BY <1>3 DEF process_received_ack, acked

-----------------------------------------------------------------------------
(* Sending again. *)

\* v is t with other lists of segments that wait and that are acknowledged.
SameBut(t, v, wo, ao) ==
  /\ v \in TxStates /\ v.wait_list = wo /\ v.ack_list = ao
  /\ v.retransmit_list = t.retransmit_list /\ v.bs_retx = t.bs_retx /\ v.sdu = t.sdu
  /\ v.tx_next = t.tx_next /\ v.tx_next_ack = t.tx_next_ack /\ v.tx_list = t.tx_list
  /\ v.tx_size = t.tx_size /\ v.bs_tx = t.bs_tx

\* The segments segs are of one SDU, which is counted if it was not yet.
OneSdu(t, segs, upd) ==
  \A j, k \in 1 .. Len(segs) : /\ segs[j].sdu = segs[k].sdu
                               /\ upd \/ t.sdu[segs[k].sdu].retx_count >= 0

\* What the retransmission of segs does to the counters.
CountsUp(t, u, segs) ==
  /\ \A i \in SduIds : u.sdu[i].sn = t.sdu[i].sn
  /\ \A i \in SduIds : u.sdu[i].retx_count >= t.sdu[i].retx_count
  /\ \A k \in 1 .. Len(segs) : u.sdu[segs[k].sdu].retx_count >= 0
  /\ u.retransmit_list = t.retransmit_list \o segs /\ u.tx_size = t.tx_size

\* What CountRetx does to retx_count.
LEMMA CountRetxFacts ==
  ASSUME NEW v \in TxStates, NEW segs \in Seq(Segs), NEW upd
  PROVE  /\ CountRetx(v, segs, upd) \in [SduIds -> SduRecs]
         /\ \A i \in SduIds :
              /\ CountRetx(v, segs, upd)[i].sn = v.sdu[i].sn
              /\ CountRetx(v, segs, upd)[i].ref_count = v.sdu[i].ref_count
              /\ CountRetx(v, segs, upd)[i].retx_count =
                   IF segs # <<>> /\ upd /\ segs[1].sdu = i
                   THEN v.sdu[i].retx_count + 1 ELSE v.sdu[i].retx_count
<1>1. v.sdu \in [SduIds -> SduRecs] /\ \A i \in SduIds : v.sdu[i] \in SduRecs
  BY TxFields
<1>2. CASE segs # <<>> /\ upd
  <2>1. 1 \in 1 .. Len(segs) /\ Head(segs) = segs[1]
    BY <1>2
  <2>2. segs[1] \in Segs
    BY <2>1, SeqFacts
  <2>3. PICK h \in SduIds : h = segs[1].sdu
    BY <2>2, SegTypes
  <2>4. CountRetx(v, segs, upd) = [v.sdu EXCEPT ![h].retx_count = v.sdu[h].retx_count + 1]
    BY <1>2, <2>1, <2>3 DEF CountRetx
  <2>5. PICK d \in SduRecs : d = v.sdu[h]
    BY <1>1
  <2>6. PICK e : e = [d EXCEPT !.retx_count = d.retx_count + 1]
    OBVIOUS
  <2>7. /\ e \in SduRecs /\ e.sn = d.sn /\ e.ref_count = d.ref_count
        /\ e.retx_count = d.retx_count + 1
    BY <2>5, <2>6 DEF SduRecs
  <2>8. CountRetx(v, segs, upd) = [v.sdu EXCEPT ![h] = e]
    BY <1>1, <2>4, <2>5, <2>6
  <2>9. \A i \in SduIds : CountRetx(v, segs, upd)[i] = IF i = h THEN e ELSE v.sdu[i]
    BY <1>1, <2>8
  <2>10. CountRetx(v, segs, upd) \in [SduIds -> SduRecs]
    BY <1>1, <2>7, <2>8
  <2> QED BY <1>2, <2>3, <2>5, <2>7, <2>9, <2>10
<1>3. CASE ~(segs # <<>> /\ upd)
  <2>1. CountRetx(v, segs, upd) = v.sdu
    BY <1>3 DEF CountRetx
  <2> QED BY <1>1, <1>3, <2>1
<1> QED BY <1>2, <1>3

\* The fields that a segment considered for retransmission changes.
LEMMA ConsiderFields ==
  ASSUME NEW v \in TxStates, NEW segs \in Seq(Segs), NEW upd,
         NEW u, u = consider_retransmission(v, segs, upd)
  PROVE  /\ u \in TxStates
         /\ u.tx_next = v.tx_next /\ u.tx_next_ack = v.tx_next_ack /\ u.tx_list = v.tx_list
         /\ u.tx_size = v.tx_size /\ u.bs_tx = v.bs_tx
         /\ u.wait_list = v.wait_list /\ u.ack_list = v.ack_list
         /\ u.retransmit_list = v.retransmit_list \o segs
         /\ u.bs_retx = v.bs_retx + Bytes(segs)
         /\ u.sdu = CountRetx(v, segs, upd)
<1>1. PICK rl \in Seq(Segs) : rl = v.retransmit_list \o segs
  BY TxFields, ConcatElements
<1>2. PICK n \in Int : n = Bytes(segs)
  BY BytesIsSum, SumType, WeightTypes
<1>3. PICK f \in [SduIds -> SduRecs] : f = CountRetx(v, segs, upd)
  BY CountRetxFacts
<1>4. u = [v EXCEPT !.retransmit_list = rl, !.bs_retx = v.bs_retx + n, !.sdu = f]
  BY <1>1, <1>2, <1>3 DEF consider_retransmission
<1>5. u \in TxStates
  <2>1. v.bs_retx + n \in Int
    BY TxFields
  <2> QED BY <1>4, <2>1 DEF TxStates
<1>6. /\ u.tx_next = v.tx_next /\ u.tx_next_ack = v.tx_next_ack /\ u.tx_list = v.tx_list
      /\ u.tx_size = v.tx_size /\ u.bs_tx = v.bs_tx
      /\ u.wait_list = v.wait_list /\ u.ack_list = v.ack_list
      /\ u.retransmit_list = rl /\ u.bs_retx = v.bs_retx + n /\ u.sdu = f
  BY <1>4 DEF TxStates
<1> QED BY <1>1, <1>2, <1>3, <1>5, <1>6

\* A segment that moves to the retransmit list.
LEMMA ResendKeeps ==
  ASSUME NEW H, NEW t, TxInv(t, H), NEW v, NEW wo \in Seq(Segs), NEW ao \in Seq(Segs),
         NEW segs \in Seq(Segs), NEW upd, SameBut(t, v, wo, ao), OneSdu(t, segs, upd),
         \A k \in 1 .. Len(segs) : segs[k].sdu \in H,
         \A w \in [Segs -> Int] :
           Sum(wo, w) + Sum(ao, w) + Sum(segs, w) = Sum(t.wait_list, w) + Sum(t.ack_list, w),
         NEW u, u = consider_retransmission(v, segs, upd)
  PROVE  TxInv(u, H) /\ CountsUp(t, u, segs)
<1>1. t \in TxStates /\ v \in TxStates /\ H \subseteq SduIds
  BY DEF TxInv, SameBut, HeldOnly
<1>2. PICK rl \in Seq(Segs) : rl = t.retransmit_list
  BY <1>1, TxFields
<1>3. /\ u \in TxStates
      /\ u.tx_next = t.tx_next /\ u.tx_next_ack = t.tx_next_ack /\ u.tx_list = t.tx_list
      /\ u.tx_size = t.tx_size /\ u.bs_tx = t.bs_tx
      /\ u.wait_list = wo /\ u.ack_list = ao
      /\ u.retransmit_list = rl \o segs
      /\ u.bs_retx = t.bs_retx + Bytes(segs)
      /\ u.sdu = CountRetx(v, segs, upd)
  <2>1. /\ v.tx_next = t.tx_next /\ v.tx_next_ack = t.tx_next_ack /\ v.tx_list = t.tx_list
        /\ v.tx_size = t.tx_size /\ v.bs_tx = t.bs_tx /\ v.wait_list = wo /\ v.ack_list = ao
        /\ v.retransmit_list = rl /\ v.bs_retx = t.bs_retx
    BY <1>2 DEF SameBut
  <2>2. /\ u \in TxStates
        /\ u.tx_next = v.tx_next /\ u.tx_next_ack = v.tx_next_ack /\ u.tx_list = v.tx_list
        /\ u.tx_size = v.tx_size /\ u.bs_tx = v.bs_tx
        /\ u.wait_list = v.wait_list /\ u.ack_list = v.ack_list
        /\ u.retransmit_list = v.retransmit_list \o segs
        /\ u.bs_retx = v.bs_retx + Bytes(segs)
        /\ u.sdu = CountRetx(v, segs, upd)
    BY <1>1, ConsiderFields
  <2> QED BY <2>1, <2>2
<1>4. \A i \in SduIds : /\ u.sdu[i].sn = t.sdu[i].sn
                        /\ u.sdu[i].ref_count = t.sdu[i].ref_count
                        /\ u.sdu[i].retx_count = IF segs # <<>> /\ upd /\ segs[1].sdu = i
                                                 THEN t.sdu[i].retx_count + 1
                                                 ELSE t.sdu[i].retx_count
  BY <1>1, <1>3, CountRetxFacts DEF SameBut
<1>5. ASSUME NEW w \in [Segs -> Int]
      PROVE  SentSum(u, w) = SentSum(t, w) /\ Sum(rl \o segs, w) = Sum(rl, w) + Sum(segs, w)
  <2>1. Sum(rl \o segs, w) = Sum(rl, w) + Sum(segs, w)
    BY SumConcat
  <2>2. /\ Sum(wo, w) \in Int /\ Sum(ao, w) \in Int /\ Sum(segs, w) \in Int /\ Sum(rl, w) \in Int
        /\ Sum(t.wait_list, w) \in Int /\ Sum(t.ack_list, w) \in Int
    BY <1>1, TxFields, SumType
  <2>3. Sum(wo, w) + Sum(ao, w) + Sum(segs, w) = Sum(t.wait_list, w) + Sum(t.ack_list, w)
    OBVIOUS
  <2>4. SentSum(u, w) = Sum(wo, w) + Sum(rl \o segs, w) + Sum(ao, w)
    BY <1>3 DEF SentSum
  <2>5. SentSum(t, w) = Sum(t.wait_list, w) + Sum(rl, w) + Sum(t.ack_list, w)
    BY <1>2 DEF SentSum
  <2>6. PICK q : q = rl \o segs
    OBVIOUS
  <2>7. SentSum(u, w) = Sum(wo, w) + Sum(q, w) + Sum(ao, w) /\ Sum(q, w) = Sum(rl, w) + Sum(segs, w)
    BY <2>1, <2>4, <2>6
  <2>8. SentSum(u, w) = SentSum(t, w)
    <3>1. PICK a \in Int, b \in Int, c \in Int, d \in Int, e \in Int, f \in Int :
            /\ a = Sum(wo, w) /\ b = Sum(ao, w) /\ c = Sum(segs, w) /\ d = Sum(rl, w)
            /\ e = Sum(t.wait_list, w) /\ f = Sum(t.ack_list, w)
      BY <2>2
    <3>2. a + b + c = e + f /\ SentSum(u, w) = a + (d + c) + b /\ SentSum(t, w) = e + d + f
      BY <2>3, <2>5, <2>7, <3>1
    <3> QED BY <3>2
  <2> QED BY <2>1, <2>8
<1>6. Moved(t, u)
  BY <1>3, <1>4, <1>5 DEF Moved
<1>7. u.bs_retx = Sum(u.retransmit_list, PduW)
  <2>1. Bytes(segs) = Sum(segs, PduW) /\ t.bs_retx = Sum(rl, PduW)
    BY <1>2, BytesIsSum DEF TxInv, TxSizes
  <2> QED BY <1>3, <1>5, <2>1, WeightTypes
<1>8. RetxCounted(t)
  BY DEF TxInv
<1>9. \A i \in SduIds : t.sdu[i].retx_count \in Int /\ t.sdu[i].retx_count >= -1
  BY <1>1, <1>8, TxFields DEF RetxCounted
<1>10. \A i \in SduIds : u.sdu[i].retx_count >= t.sdu[i].retx_count /\ u.sdu[i].retx_count \in Int
  <2> SUFFICES ASSUME NEW i \in SduIds
               PROVE  u.sdu[i].retx_count >= t.sdu[i].retx_count /\ u.sdu[i].retx_count \in Int
    OBVIOUS
  <2>1. PICK c \in Int : c = t.sdu[i].retx_count
    BY <1>9, Zenon
  <2>2. u.sdu[i].retx_count = c + 1 \/ u.sdu[i].retx_count = c
    BY <1>4, <2>1, Zenon
  <2> QED BY <2>1, <2>2
<1>11. ASSUME NEW k \in 1 .. Len(segs) PROVE u.sdu[segs[k].sdu].retx_count >= 0
  <2>1. segs[k].sdu \in SduIds /\ 1 \in 1 .. Len(segs) /\ segs # <<>>
    BY <1>1, SeqFacts
  <2>2. segs[1].sdu = segs[k].sdu
    BY <2>1 DEF OneSdu
  <2>3. upd \/ t.sdu[segs[k].sdu].retx_count >= 0
    BY DEF OneSdu
  <2>4. CASE upd
    <3>1. u.sdu[segs[k].sdu].retx_count = t.sdu[segs[k].sdu].retx_count + 1
      BY <1>4, <2>1, <2>2, <2>4
    <3> QED BY <1>9, <2>1, <3>1
  <2>5. CASE t.sdu[segs[k].sdu].retx_count >= 0
    BY <1>9, <1>10, <2>1, <2>5
  <2> QED BY <2>3, <2>4, <2>5
<1>12. RetxCounted(u)
  <2>1. \A i \in SduIds : u.sdu[i].retx_count >= -1
    BY <1>9, <1>10, SMTT(40)
  <2>2. ASSUME NEW k \in 1 .. Len(rl \o segs) PROVE u.sdu[(rl \o segs)[k].sdu].retx_count >= 0
    <3>1. \/ \E j \in 1 .. Len(rl) : (rl \o segs)[k] = rl[j]
          \/ \E j \in 1 .. Len(segs) : (rl \o segs)[k] = segs[j]
      BY ConcatElements
    <3>2. ASSUME NEW j \in 1 .. Len(rl) PROVE u.sdu[rl[j].sdu].retx_count >= 0
      <4>1. rl[j].sdu \in SduIds
        BY SeqFacts, SegTypes
      <4>2. t.sdu[rl[j].sdu].retx_count >= 0
        BY <1>2, <1>8 DEF RetxCounted
      <4> QED BY <1>9, <1>10, <4>1, <4>2
    <3> QED BY <1>11, <3>1, <3>2
  <2> QED BY <1>3, <2>1, <2>2 DEF RetxCounted
<1>13. \A i \in SduIds \ H : u.sdu[i].retx_count = t.sdu[i].retx_count
  <2> SUFFICES ASSUME NEW i \in SduIds \ H PROVE u.sdu[i].retx_count = t.sdu[i].retx_count
    OBVIOUS
  <2>1. ~(segs # <<>> /\ segs[1].sdu = i)
    <3>1. segs # <<>> => 1 \in 1 .. Len(segs)
      OBVIOUS
    <3> QED BY <3>1
  <2> QED BY <1>4, <2>1
<1>14. TxInv(u, H)
  BY <1>6, <1>7, <1>12, <1>13, MovedKeeps
<1>15. CountsUp(t, u, segs)
  BY <1>2, <1>3, <1>4, <1>10, <1>11 DEF CountsUp
<1> QED BY <1>14, <1>15

\* The set hit is of one SDU, which is counted if it was not yet.
HitsOne(t, hit, upd) ==
  \A s1, s2 \in hit : s1.sdu = s2.sdu /\ (upd \/ t.sdu[s1.sdu].retx_count >= 0)

\* What RetransmitThose does to the counters; what it sends again is in hit.
Resends(t, u, hit) == \E segs \in Seq(Segs) :
  CountsUp(t, u, segs) /\ \A k \in 1 .. Len(segs) : segs[k] \in hit /\ segs[k].sdu \in SduIds

\* Segments that are nacked leave the wait list and the ack list.
LEMMA RetransmitThoseKeeps ==
  ASSUME NEW H, NEW t, TxInv(t, H), NEW hit, NEW upd, HitsOne(t, hit, upd)
  PROVE  /\ TxInv(RetransmitThose(t, hit, upd), H)
         /\ Resends(t, RetransmitThose(t, hit, upd), hit)
<1>1. t \in TxStates /\ H \subseteq SduIds
  BY DEF TxInv, HeldOnly
<1>2. PICK wl \in Seq(Segs), al \in Seq(Segs) : wl = t.wait_list /\ al = t.ack_list
  BY <1>1, TxFields
<1>3. PICK wt \in Seq(Segs), wo \in Seq(Segs), at \in Seq(Segs), ao \in Seq(Segs) :
        /\ wt = Those(wl, hit) /\ wo = Others(wl, hit)
        /\ at = Those(al, hit) /\ ao = Others(al, hit)
  BY ThoseType
<1>4. PICK segs \in Seq(Segs) : segs = wt \o at
  BY ConcatElements
<1>5. PICK v : v = [t EXCEPT !.wait_list = wo, !.ack_list = ao]
  OBVIOUS
<1>6. SameBut(t, v, wo, ao)
  <2>1. v \in TxStates
    BY <1>1, <1>5 DEF TxStates
  <2>2. v.wait_list = wo /\ v.ack_list = ao
    BY <1>1, <1>5 DEF TxStates
  <2>3. /\ v.retransmit_list = t.retransmit_list /\ v.bs_retx = t.bs_retx /\ v.sdu = t.sdu
        /\ v.tx_next = t.tx_next /\ v.tx_next_ack = t.tx_next_ack /\ v.tx_list = t.tx_list
        /\ v.tx_size = t.tx_size /\ v.bs_tx = t.bs_tx
    BY <1>1, <1>5 DEF TxStates
  <2> QED BY <2>1, <2>2, <2>3 DEF SameBut
<1>7. RetransmitThose(t, hit, upd) = consider_retransmission(v, segs, upd)
  BY <1>2, <1>3, <1>4, <1>5 DEF RetransmitThose
<1>8. ASSUME NEW k \in 1 .. Len(segs) PROVE segs[k] \in hit /\ segs[k].sdu \in H
  <2>1. \A j \in 1 .. Len(wt) : wt[j] \in hit /\ \E i \in 1 .. Len(wl) : wt[j] = wl[i]
    BY <1>3, ThoseElements
  <2>2. \A j \in 1 .. Len(at) : at[j] \in hit /\ \E i \in 1 .. Len(al) : at[j] = al[i]
    BY <1>3, ThoseElements
  <2>3. /\ \A i \in 1 .. Len(wl) : wl[i].sdu \in H
        /\ \A i \in 1 .. Len(al) : al[i].sdu \in H
    BY <1>2, InListsHeld
  <2>4. (\E j \in 1 .. Len(wt) : segs[k] = wt[j]) \/ (\E j \in 1 .. Len(at) : segs[k] = at[j])
    <3>1. Joins(wt, at, segs)
      BY <1>4, ConcatJoins
    <3> QED BY <3>1 DEF Joins
  <2> QED BY <2>1, <2>2, <2>3, <2>4, ZenonT(60)
<1>9. OneSdu(t, segs, upd)
  BY <1>8 DEF OneSdu, HitsOne
<1>10. ASSUME NEW w \in [Segs -> Int]
       PROVE  Sum(wo, w) + Sum(ao, w) + Sum(segs, w) = Sum(t.wait_list, w) + Sum(t.ack_list, w)
  <2>1. Sum(wl, w) = Sum(wt, w) + Sum(wo, w) /\ Sum(al, w) = Sum(at, w) + Sum(ao, w)
    BY <1>3, SumSplits
  <2>2. Sum(segs, w) = Sum(wt, w) + Sum(at, w)
    BY <1>4, SumConcat
  <2>3. Sum(wt, w) \in Int /\ Sum(wo, w) \in Int /\ Sum(at, w) \in Int /\ Sum(ao, w) \in Int
    BY SumType
  <2> QED BY <1>2, <2>1, <2>2, <2>3
<1>11. PICK u : u = consider_retransmission(v, segs, upd)
  OBVIOUS
<1>12. TxInv(u, H) /\ CountsUp(t, u, segs)
  BY <1>6, <1>8, <1>9, <1>10, <1>11, ResendKeeps
<1>13. \A k \in 1 .. Len(segs) : segs[k] \in hit /\ segs[k].sdu \in SduIds
  BY <1>1, <1>8
<1> QED BY <1>7, <1>11, <1>12, <1>13 DEF Resends

\* Segments that wait move to the retransmit list.
LEMMA RetransmitWaitingKeeps ==
  ASSUME NEW H, NEW t, TxInv(t, H), NEW hit, HitsOne(t, hit, TRUE)
  PROVE  /\ TxInv(RetransmitWaiting(t, hit, TRUE), H)
         /\ RetransmitWaiting(t, hit, TRUE).tx_size = t.tx_size
<1>1. t \in TxStates /\ H \subseteq SduIds
  BY DEF TxInv, HeldOnly
<1>2. PICK wl \in Seq(Segs), al \in Seq(Segs) : wl = t.wait_list /\ al = t.ack_list
  BY <1>1, TxFields
<1>3. PICK wt \in Seq(Segs), wo \in Seq(Segs) : wt = Those(wl, hit) /\ wo = Others(wl, hit)
  BY ThoseType
<1>5. PICK v : v = [t EXCEPT !.wait_list = wo]
  OBVIOUS
<1>6. SameBut(t, v, wo, al)
  <2>1. v \in TxStates
    BY <1>1, <1>5 DEF TxStates
  <2> QED BY <1>1, <1>2, <1>5, <2>1 DEF SameBut, TxStates
<1>7. RetransmitWaiting(t, hit, TRUE) = consider_retransmission(v, wt, TRUE)
  BY <1>2, <1>3, <1>5 DEF RetransmitWaiting
<1>8. ASSUME NEW k \in 1 .. Len(wt) PROVE wt[k] \in hit /\ wt[k].sdu \in H
  <2>1. wt[k] \in hit /\ \E i \in 1 .. Len(wl) : wt[k] = wl[i]
    BY <1>3, ThoseElements
  <2>3. \A i \in 1 .. Len(wl) : wl[i].sdu \in H
    BY <1>2, InListsHeld
  <2> QED BY <2>1, <2>3
<1>9. OneSdu(t, wt, TRUE)
  BY <1>8 DEF OneSdu, HitsOne
<1>10. ASSUME NEW w \in [Segs -> Int]
       PROVE  Sum(wo, w) + Sum(al, w) + Sum(wt, w) = Sum(t.wait_list, w) + Sum(t.ack_list, w)
  <2>1. Sum(wl, w) = Sum(wt, w) + Sum(wo, w)
    BY <1>3, SumSplits
  <2>3. Sum(wt, w) \in Int /\ Sum(wo, w) \in Int /\ Sum(al, w) \in Int
    BY SumType
  <2> QED BY <1>2, <2>1, <2>3
<1>11. PICK u : u = consider_retransmission(v, wt, TRUE)
  OBVIOUS
<1>12. TxInv(u, H) /\ CountsUp(t, u, wt)
  BY <1>6, <1>8, <1>9, <1>10, <1>11, ResendKeeps
<1> QED BY <1>7, <1>11, <1>12 DEF CountsUp

-----------------------------------------------------------------------------
(* The NACKs of a status PDU. *)

\* The states in which process_received_nack is between two NACKs: what has been
\* sent again has been counted.
NackStates(H, U, z) ==
  {a \in [t : TxStates, sn_set : SUBSET U] :
     /\ TxInv(a.t, H) /\ a.t.tx_size = z
     /\ \A i \in H : a.t.sdu[i].sn \in a.sn_set => a.t.sdu[i].retx_count >= 0}

NackDone(H, z, a, nack_sn, u) ==
  /\ TxInv(u, H) /\ u.tx_size = z
  /\ \A i \in H : a.t.sdu[i].sn \in a.sn_set => u.sdu[i].retx_count >= 0
  /\ \A i \in H : u.sdu[i].sn = a.t.sdu[i].sn
  /\ Len(u.retransmit_list) > Len(a.t.retransmit_list) =>
       \A i \in H : a.t.sdu[i].sn = nack_sn => u.sdu[i].retx_count >= 0

\* process_nack_sn keeps the invariant.
LEMMA ProcessNackKeeps ==
  ASSUME NEW H, NEW U, NEW z, NEW a \in NackStates(H, U, z), NEW nack_sn, NEW s, NEW e
  PROVE  NackDone(H, z, a, nack_sn, process_nack_sn(a.t, nack_sn, s, e, nack_sn \notin a.sn_set))
<1>0. PICK u : u = process_nack_sn(a.t, nack_sn, s, e, nack_sn \notin a.sn_set)
  OBVIOUS
<1> SUFFICES NackDone(H, z, a, nack_sn, u)
  BY <1>0
<1>1. PICK t : t = a.t
  OBVIOUS
<1>2. /\ t \in TxStates /\ TxInv(t, H) /\ t.tx_size = z
      /\ \A i \in H : t.sdu[i].sn \in a.sn_set => t.sdu[i].retx_count >= 0
  BY <1>1 DEF NackStates
<1>3. PICK upd : upd = (nack_sn \notin a.sn_set)
  OBVIOUS
<1> DEFINE hit == {seg \in ToSet(t.wait_list) \cup ToSet(t.ack_list) :
                     /\ SnOf(t, seg) = nack_sn
                     /\ so_overlap(s, e, seg.so, seg.so + seg.size - 1)}
<1>4. H \subseteq SduIds /\ t.wait_list \in Seq(Segs) /\ t.ack_list \in Seq(Segs)
  BY <1>2, TxFields DEF TxInv, HeldOnly
<1>5. \A seg \in hit : seg.sdu \in H /\ t.sdu[seg.sdu].sn = nack_sn /\ nack_sn # -1
  <2>1. ASSUME NEW seg \in hit PROVE seg.sdu \in H /\ SnOf(t, seg) # -1
    <3>1. /\ \A k \in 1 .. Len(t.wait_list) : t.wait_list[k].sdu \in H /\ SnOf(t, t.wait_list[k]) # -1
          /\ \A k \in 1 .. Len(t.ack_list) : t.ack_list[k].sdu \in H /\ SnOf(t, t.ack_list[k]) # -1
      BY <1>2, InListsHeld
    <3>2. \/ \E k \in 1 .. Len(t.wait_list) : seg = t.wait_list[k]
          \/ \E k \in 1 .. Len(t.ack_list) : seg = t.ack_list[k]
      <4>1. DOMAIN t.wait_list = 1 .. Len(t.wait_list) /\ DOMAIN t.ack_list = 1 .. Len(t.ack_list)
        BY <1>4, SeqFacts
      <4> QED BY <4>1 DEF ToSet
    <3> QED BY <3>1, <3>2
  <2>2. ASSUME NEW seg \in hit PROVE SnOf(t, seg) = nack_sn
    OBVIOUS
  <2> QED BY <2>1, <2>2 DEF SnOf
<1>6. \A i, j \in H : t.sdu[i].sn # -1 /\ t.sdu[i].sn = t.sdu[j].sn => i = j
  BY <1>2 DEF TxInv, Numbered
<1> HIDE DEF hit
<1>7. HitsOne(t, hit, upd)
  <2> SUFFICES ASSUME NEW s1 \in hit, NEW s2 \in hit
               PROVE  s1.sdu = s2.sdu /\ (upd \/ t.sdu[s1.sdu].retx_count >= 0)
    BY DEF HitsOne
  <2>1. s1.sdu = s2.sdu
    BY <1>5, <1>6
  <2>2. upd \/ t.sdu[s1.sdu].retx_count >= 0
    BY <1>2, <1>3, <1>5
  <2> QED BY <2>1, <2>2
<1>8. u = t \/ u = RetransmitThose(t, hit, upd)
  BY <1>0, <1>1, <1>3 DEF process_nack_sn, hit
<1>9. CASE u = t
  <2>1. PICK m \in Nat : m = Len(t.retransmit_list)
    BY <1>2, TxFields, SeqFacts
  <2>2. ~(Len(u.retransmit_list) > Len(t.retransmit_list))
    BY <1>9, <2>1
  <2> QED BY <1>1, <1>2, <1>9, <2>2 DEF NackDone
<1>10. CASE u = RetransmitThose(t, hit, upd)
  <2>1. TxInv(u, H) /\ Resends(t, u, hit)
    BY <1>2, <1>7, <1>10, RetransmitThoseKeeps
  <2>2. PICK segs \in Seq(Segs) :
          CountsUp(t, u, segs) /\ \A k \in 1 .. Len(segs) : segs[k] \in hit /\ segs[k].sdu \in SduIds
    BY <2>1 DEF Resends
  <2>3. \A i \in SduIds : u.sdu[i].sn = t.sdu[i].sn /\ u.sdu[i].retx_count >= t.sdu[i].retx_count
    BY <2>2 DEF CountsUp
  <2>4. \A i \in SduIds : t.sdu[i].retx_count \in Int /\ u.sdu[i].retx_count \in Int
    BY <1>2, <2>1, TxFields DEF TxInv
  <2>5. \A i \in H : t.sdu[i].sn \in a.sn_set => u.sdu[i].retx_count >= 0
    BY <1>2, <1>4, <2>3, <2>4
  <2>6. ASSUME Len(u.retransmit_list) > Len(t.retransmit_list), NEW i \in H, t.sdu[i].sn = nack_sn
        PROVE  u.sdu[i].retx_count >= 0
    <3>1. PICK rl \in Seq(Segs) : rl = t.retransmit_list
      BY <1>2, TxFields
    <3>2. u.retransmit_list = rl \o segs /\ Len(rl \o segs) = Len(rl) + Len(segs)
      BY <2>2, <3>1, ConcatProperties DEF CountsUp
    <3>3. Len(rl) \in Nat /\ Len(segs) \in Nat
      BY SeqFacts
    <3>4. 1 \in 1 .. Len(segs)
      BY <2>6, <3>1, <3>2, <3>3
    <3>5. segs[1].sdu \in H /\ t.sdu[segs[1].sdu].sn = nack_sn /\ nack_sn # -1
      BY <1>5, <2>2, <3>4
    <3>6. segs[1].sdu = i
      BY <1>6, <2>6, <3>5
    <3> QED BY <2>2, <3>4, <3>6 DEF CountsUp
  <2>7. u.tx_size = z
    BY <1>2, <2>2 DEF CountsUp
  <2> QED BY <1>1, <1>4, <2>1, <2>3, <2>5, <2>6, <2>7 DEF NackDone
<1> QED BY <1>8, <1>9, <1>10

\* One sequence number of a NACK.
LEMMA NackStepKeeps ==
  ASSUME NEW H, NEW U, NEW z, NEW a \in NackStates(H, U, z), NEW n, n.sn \in U
  PROVE  NackStep(a, n) \in NackStates(H, U, z)
<1>1. PICK u : u = process_nack_sn(a.t, n.sn, n.so_start, n.so_end, n.sn \notin a.sn_set)
  OBVIOUS
<1>2. /\ TxInv(u, H) /\ u.tx_size = z
      /\ \A i \in H : a.t.sdu[i].sn \in a.sn_set => u.sdu[i].retx_count >= 0
      /\ \A i \in H : u.sdu[i].sn = a.t.sdu[i].sn
      /\ Len(u.retransmit_list) > Len(a.t.retransmit_list) =>
           \A i \in H : a.t.sdu[i].sn = n.sn => u.sdu[i].retx_count >= 0
  <2>1. NackDone(H, z, a, n.sn, u)
    BY <1>1, ProcessNackKeeps, Zenon
  <2> QED BY <2>1 DEF NackDone
<1>3. PICK S : S = IF Len(u.retransmit_list) > Len(a.t.retransmit_list)
                   THEN a.sn_set \cup {n.sn} ELSE a.sn_set
  OBVIOUS
<1>4. S \in SUBSET U
  BY <1>3 DEF NackStates
<1>5. \A i \in H : u.sdu[i].sn \in S => u.sdu[i].retx_count >= 0
  BY <1>2, <1>3
<1>6. u \in TxStates
  BY <1>2 DEF TxInv
<1>7. NackStep(a, n) = [t |-> u, sn_set |-> S]
  BY <1>1, <1>3 DEF NackStep, CountOnce
<1>8. PICK b : b = [t |-> u, sn_set |-> S]
  OBVIOUS
<1>9. b \in [t : TxStates, sn_set : SUBSET U] /\ b.t = u /\ b.sn_set = S
  BY <1>4, <1>6, <1>8
<1>10. b \in NackStates(H, U, z)
  BY <1>2, <1>5, <1>9 DEF NackStates
<1> QED BY <1>7, <1>8, <1>10

EachStep(t, l, f) ==
  [n \in 0 .. Len(l) |-> IF n = 0 THEN [t |-> t, sn_set |-> {}] ELSE NackStep(f[n - 1], l[n])]

\* All the sequence numbers of the NACKs, one after the other.
LEMMA ProcessEachKeeps ==
  ASSUME NEW H, NEW t, TxInv(t, H), NEW l, Len(l) \in Nat
  PROVE  TxInv(ProcessEach(t, l), H) /\ ProcessEach(t, l).tx_size = t.tx_size
<1> DEFINE n == Len(l)
           U == {l[i].sn : i \in 1 .. n}
           X == NackStates(H, U, t.tx_size)
           x0 == [t |-> t, sn_set |-> {}]
           F == [i \in 1 .. n |-> [x \in X |-> NackStep(x, l[i])]]
<1>1. n \in Nat /\ n \in 0 .. n
  OBVIOUS
<1>2. x0 \in X
  <2>1. t \in TxStates
    BY DEF TxInv
  <2>2. PICK b : b = x0
    OBVIOUS
  <2>3. b \in [t : TxStates, sn_set : SUBSET U] /\ b.t = t /\ b.sn_set = {}
    BY <2>1, <2>2
  <2>4. b \in NackStates(H, U, t.tx_size)
    BY <2>3 DEF NackStates
  <2> QED BY <2>2, <2>4
<1>3. \A i \in 1 .. n, x \in X : NackStep(x, l[i]) \in X
  <2> SUFFICES ASSUME NEW i \in 1 .. n, NEW x \in X PROVE NackStep(x, l[i]) \in X
    OBVIOUS
  <2>1. l[i].sn \in U
    OBVIOUS
  <2> HIDE DEF U
  <2> QED BY <2>1, NackStepKeeps
<1> HIDE DEF X, U, x0
<1>4. F \in [1 .. n -> [X -> X]]
  BY <1>3
<1>5. PICK f \in [0 .. n -> X] : Iterates(F, x0, n, f)
  <2> HIDE DEF F, n
  <2> QED BY <1>1, <1>2, <1>4, RecursionExists
<1>6. f[0] = x0 /\ \A i \in 1 .. n : f[i] = NackStep(f[i - 1], l[i])
  <2>1. f[0] = x0 /\ \A i \in 1 .. n : f[i] = F[i][f[i - 1]]
    <3> HIDE DEF F, n
    <3> QED BY <1>5 DEF Iterates
  <2>2. \A i \in 1 .. n : i - 1 \in 0 .. n
    BY <1>1
  <2> QED BY <1>1, <1>5, <2>1, <2>2
<1>7. f = EachStep(t, l, f)
  <2>1. \A i \in 0 .. n : f[i] = IF i = 0 THEN x0 ELSE NackStep(f[i - 1], l[i])
    <3> HIDE DEF F
    <3> QED BY <1>1, <1>6
  <2>2. f = [i \in 0 .. n |-> f[i]]
    BY <1>5
  <2> QED BY <2>1, <2>2 DEF EachStep, x0
<1>8. PICK g : g = CHOOSE h : h = EachStep(t, l, h)
  OBVIOUS
<1>9. g = EachStep(t, l, g)
  BY <1>7, <1>8
<1>10. ProcessEach(t, l) = g[n].t
  BY <1>8, Zenon DEF ProcessEach, EachStep
<1>11. \A i \in 0 .. n : g[i] = IF i = 0 THEN x0 ELSE NackStep(g[i - 1], l[i])
  <2> SUFFICES ASSUME NEW i \in 0 .. n
               PROVE  g[i] = IF i = 0 THEN x0 ELSE NackStep(g[i - 1], l[i])
    OBVIOUS
  <2>1. EachStep(t, l, g)[i] = IF i = 0 THEN x0 ELSE NackStep(g[i - 1], l[i])
    BY DEF EachStep, x0
  <2> QED BY <1>9, <2>1
<1> HIDE DEF F, n
<1>12. g[0] = f[0] /\ \A i \in 1 .. n : g[i - 1] = f[i - 1] => g[i] = f[i]
  BY <1>1, <1>6, <1>11
<1>13. \A i \in 0 .. n : g[i] = f[i]
  BY <1>1, <1>12, RecursionUnique
<1>14. g[n] \in X
  BY <1>1, <1>5, <1>13
<1>15. TxInv(g[n].t, H) /\ g[n].t.tx_size = t.tx_size
  BY <1>14 DEF X, NackStates
<1> QED BY <1>10, <1>15

-----------------------------------------------------------------------------
\* The NACKs that the consistency check of nr_rlc_entity_am_recv_pdu accepts.
NackRecs ==
  {n \in [sn : Sns, range : Nat, so_start : Nat, so_end : Nat \cup {-1}] :
     n.range >= 1 /\ (n.range = 1 => n.so_end = -1 \/ n.so_start <= n.so_end)}

FlatStep(seqs, f) ==
  [i \in 1 .. Len(seqs) |-> IF i = 1 THEN seqs[i] ELSE f[i - 1] \o seqs[i]]

(* FlattenSeq makes a sequence of a sequence of sequences. *)
LEMMA FlattenType ==
  ASSUME NEW Y, NEW seqs \in Seq(Seq(Y))
  PROVE  FlattenSeq(seqs) \in Seq(Y)
<1>1. Len(seqs) \in Nat /\ \A i \in 1 .. Len(seqs) : seqs[i] \in Seq(Y)
  BY SeqFacts
<1>2. CASE Len(seqs) = 0
  <2>1. seqs = <<>>
    BY <1>2, SeqFacts
  <2>2. FlattenSeq(seqs) = <<>>
    BY <1>2, <2>1 DEF FlattenSeq
  <2> QED BY <2>2
<1>3. CASE Len(seqs) # 0
  <2> DEFINE n == Len(seqs) - 1
             F == [i \in 1 .. n |-> [x \in Seq(Y) |-> x \o seqs[i + 1]]]
  <2>1. n \in Nat /\ n + 1 = Len(seqs) /\ 1 \in 1 .. Len(seqs)
    BY <1>1, <1>3
  <2>2. \A i \in 1 .. n : i + 1 \in 1 .. Len(seqs)
    BY <2>1
  <2>3. F \in [1 .. n -> [Seq(Y) -> Seq(Y)]]
    <3>1. \A i \in 1 .. n, x \in Seq(Y) : x \o seqs[i + 1] \in Seq(Y)
      BY <1>1, <2>2, ConcatProperties
    <3> QED BY <3>1
  <2>4. PICK x0 \in Seq(Y) : x0 = seqs[1]
    BY <1>1, <2>1
  <2>5. PICK f \in [0 .. n -> Seq(Y)] : Iterates(F, x0, n, f)
    <3> HIDE DEF F, n
    <3> QED BY <2>1, <2>3, <2>4, RecursionExists
  <2>6. f[0] = x0 /\ \A i \in 1 .. n : f[i] = f[i - 1] \o seqs[i + 1]
    <3>1. f[0] = x0 /\ \A i \in 1 .. n : f[i] = F[i][f[i - 1]]
      <4> HIDE DEF F, n
      <4> QED BY <2>5 DEF Iterates
    <3>2. \A i \in 1 .. n : i - 1 \in 0 .. n
      BY <2>1
    <3>3. ASSUME NEW i \in 1 .. n PROVE f[i] = f[i - 1] \o seqs[i + 1]
      <4>1. PICK x \in Seq(Y) : x = f[i - 1]
        BY <2>5, <3>2
      <4>2. F[i][x] = x \o seqs[i + 1]
        OBVIOUS
      <4> HIDE DEF F, n
      <4> QED BY <3>1, <4>1, <4>2
    <3> QED BY <3>1, <3>3
  <2> DEFINE h == [i \in 1 .. Len(seqs) |-> f[i - 1]]
  <2>7. \A i \in 1 .. Len(seqs) : h[i] = f[i - 1] /\ h[i] \in Seq(Y)
    <3>1. \A i \in 1 .. Len(seqs) : i - 1 \in 0 .. n
      BY <2>1
    <3> QED BY <2>5, <3>1
  <2>8. h = [i \in 1 .. Len(seqs) |-> h[i]]
    OBVIOUS
  <2> HIDE DEF h, F
  <2>9. \A i \in 1 .. Len(seqs) : h[i] = IF i = 1 THEN seqs[i] ELSE h[i - 1] \o seqs[i]
    <3> SUFFICES ASSUME NEW i \in 1 .. Len(seqs)
                 PROVE  h[i] = IF i = 1 THEN seqs[i] ELSE h[i - 1] \o seqs[i]
      OBVIOUS
    <3>1. CASE i = 1
      <4>1. h[1] = f[1 - 1] /\ 1 - 1 = 0
        BY <2>1, <2>7
      <4>2. h[1] = seqs[1]
        BY <2>4, <2>6, <4>1
      <4> QED BY <3>1, <4>2
    <3>2. CASE i # 1
      <4>1. PICK j \in 1 .. n : i = j + 1 /\ i - 1 = j /\ j \in 1 .. Len(seqs)
        BY <1>1, <2>1, <3>2
      <4>2. h[i] = f[j] /\ h[j] = f[j - 1]
        BY <2>7, <4>1
      <4>3. f[j] = f[j - 1] \o seqs[i]
        BY <2>6, <4>1
      <4>4. h[i] = h[i - 1] \o seqs[i]
        BY <4>1, <4>2, <4>3
      <4> QED BY <3>2, <4>4
    <3> QED BY <3>1, <3>2
  <2>10. h = FlatStep(seqs, h)
    BY <2>8, <2>9 DEF FlatStep
  <2>11. PICK g : g = CHOOSE e : e = FlatStep(seqs, e)
    OBVIOUS
  <2>12. g = FlatStep(seqs, g)
    BY <2>10, <2>11
  <2>13. FlattenSeq(seqs) = g[Len(seqs)]
    BY <1>3, <2>11, Zenon DEF FlattenSeq, FlatStep
  <2>14. \A i \in 1 .. Len(seqs) : g[i] = IF i = 1 THEN seqs[i] ELSE g[i - 1] \o seqs[i]
    <3> SUFFICES ASSUME NEW i \in 1 .. Len(seqs)
                 PROVE  g[i] = IF i = 1 THEN seqs[i] ELSE g[i - 1] \o seqs[i]
      OBVIOUS
    <3>1. FlatStep(seqs, g)[i] = IF i = 1 THEN seqs[i] ELSE g[i - 1] \o seqs[i]
      BY DEF FlatStep
    <3> QED BY <2>12, <3>1
  <2> DEFINE G == {m \in 0 .. n : g[m + 1] \in Seq(Y)}
  <2>15. 0 \in G
    <3>1. g[1] = seqs[1] /\ 0 + 1 = 1 /\ 0 \in 0 .. n
      BY <2>1, <2>14
    <3> QED BY <2>4, <3>1
  <2>16. ASSUME NEW m \in 1 .. n, m - 1 \in G PROVE m \in G
    <3>1. m - 1 + 1 = m /\ m + 1 # 1 /\ m + 1 - 1 = m /\ m + 1 \in 1 .. Len(seqs) /\ m \in 0 .. n
      BY <2>1
    <3>2. g[m] \in Seq(Y)
      BY <2>16, <3>1
    <3>3. g[m + 1] = g[m] \o seqs[m + 1]
      <4>1. PICK j \in 1 .. Len(seqs) : j = m + 1 /\ j # 1 /\ j - 1 = m
        BY <3>1
      <4>2. g[j] = g[j - 1] \o seqs[j]
        BY <2>14, <4>1
      <4> QED BY <4>1, <4>2
    <3>4. g[m + 1] \in Seq(Y)
      <4>1. PICK a \in Seq(Y), b \in Seq(Y) : a = g[m] /\ b = seqs[m + 1]
        BY <1>1, <3>1, <3>2
      <4>2. a \o b \in Seq(Y)
        BY ConcatProperties
      <4> QED BY <3>3, <4>1, <4>2
    <3> QED BY <3>1, <3>4
  <2> HIDE DEF G, n
  <2>17. \A i \in 0 .. n : i \in G
    BY <2>1, <2>15, <2>16, PlaceInduction
  <2>18. n \in G
    BY <2>1, <2>17
  <2>19. g[n + 1] \in Seq(Y)
    BY <2>18 DEF G
  <2> QED BY <2>1, <2>13, <2>19
<1> QED BY <1>2, <1>3

\* The NACKs written out, one sequence number each, are a finite list.
LEMMA NackedIsSeq ==
  ASSUME NEW nacks \in Seq(NackRecs)
  PROVE  Len(Nacked(nacks)) \in Nat
<1> DEFINE Y == [sn : Sns, so_start : Nat, so_end : Nat \cup {-1}]
           one(k) == [i \in 1 .. nacks[k].range |->
                        [sn |-> (nacks[k].sn + i - 1) % SnModulus,
                         so_start |-> IF i = 1 THEN nacks[k].so_start ELSE 0,
                         so_end |-> IF i = nacks[k].range THEN nacks[k].so_end ELSE -1]]
           seqs == [k \in 1 .. Len(nacks) |-> one(k)]
<1>1. Len(nacks) \in Nat /\ DOMAIN nacks = 1 .. Len(nacks)
  BY SeqFacts
<1>2. \A k \in 1 .. Len(nacks) : nacks[k] \in NackRecs
  BY SeqFacts
<1>3. ASSUME NEW k \in 1 .. Len(nacks) PROVE one(k) \in Seq(Y)
  <2>1. PICK n \in NackRecs : n = nacks[k]
    BY <1>2
  <2>2. n.sn \in Sns /\ n.range \in Nat /\ n.so_start \in Nat /\ n.so_end \in Nat \cup {-1}
    BY DEF NackRecs
  <2>3. \A i \in 1 .. n.range : (n.sn + i - 1) % SnModulus \in Sns
    BY <2>2, Constants
  <2>4. ASSUME NEW i \in 1 .. n.range
        PROVE  [sn |-> (n.sn + i - 1) % SnModulus,
                so_start |-> IF i = 1 THEN n.so_start ELSE 0,
                so_end |-> IF i = n.range THEN n.so_end ELSE -1] \in Y
    <3>1. PICK a \in Sns, b \in Nat, c \in Nat \cup {-1} :
            /\ a = (n.sn + i - 1) % SnModulus
            /\ b = IF i = 1 THEN n.so_start ELSE 0
            /\ c = IF i = n.range THEN n.so_end ELSE -1
      BY <2>2, <2>3
    <3>2. [sn |-> a, so_start |-> b, so_end |-> c] \in Y
      OBVIOUS
    <3> QED BY <3>1, <3>2
  <2>5. one(k) = [i \in 1 .. n.range |-> [sn |-> (n.sn + i - 1) % SnModulus,
                so_start |-> IF i = 1 THEN n.so_start ELSE 0,
                so_end |-> IF i = n.range THEN n.so_end ELSE -1]]
    BY <2>1
  <2>6. PICK m \in Nat : m = n.range
    BY <2>2
  <2> HIDE DEF Y, one
  <2>7. one(k) \in [1 .. m -> Y]
    BY <2>4, <2>5, <2>6, ZenonT(60)
  <2> QED BY <2>6, <2>7, SeqDef
<1>4. seqs \in Seq(Seq(Y))
  <2> HIDE DEF one, Y
  <2> QED BY <1>1, <1>3
<1>5. Nacked(nacks) = FlattenSeq(seqs)
  BY <1>1 DEF Nacked
<1> HIDE DEF seqs, Y
<1>6. FlattenSeq(seqs) \in Seq(Y)
  BY <1>4, FlattenType
<1> QED BY <1>5, <1>6, SeqFacts

\* The NACKs of a status PDU keep the invariant.
LEMMA ProcessNacksKeeps ==
  ASSUME NEW H, NEW t, TxInv(t, H), NEW nacks \in Seq(NackRecs)
  PROVE  TxInv(ProcessNacks(t, nacks), H) /\ ProcessNacks(t, nacks).tx_size = t.tx_size
<1>1. PICK l : l = Nacked(nacks)
  OBVIOUS
<1>2. Len(l) \in Nat
  BY <1>1, NackedIsSeq
<1>3. TxInv(ProcessEach(t, l), H) /\ ProcessEach(t, l).tx_size = t.tx_size
  BY <1>2, ProcessEachKeeps
<1> QED BY <1>1, <1>3 DEF ProcessNacks

-----------------------------------------------------------------------------
(* Sequence numbers: the place of a in the order that starts at b. *)
Off(b, a) == (a - b) % SnModulus

Plus(a, n) == (a + n) % SnModulus

\* The distance from b to a around the sequence numbers, without the remainder.
LEMMA OffIs ==
  ASSUME NEW b \in Sns, NEW a \in Sns
  PROVE  Off(b, a) = (IF a >= b THEN a - b ELSE a - b + SnModulus) /\ Off(b, a) \in Sns
BY Constants DEF Off

\* A sequence number moved forward, without the remainder.
LEMMA PlusIs ==
  ASSUME NEW a \in Sns, NEW n \in Nat, n <= SnModulus
  PROVE  /\ Plus(a, n) = (IF a + n < SnModulus THEN a + n ELSE a + n - SnModulus)
         /\ Plus(a, n) \in Sns
BY Constants DEF Plus

\* The sequence number before a.
LEMMA LessOne ==
  ASSUME NEW a \in Sns
  PROVE  /\ (a - 1) % SnModulus = (IF a = 0 THEN SnModulus - 1 ELSE a - 1)
         /\ (a - 1) % SnModulus \in Sns
BY Constants

\* Only a itself is at distance 0.
LEMMA OffSelf ==
  ASSUME NEW b \in Sns, NEW a \in Sns
  PROVE  Off(b, b) = 0 /\ (Off(b, a) = 0 => a = b)
<1>1. Off(b, b) = (IF b >= b THEN b - b ELSE b - b + SnModulus)
  BY OffIs
<1>2. Off(b, a) = (IF a >= b THEN a - b ELSE a - b + SnModulus)
  BY OffIs
<1> QED BY <1>1, <1>2, Constants

\* Sequence numbers at the same distance are equal.
LEMMA OffInjective ==
  ASSUME NEW b \in Sns, NEW a1 \in Sns, NEW a2 \in Sns, Off(b, a1) = Off(b, a2)
  PROVE  a1 = a2
<1>1. Off(b, a1) = (IF a1 >= b THEN a1 - b ELSE a1 - b + SnModulus)
  BY OffIs
<1>2. Off(b, a2) = (IF a2 >= b THEN a2 - b ELSE a2 - b + SnModulus)
  BY OffIs
<1>3. PICK c \in Int, m \in Int : c = Off(b, a1) /\ c = Off(b, a2) /\ m = SnModulus
  BY OffIs, Constants
<1>4. a1 \in 0 .. m - 1 /\ a2 \in 0 .. m - 1 /\ b \in 0 .. m - 1
  BY <1>3, Constants
<1>5. c = (IF a1 >= b THEN a1 - b ELSE a1 - b + m) /\ c = (IF a2 >= b THEN a2 - b ELSE a2 - b + m)
  BY <1>1, <1>2, <1>3
<1> QED BY <1>3, <1>4, <1>5

\* The distance of a sequence number moved forward.
LEMMA OffPlus ==
  ASSUME NEW b \in Sns, NEW a \in Sns, NEW n \in Nat, n <= SnModulus
  PROVE  Off(b, Plus(a, n)) = IF Off(b, a) + n < SnModulus THEN Off(b, a) + n
                              ELSE Off(b, a) + n - SnModulus
<1>1. PICK p \in Sns : p = Plus(a, n)
  BY PlusIs
<1>2. p = (IF a + n < SnModulus THEN a + n ELSE a + n - SnModulus)
  BY <1>1, PlusIs
<1>3. Off(b, a) = (IF a >= b THEN a - b ELSE a - b + SnModulus)
  BY OffIs
<1>4. Off(b, p) = (IF p >= b THEN p - b ELSE p - b + SnModulus)
  BY OffIs
<1>5. Off(b, p) = IF Off(b, a) + n < SnModulus THEN Off(b, a) + n
                  ELSE Off(b, a) + n - SnModulus
  BY <1>2, <1>3, <1>4, Constants
<1> QED BY <1>1, <1>5

\* The distance from a base moved forward.
LEMMA OffShift ==
  ASSUME NEW b \in Sns, NEW a \in Sns, NEW c \in Nat, c <= SnModulus
  PROVE  Off(Plus(b, c), a) = IF c <= Off(b, a) THEN Off(b, a) - c
                              ELSE Off(b, a) - c + SnModulus
<1>1. PICK p \in Sns : p = Plus(b, c)
  BY PlusIs
<1>2. p = (IF b + c < SnModulus THEN b + c ELSE b + c - SnModulus)
  BY <1>1, PlusIs
<1>3. Off(b, a) = (IF a >= b THEN a - b ELSE a - b + SnModulus)
  BY OffIs
<1>4. Off(p, a) = (IF a >= p THEN a - p ELSE a - p + SnModulus)
  BY OffIs
<1>5. Off(p, a) = IF c <= Off(b, a) THEN Off(b, a) - c ELSE Off(b, a) - c + SnModulus
  BY <1>2, <1>3, <1>4, Constants
<1> QED BY <1>1, <1>5

-----------------------------------------------------------------------------
(* finalize_ack_nack_processing *)

(* No segment of an SDU is in a list. *)
LEMMA NoneOf ==
  ASSUME NEW l \in Seq(Segs), NEW i
  PROVE  /\ Sum(l, Of(i)) \in Nat
         /\ Sum(l, Of(i)) = 0 <=> \A k \in 1 .. Len(l) : l[k].sdu # i
<1>1. /\ Sum(l, Of(i)) \in Nat
      /\ Sum(l, Of(i)) = 0 <=> \A k \in 1 .. Len(l) : l[k] \notin {s \in Segs : s.sdu = i}
  BY CountZero DEF Of
<1>2. \A k \in 1 .. Len(l) : l[k] \in Segs
  BY SeqFacts
<1> QED BY <1>1, <1>2

\* The SDU i is whole in the ack list.
WholeInAck(t, i) ==
  /\ Sum(t.tx_list, Of(i)) = 0 /\ Sum(t.wait_list, Of(i)) = 0
  /\ Sum(t.retransmit_list, Of(i)) = 0

\* sdu_segment_in_ack_list_full: all the segments of the SDU are acknowledged.
LEMMA FullMeans ==
  ASSUME NEW H, NEW t, TxInv(t, H), NEW sn \in Sns, sdu_segment_in_ack_list_full(t, sn)
  PROVE  \E i \in H : /\ t.sdu[i].sn = sn /\ WholeInAck(t, i)
                      /\ \E k \in 1 .. Len(t.ack_list) : t.ack_list[k].sdu = i
                      /\ Off(t.tx_next_ack, sn) < Off(t.tx_next_ack, t.tx_next)
<1>1. t \in TxStates /\ H \subseteq SduIds
  BY DEF TxInv, HeldOnly
<1>2. PICK al \in Seq(Segs) : al = t.ack_list
  BY <1>1, TxFields
<1>3. DOMAIN al = 1 .. Len(al) /\ \A k \in 1 .. Len(al) : al[k] \in Segs
  BY SeqFacts
<1>4. InAckList(t, sn) = {k \in 1 .. Len(al) : t.sdu[al[k].sdu].sn = sn}
  BY <1>2, <1>3 DEF InAckList, SnOf
<1>5. PICK k \in 1 .. Len(al) :
        t.sdu[al[k].sdu].sn = sn /\ Cardinality(InAckList(t, sn)) = t.sdu[al[k].sdu].ref_count
  BY <1>2, <1>4 DEF sdu_segment_in_ack_list_full
<1>6. \A j \in 1 .. Len(al) : al[j].sdu \in H
  BY <1>2, InListsHeld
<1>7. PICK i \in H : i = al[k].sdu
  BY <1>6
<1>8. sn # -1
  BY Constants
<1>9. \A i1, i2 \in H : t.sdu[i1].sn # -1 /\ t.sdu[i1].sn = t.sdu[i2].sn => i1 = i2
  BY DEF TxInv, Numbered
<1>10. InAckList(t, sn) = Places(al, {s \in Segs : s.sdu = i})
  <2>1. \A j \in 1 .. Len(al) : t.sdu[al[j].sdu].sn = sn <=> al[j].sdu = i
    BY <1>5, <1>6, <1>7, <1>8, <1>9
  <2> QED BY <1>3, <1>4, <2>1 DEF Places
<1>11. t.sdu[i].ref_count = Sum(al, Of(i))
  <2>1. Cardinality(Places(al, {s \in Segs : s.sdu = i})) = Sum(al, Ind(Segs, {s \in Segs : s.sdu = i}))
    BY CountIsSum
  <2> QED BY <1>5, <1>7, <1>10, <2>1 DEF Of
<1>12. t.sdu[i].ref_count = AllSum(t, Of(i))
  BY DEF TxInv, Partitioned
<1>13. WholeInAck(t, i)
  <2>1. t.tx_list \in Seq(Segs) /\ t.wait_list \in Seq(Segs) /\ t.retransmit_list \in Seq(Segs)
    BY <1>1, TxFields
  <2>2. PICK a \in Nat, b \in Nat, c \in Nat, d \in Nat :
          /\ a = Sum(t.tx_list, Of(i)) /\ b = Sum(t.wait_list, Of(i))
          /\ c = Sum(t.retransmit_list, Of(i)) /\ d = Sum(al, Of(i))
    BY <2>1, NoneOf
  <2>3. a + (b + c + d) = d
    BY <1>2, <1>11, <1>12, <2>2 DEF AllSum, SentSum
  <2>4. a = 0 /\ b = 0 /\ c = 0
    BY <2>3
  <2> QED BY <2>2, <2>4 DEF WholeInAck
<1>14. Off(t.tx_next_ack, sn) < Off(t.tx_next_ack, t.tx_next)
  <2>1. \/ t.sdu[i].sn = -1
        \/ modulus_tx(t, t.sdu[i].sn) < modulus_tx(t, t.tx_next)
        \/ t.tx_list # <<>> /\ t.tx_list[1].sdu = i /\ t.sdu[i].sn = t.tx_next
    BY DEF TxInv, Numbered
  <2>2. ~(t.tx_list # <<>> /\ t.tx_list[1].sdu = i)
    <3>1. t.tx_list \in Seq(Segs)
      BY <1>1, TxFields
    <3>2. \A j \in 1 .. Len(t.tx_list) : t.tx_list[j].sdu # i
      BY <1>13, <3>1, NoneOf DEF WholeInAck
    <3>3. t.tx_list # <<>> => 1 \in 1 .. Len(t.tx_list)
      BY <3>1
    <3> QED BY <3>2, <3>3
  <2> QED BY <1>5, <1>7, <1>8, <2>1, <2>2 DEF modulus_tx, Off
<1> QED BY <1>2, <1>5, <1>7, <1>13, <1>14

\* Every SDU below the number confirmed is acknowledged in full.
LEMMA ConfirmedIs ==
  ASSUME NEW H, NEW t, TxInv(t, H)
  PROVE  /\ Confirmed(t) \in Nat /\ Confirmed(t) <= Off(t.tx_next_ack, t.tx_next)
         /\ \A j \in 0 .. Confirmed(t) - 1 :
              sdu_segment_in_ack_list_full(t, Plus(t.tx_next_ack, j))
<1> DEFINE I == {n \in 0 .. SnModulus - 1 :
                   \A j \in 0 .. n - 1 :
                      sdu_segment_in_ack_list_full(t, (t.tx_next_ack + j) % SnModulus)}
<1>1. t.tx_next_ack \in Sns /\ t.tx_next \in Sns
  BY TxFields DEF TxInv
<1>2. SnModulus - 1 \in Nat /\ I \subseteq 0 .. SnModulus - 1 /\ 0 \in I
  BY Constants
<1>3. Confirmed(t) = Max(I)
  BY DEF Confirmed
<1>4. Max(I) \in I
  <2> HIDE DEF I
  <2> QED BY <1>2, MaxIs
<1>5. PICK c \in I : c = Confirmed(t)
  BY <1>3, <1>4
<1>6. c \in Nat /\ c <= SnModulus - 1
  BY <1>2
<1>7. ASSUME NEW j \in 0 .. c - 1 PROVE sdu_segment_in_ack_list_full(t, Plus(t.tx_next_ack, j))
  BY DEF Plus
<1> HIDE DEF I
<1>8. c <= Off(t.tx_next_ack, t.tx_next)
  <2>1. Off(t.tx_next_ack, t.tx_next) \in Sns
    BY <1>1, OffIs
  <2>2. CASE c = 0
    BY <2>1, <2>2, Constants
  <2>3. CASE c # 0
    <3>1. PICK j \in 0 .. c - 1 : j = c - 1 /\ j \in Nat /\ j <= SnModulus - 2
      <4>1. c - 1 \in 0 .. c - 1 /\ c - 1 \in Nat /\ c - 1 <= SnModulus - 2
        BY <1>6, <2>3, Constants
      <4> QED BY <4>1
    <3>0. j <= SnModulus
      BY <3>1, Constants
    <3>2. PICK sn \in Sns : sn = Plus(t.tx_next_ack, j)
      BY <1>1, <3>0, <3>1, PlusIs
    <3>3. Off(t.tx_next_ack, sn) < Off(t.tx_next_ack, t.tx_next)
      <4>1. sdu_segment_in_ack_list_full(t, sn)
        BY <1>7, <3>1, <3>2
      <4> QED BY <4>1, FullMeans
    <3>4. Off(t.tx_next_ack, sn) = j
      <4>1. Off(t.tx_next_ack, t.tx_next_ack) = 0
        BY <1>1, OffSelf
      <4>2. j <= SnModulus /\ 0 + j < SnModulus
        BY <3>1, Constants
      <4>3. PICK b \in Sns : b = t.tx_next_ack
        BY <1>1
      <4>4. Off(b, Plus(b, j)) = IF Off(b, b) + j < SnModulus THEN Off(b, b) + j
                                 ELSE Off(b, b) + j - SnModulus
        BY <3>1, <4>2, OffPlus
      <4> QED BY <3>1, <3>2, <4>1, <4>2, <4>3, <4>4
    <3>5. PICK o \in Int : o = Off(t.tx_next_ack, t.tx_next)
      BY <2>1, Constants
    <3>6. j < o
      BY <3>3, <3>4, <3>5
    <3>7. c <= o
      BY <1>6, <3>1, <3>6
    <3> QED BY <3>5, <3>7
  <2> QED BY <2>2, <2>3
<1> QED BY <1>5, <1>6, <1>7, <1>8

\* What is freed was held, and is nowhere but in the ack list.
LEMMA FreedFacts ==
  ASSUME NEW H, NEW t, TxInv(t, H)
  PROVE  /\ ConfirmedSdus(t) \subseteq H
         /\ \A i \in ConfirmedSdus(t) : WholeInAck(t, i)
         /\ \A i \in H \ ConfirmedSdus(t) :
              t.sdu[i].sn = -1 \/ Off(t.tx_next_ack, t.sdu[i].sn) >= Confirmed(t)
<1>1. t \in TxStates /\ H \subseteq SduIds /\ t.tx_next_ack \in Sns
  BY TxFields DEF TxInv, HeldOnly
<1>2. PICK al \in Seq(Segs) : al = t.ack_list
  BY <1>1, TxFields
<1>3. DOMAIN al = 1 .. Len(al)
  BY SeqFacts
<1>4. PICK c \in Nat : c = Confirmed(t)
  BY ConfirmedIs
<1>5. ConfirmedSdus(t) = {i \in SduIds : \E k \in 1 .. Len(al) :
                            al[k].sdu = i /\ Off(t.tx_next_ack, t.sdu[i].sn) < c}
  BY <1>2, <1>3, <1>4 DEF ConfirmedSdus, SdusBelow, modulus_tx, Off
<1>6. \A k \in 1 .. Len(al) : al[k].sdu \in H /\ t.sdu[al[k].sdu].sn # -1
  BY <1>2, InListsHeld DEF SnOf
<1>7. \A i \in H : t.sdu[i].sn \in Sns \cup {-1}
  BY <1>1, TxFields
<1>8. \A i, j \in H : t.sdu[i].sn # -1 /\ t.sdu[i].sn = t.sdu[j].sn => i = j
  BY DEF TxInv, Numbered
<1>9. ASSUME NEW i \in H, t.sdu[i].sn # -1, Off(t.tx_next_ack, t.sdu[i].sn) < c
      PROVE  WholeInAck(t, i) /\ \E k \in 1 .. Len(al) : al[k].sdu = i
  <2>1. PICK sn \in Sns : sn = t.sdu[i].sn
    BY <1>7, <1>9
  <2>0. Off(t.tx_next_ack, sn) \in Sns
    BY <1>1, OffIs
  <2>2. PICK j \in Nat : j = Off(t.tx_next_ack, sn) /\ j <= SnModulus - 1
    BY <2>0, Constants
  <2>3. Plus(t.tx_next_ack, j) = sn
    <3>1. j <= SnModulus /\ 0 + j < SnModulus
      BY <2>2, Constants
    <3>2. Plus(t.tx_next_ack, j) \in Sns
      BY <1>1, <3>1, PlusIs
    <3>3. Off(t.tx_next_ack, t.tx_next_ack) = 0
      BY <1>1, OffSelf
    <3>4. Off(t.tx_next_ack, Plus(t.tx_next_ack, j)) = j
      BY <1>1, <3>1, <3>3, OffPlus
    <3> QED BY <1>1, <2>2, <3>2, <3>4, OffInjective
  <2>4. sdu_segment_in_ack_list_full(t, sn)
    <3>1. j \in 0 .. c - 1
      BY <1>9, <2>1, <2>2
    <3> QED BY <1>4, <2>3, <3>1, ConfirmedIs
  <2>5. PICK i2 \in H : /\ t.sdu[i2].sn = sn /\ WholeInAck(t, i2)
                        /\ \E k \in 1 .. Len(t.ack_list) : t.ack_list[k].sdu = i2
    BY <2>4, FullMeans
  <2>6. i2 = i
    BY <1>8, <1>9, <2>1, <2>5
  <2> QED BY <1>2, <2>5, <2>6
<1>10. ConfirmedSdus(t) \subseteq H /\ \A i \in ConfirmedSdus(t) : t.sdu[i].sn # -1
  BY <1>5, <1>6
<1>11. ASSUME NEW i \in ConfirmedSdus(t) PROVE WholeInAck(t, i)
  BY <1>5, <1>9, <1>10
<1>12. ASSUME NEW i \in H \ ConfirmedSdus(t), t.sdu[i].sn # -1
       PROVE  Off(t.tx_next_ack, t.sdu[i].sn) >= c
  <2>1. ~(Off(t.tx_next_ack, t.sdu[i].sn) < c)
    BY <1>1, <1>5, <1>9, <1>12
  <2>2. Off(t.tx_next_ack, t.sdu[i].sn) \in Sns
    BY <1>1, <1>7, <1>12, OffIs
  <2> QED BY <2>1, <2>2, Constants
<1> QED BY <1>4, <1>10, <1>11, <1>12

-----------------------------------------------------------------------------
\* The fields that freeing the confirmed SDUs changes.
LEMMA FreeFields ==
  ASSUME NEW H, NEW t, TxInv(t, H), NEW freed, freed \subseteq SduIds, NEW u, u = Free(t, freed)
  PROVE  /\ u \in TxStates
         /\ u.tx_next = t.tx_next /\ u.tx_list = t.tx_list
         /\ u.tx_next_ack = Plus(t.tx_next_ack, Confirmed(t))
         /\ u.wait_list = t.wait_list /\ u.retransmit_list = t.retransmit_list
         /\ u.ack_list = Others(t.ack_list, SegmentsOf(t.ack_list, freed))
         /\ u.tx_size = t.tx_size - SduSize * Cardinality(freed)
         /\ u.bs_tx = t.bs_tx /\ u.bs_retx = t.bs_retx
         /\ \A i \in SduIds : u.sdu[i] = IF i \in freed THEN FreshSdu ELSE t.sdu[i]
<1>1. t \in TxStates
  BY DEF TxInv
<1>2. PICK al \in Seq(Segs) : al = Others(t.ack_list, SegmentsOf(t.ack_list, freed))
  BY <1>1, TxFields, ThoseType
<1>3. PICK n \in Int : n = SduSize * Cardinality(freed)
  <2>1. IsFiniteSet(SduIds)
    BY Constants, FS_Interval
  <2>2. IsFiniteSet(freed)
    BY <2>1, FS_Subset
  <2>3. Cardinality(freed) \in Nat
    BY <2>2, FS_CardinalityType
  <2> QED BY <2>3, Constants
<1>4. PICK a \in Sns : a = Plus(t.tx_next_ack, Confirmed(t))
  <2>1. Confirmed(t) \in Nat /\ Confirmed(t) <= Off(t.tx_next_ack, t.tx_next)
    BY ConfirmedIs
  <2>2. t.tx_next_ack \in Sns /\ t.tx_next \in Sns
    BY <1>1, TxFields
  <2>3. Off(t.tx_next_ack, t.tx_next) \in Sns
    BY <2>2, OffIs
  <2>4. Confirmed(t) <= SnModulus
    BY <2>1, <2>3, Constants
  <2> QED BY <2>1, <2>2, <2>4, PlusIs
<1>5. PICK f : f = [i \in SduIds |-> IF i \in freed THEN FreshSdu ELSE t.sdu[i]]
  OBVIOUS
<1>6. FreshSdu \in SduRecs
  BY DEF FreshSdu, SduRecs
<1>7. \A i \in SduIds : t.sdu[i] \in SduRecs
  BY <1>1, TxFields
<1>8. f \in [SduIds -> SduRecs] /\ \A i \in SduIds : f[i] = IF i \in freed THEN FreshSdu ELSE t.sdu[i]
  BY <1>5, <1>6, <1>7
<1>9. u = [t EXCEPT !.ack_list = al, !.tx_size = t.tx_size - n, !.tx_next_ack = a, !.sdu = f]
  BY <1>2, <1>3, <1>4, <1>5 DEF Free, Plus
<1>10. u \in TxStates
  <2>1. t.tx_size - n \in Int
    BY <1>1, TxFields
  <2> QED BY <1>1, <1>8, <1>9, <2>1 DEF TxStates
<1>11. /\ u.tx_next = t.tx_next /\ u.tx_list = t.tx_list /\ u.tx_next_ack = a
       /\ u.wait_list = t.wait_list /\ u.retransmit_list = t.retransmit_list
       /\ u.ack_list = al /\ u.tx_size = t.tx_size - n
       /\ u.bs_tx = t.bs_tx /\ u.bs_retx = t.bs_retx /\ u.sdu = f
  BY <1>1, <1>9 DEF TxStates
<1> QED BY <1>2, <1>3, <1>4, <1>8, <1>10, <1>11

(* Numbers that are confirmed leave the window, the others move down. *)
LEMMA FreeKeeps ==
  ASSUME NEW H, NEW t, TxInv(t, H), NEW freed, freed = ConfirmedSdus(t), NEW u, u = Free(t, freed)
  PROVE  TxInv(u, H \ freed) /\ u.tx_size = t.tx_size - SduSize * Cardinality(freed)
<1>1. t \in TxStates /\ H \subseteq SduIds
  BY DEF TxInv, HeldOnly
<1>2. /\ freed \subseteq H /\ \A i \in freed : WholeInAck(t, i)
      /\ \A i \in H \ freed :
           t.sdu[i].sn = -1 \/ Off(t.tx_next_ack, t.sdu[i].sn) >= Confirmed(t)
  BY FreedFacts
<1>3. PICK S : S = SegmentsOf(t.ack_list, freed)
  OBVIOUS
<1>4. /\ u \in TxStates
      /\ u.tx_next = t.tx_next /\ u.tx_list = t.tx_list
      /\ u.tx_next_ack = Plus(t.tx_next_ack, Confirmed(t))
      /\ u.wait_list = t.wait_list /\ u.retransmit_list = t.retransmit_list
      /\ u.ack_list = Others(t.ack_list, S)
      /\ u.tx_size = t.tx_size - SduSize * Cardinality(freed)
      /\ u.bs_tx = t.bs_tx /\ u.bs_retx = t.bs_retx
      /\ \A i \in SduIds : u.sdu[i] = IF i \in freed THEN FreshSdu ELSE t.sdu[i]
  <2>1. freed \subseteq SduIds
    BY <1>1, <1>2
  <2> QED BY <1>3, <2>1, FreeFields
<1>5. PICK tl \in Seq(Segs), wl \in Seq(Segs), rl \in Seq(Segs), al \in Seq(Segs) :
        tl = t.tx_list /\ wl = t.wait_list /\ rl = t.retransmit_list /\ al = t.ack_list
  BY <1>1, TxFields
<1>6. PICK at \in Seq(Segs), ao \in Seq(Segs) : at = Those(al, S) /\ ao = Others(al, S)
  BY ThoseType
<1>7. S = {s \in ToSet(al) : s.sdu \in freed}
  BY <1>3, <1>5 DEF SegmentsOf
<1>8. \A k \in 1 .. Len(al) : al[k] \in S <=> al[k].sdu \in freed
  <2>1. \A k \in 1 .. Len(al) : al[k] \in ToSet(al)
    BY SeqFacts DEF ToSet
  <2> QED BY <1>7, <2>1
<1>9. /\ \A k \in 1 .. Len(at) : at[k].sdu \in freed
      /\ \A k \in 1 .. Len(ao) : ao[k].sdu \notin freed /\ \E j \in 1 .. Len(al) : ao[k] = al[j]
  <2>1. \A k \in 1 .. Len(at) : at[k] \in S /\ \E i \in 1 .. Len(al) : at[k] = al[i]
    BY <1>6, ThoseElements
  <2>2. \A k \in 1 .. Len(ao) : ao[k] \notin S /\ \E i \in 1 .. Len(al) : ao[k] = al[i]
    BY <1>6, ThoseElements
  <2> QED BY <1>8, <2>1, <2>2
<1>10. ASSUME NEW w \in [Segs -> Int], \A s \in Segs : s.sdu \in freed => w[s] = 0
       PROVE  AllSum(u, w) = AllSum(t, w)
  <2>1. Sum(al, w) = Sum(at, w) + Sum(ao, w)
    BY <1>6, SumSplits
  <2>2. \A k \in 1 .. Len(at) : w[at[k]] = 0
    BY <1>9, <1>10, SeqFacts
  <2>3. Sum(at, w) = 0
    BY <2>2, SumZero
  <2>4. Sum(ao, w) \in Int
    BY SumType
  <2>5. Sum(al, w) = Sum(ao, w)
    BY <2>1, <2>3, <2>4
  <2> QED BY <1>4, <1>5, <1>6, <2>5 DEF AllSum, SentSum
<1>11. ASSUME NEW i, i \notin freed
       PROVE  AllSum(u, Of(i)) = AllSum(t, Of(i)) /\ \A b : AllSum(u, Covers(i, b)) = AllSum(t, Covers(i, b))
  <2>1. ASSUME NEW P, \A s \in Segs : s.sdu \in freed => s \notin P
        PROVE  AllSum(u, Ind(Segs, P)) = AllSum(t, Ind(Segs, P))
    <3>1. PICK w \in [Segs -> Int] : w = Ind(Segs, P)
      BY IndType
    <3>2. \A s \in Segs : s.sdu \in freed => w[s] = 0
      BY <2>1, <3>1, IndType
    <3> QED BY <1>10, <3>1, <3>2
  <2>2. AllSum(u, Of(i)) = AllSum(t, Of(i))
    <3>1. PICK P : P = {s \in Segs : s.sdu = i}
      OBVIOUS
    <3>2. \A s \in Segs : s.sdu \in freed => s \notin P
      BY <1>11, <3>1
    <3> QED BY <2>1, <3>1, <3>2 DEF Of
  <2>3. ASSUME NEW b PROVE AllSum(u, Covers(i, b)) = AllSum(t, Covers(i, b))
    <3>1. PICK P : P = {s \in Segs : s.sdu = i /\ s.so <= b /\ b < s.so + s.size}
      OBVIOUS
    <3>2. \A s \in Segs : s.sdu \in freed => s \notin P
      BY <1>11, <3>1
    <3> QED BY <2>1, <3>1, <3>2 DEF Covers
  <2> QED BY <2>2, <2>3
<1>12. Partitioned(u, H \ freed)
  <2> SUFFICES ASSUME NEW i \in H \ freed
               PROVE  /\ \A b \in 0 .. SduSize - 1 : AllSum(u, Covers(i, b)) = 1
                      /\ u.sdu[i].ref_count = AllSum(u, Of(i))
    BY DEF Partitioned
  <2>1. /\ \A b \in 0 .. SduSize - 1 : AllSum(t, Covers(i, b)) = 1
        /\ t.sdu[i].ref_count = AllSum(t, Of(i))
    BY DEF TxInv, Partitioned
  <2>2. u.sdu[i] = t.sdu[i]
    BY <1>1, <1>4
  <2> QED BY <1>11, <2>1, <2>2
<1>13. HeldOnly(u, H \ freed)
  <2>1. ASSUME NEW i \in SduIds \ H PROVE AllSum(u, Of(i)) = 0 /\ u.sdu[i] = FreshSdu
    <3>1. i \notin freed /\ AllSum(t, Of(i)) = 0 /\ t.sdu[i] = FreshSdu
      BY <1>2 DEF TxInv, HeldOnly
    <3> QED BY <1>4, <1>11, <3>1
  <2>2. ASSUME NEW i \in freed PROVE AllSum(u, Of(i)) = 0 /\ u.sdu[i] = FreshSdu
    <3>1. \A k \in 1 .. Len(ao) : ao[k].sdu # i
      BY <1>9
    <3>2. Sum(ao, Of(i)) = 0
      BY <3>1, NoneOf
    <3>3. Sum(tl, Of(i)) = 0 /\ Sum(wl, Of(i)) = 0 /\ Sum(rl, Of(i)) = 0
      BY <1>2, <1>5 DEF WholeInAck
    <3>4. AllSum(u, Of(i)) = Sum(tl, Of(i)) + (Sum(wl, Of(i)) + Sum(rl, Of(i)) + Sum(ao, Of(i)))
      BY <1>4, <1>5, <1>6 DEF AllSum, SentSum
    <3> QED BY <1>1, <1>2, <1>4, <3>2, <3>3, <3>4
  <2> QED BY <1>1, <2>1, <2>2 DEF HeldOnly
<1>14. TxListOrder(u)
  BY <1>4 DEF TxInv, TxListOrder
<1>15. /\ \A k \in 1 .. Len(tl) : tl[k].sdu \in H \ freed
       /\ \A k \in 1 .. Len(wl) : wl[k].sdu \in H \ freed /\ t.sdu[wl[k].sdu].sn # -1
       /\ \A k \in 1 .. Len(rl) : rl[k].sdu \in H \ freed /\ t.sdu[rl[k].sdu].sn # -1
       /\ \A k \in 1 .. Len(ao) : ao[k].sdu \in H \ freed /\ t.sdu[ao[k].sdu].sn # -1
  <2>1. /\ \A k \in 1 .. Len(tl) : tl[k].sdu \in H
        /\ \A k \in 1 .. Len(wl) : wl[k].sdu \in H /\ t.sdu[wl[k].sdu].sn # -1
        /\ \A k \in 1 .. Len(rl) : rl[k].sdu \in H /\ t.sdu[rl[k].sdu].sn # -1
        /\ \A k \in 1 .. Len(al) : al[k].sdu \in H /\ t.sdu[al[k].sdu].sn # -1
    BY <1>5, InListsHeld DEF SnOf
  <2>2. ASSUME NEW i \in freed
        PROVE  /\ \A k \in 1 .. Len(tl) : tl[k].sdu # i
               /\ \A k \in 1 .. Len(wl) : wl[k].sdu # i
               /\ \A k \in 1 .. Len(rl) : rl[k].sdu # i
    BY <1>2, <1>5, NoneOf DEF WholeInAck
  <2> QED BY <1>9, <2>1, <2>2, ZenonT(60)
<1>16. \A i \in H \ freed : u.sdu[i] = t.sdu[i]
  BY <1>1, <1>4
<1>17. PICK c \in Nat, d \in Nat :
         c = Confirmed(t) /\ d = Off(t.tx_next_ack, t.tx_next) /\ c <= d /\ d < SnModulus
  <2>1. Confirmed(t) \in Nat /\ Confirmed(t) <= Off(t.tx_next_ack, t.tx_next)
    BY ConfirmedIs
  <2>2. t.tx_next_ack \in Sns /\ t.tx_next \in Sns
    BY <1>1, TxFields
  <2>3. Off(t.tx_next_ack, t.tx_next) \in Sns
    BY <2>2, OffIs
  <2>4. Off(t.tx_next_ack, t.tx_next) \in Nat /\ Off(t.tx_next_ack, t.tx_next) < SnModulus
    BY <2>3, Constants
  <2> QED BY <2>1, <2>4
<1>18. PICK b \in Sns : b = t.tx_next_ack
  BY <1>1, TxFields
<1>19. \A a \in Sns : Off(b, a) >= c => Off(u.tx_next_ack, a) = Off(b, a) - c
  <2> SUFFICES ASSUME NEW a \in Sns, Off(b, a) >= c PROVE Off(u.tx_next_ack, a) = Off(b, a) - c
    OBVIOUS
  <2>1. c <= SnModulus
    BY <1>17, Constants
  <2>2. Off(Plus(b, c), a) = IF c <= Off(b, a) THEN Off(b, a) - c ELSE Off(b, a) - c + SnModulus
    BY <2>1, OffShift
  <2>3. c <= Off(b, a)
    <3>1. Off(b, a) \in Sns
      BY OffIs
    <3> QED BY <3>1, Constants
  <2> QED BY <1>4, <1>17, <1>18, <2>2, <2>3
<1>20. Off(u.tx_next_ack, u.tx_next) = d - c
  <2>1. u.tx_next \in Sns
    BY <1>4, TxFields
  <2> QED BY <1>4, <1>17, <1>18, <1>19, <2>1
<1>21. Numbered(u, H \ freed)
  <2>1. ASSUME NEW i \in H \ freed
        PROVE  \/ u.sdu[i].sn = -1
               \/ modulus_tx(u, u.sdu[i].sn) < modulus_tx(u, u.tx_next)
               \/ /\ u.tx_list # <<>> /\ u.tx_list[1].sdu = i
                  /\ u.sdu[i].sn = u.tx_next
    <3>1. \/ t.sdu[i].sn = -1
          \/ modulus_tx(t, t.sdu[i].sn) < modulus_tx(t, t.tx_next)
          \/ /\ t.tx_list # <<>> /\ t.tx_list[1].sdu = i
             /\ t.sdu[i].sn = t.tx_next
      BY DEF TxInv, Numbered
    <3>2. ASSUME t.sdu[i].sn # -1, modulus_tx(t, t.sdu[i].sn) < modulus_tx(t, t.tx_next)
          PROVE  modulus_tx(u, t.sdu[i].sn) < modulus_tx(u, u.tx_next)
      <4>1. PICK sn \in Sns : sn = t.sdu[i].sn
        BY <1>1, <3>2, TxFields
      <4>2. PICK o \in Int : o = Off(b, sn)
        <5>1. b \in Sns /\ Off(b, sn) \in Sns
          BY <1>18, OffIs
        <5> QED BY <5>1, Constants
      <4>3. o >= c /\ o < d
        BY <1>2, <1>17, <1>18, <3>2, <4>1, <4>2 DEF modulus_tx, Off
      <4>4. Off(u.tx_next_ack, sn) = o - c
        BY <1>19, <4>2, <4>3
      <4>5. o - c < d - c
        BY <4>3
      <4> QED BY <1>20, <4>1, <4>4, <4>5 DEF modulus_tx, Off
    <3> QED BY <1>4, <1>16, <3>1, <3>2
  <2>2. \A k \in 1 .. Len(u.tx_list) :
          u.sdu[u.tx_list[k].sdu].sn = IF u.tx_list[k].first THEN -1 ELSE u.tx_next
    <3>1. \A k \in 1 .. Len(t.tx_list) :
            t.sdu[t.tx_list[k].sdu].sn = IF t.tx_list[k].first THEN -1 ELSE t.tx_next
      BY DEF TxInv, Numbered
    <3>2. \A k \in 1 .. Len(tl) : u.sdu[tl[k].sdu] = t.sdu[tl[k].sdu]
      BY <1>15, <1>16
    <3>3. ASSUME NEW k \in 1 .. Len(tl) PROVE u.sdu[tl[k].sdu].sn = t.sdu[tl[k].sdu].sn
      BY <3>2
    <3>4. \A k \in 1 .. Len(tl) :
            u.sdu[tl[k].sdu].sn = IF tl[k].first THEN -1 ELSE t.tx_next
      BY <1>5, <3>1, <3>3, Zenon
    <3> QED BY <1>4, <1>5, <3>4
  <2>3. \A i, j \in H \ freed : u.sdu[i].sn # -1 /\ u.sdu[i].sn = u.sdu[j].sn => i = j
    <3>1. \A i, j \in H : t.sdu[i].sn # -1 /\ t.sdu[i].sn = t.sdu[j].sn => i = j
      BY DEF TxInv, Numbered
    <3> SUFFICES ASSUME NEW i \in H \ freed, NEW j \in H \ freed, u.sdu[i].sn # -1,
                        u.sdu[i].sn = u.sdu[j].sn
                 PROVE  i = j
      BY Zenon
    <3>2. u.sdu[i] = t.sdu[i] /\ u.sdu[j] = t.sdu[j]
      BY <1>16
    <3> QED BY <3>1, <3>2, Zenon
  <2>4. SentSum(u, Unnumbered(u.sdu)) = 0
    <3>1. ASSUME NEW l \in Seq(Segs),
                 \A k \in 1 .. Len(l) : l[k].sdu \in H \ freed /\ t.sdu[l[k].sdu].sn # -1
          PROVE  Sum(l, Unnumbered(u.sdu)) = 0
      <4>1. \A k \in 1 .. Len(l) : u.sdu[l[k].sdu].sn # -1
        BY <1>16, <3>1
      <4>2. \A k \in 1 .. Len(l) : l[k] \notin {s \in Segs : u.sdu[s.sdu].sn = -1}
        BY <4>1
      <4> QED BY <4>2, CountZero DEF Unnumbered
    <3>2. /\ Sum(wl, Unnumbered(u.sdu)) = 0 /\ Sum(rl, Unnumbered(u.sdu)) = 0
          /\ Sum(ao, Unnumbered(u.sdu)) = 0
      BY <1>15, <3>1
    <3> QED BY <1>4, <1>5, <1>6, <3>2 DEF SentSum
  <2> QED BY <2>1, <2>2, <2>3, <2>4 DEF Numbered
<1>22. TxWindow(u)
  <2>1. d <= WindowSize
    BY <1>17 DEF TxInv, TxWindow, modulus_tx, Off
  <2>2. d - c <= WindowSize
    BY <1>17, <2>1, Constants
  <2> QED BY <1>20, <2>2 DEF TxWindow, modulus_tx, Off
<1>23. TxSizes(u)
  BY <1>4 DEF TxInv, TxSizes
<1>24. RetxCounted(u)
  <2>1. \A i \in SduIds : u.sdu[i].retx_count >= -1
    <3>1. \A i \in SduIds : t.sdu[i].retx_count >= -1
      BY DEF TxInv, RetxCounted
    <3>2. ASSUME NEW i \in SduIds PROVE u.sdu[i].retx_count >= -1
      <4>1. CASE i \in freed
        <5>1. u.sdu[i] = FreshSdu
          BY <1>4, <4>1
        <5> QED BY <5>1 DEF FreshSdu
      <4>2. CASE i \notin freed
        <5>1. u.sdu[i] = t.sdu[i]
          BY <1>4, <4>2
        <5> QED BY <5>1, <3>1
      <4> QED BY <4>1, <4>2
    <3> QED BY <3>2
  <2>2. \A k \in 1 .. Len(rl) : u.sdu[rl[k].sdu].retx_count >= 0
    BY <1>5, <1>15, <1>16 DEF TxInv, RetxCounted
  <2> QED BY <1>4, <1>5, <2>1, <2>2 DEF RetxCounted
<1>25. TxInv(u, H \ freed)
  BY <1>4, <1>12, <1>13, <1>14, <1>21, <1>22, <1>23, <1>24 DEF TxInv
<1> QED BY <1>4, <1>25

(* The control part of nr_rlc_entity_am_recv_pdu. *)
LEMMA StatusKeeps ==
  ASSUME NEW H, NEW t, TxInv(t, H), NEW s, s.nacks \in Seq(NackRecs), NEW v, v = AfterAckNack(t, s)
  PROVE  /\ TxInv(finalize_ack_nack_processing(v), H \ ConfirmedSdus(v))
         /\ ConfirmedSdus(v) \subseteq H
         /\ finalize_ack_nack_processing(v).tx_size =
              t.tx_size - SduSize * Cardinality(ConfirmedSdus(v))
<1>1. PICK p : p = [t EXCEPT !.polling = @ /\ ~AnswersPoll(t, s)]
  OBVIOUS
<1>2. t \in TxStates
  BY DEF TxInv
<1>3. PICK ans \in BOOLEAN : ans = (t.polling /\ ~AnswersPoll(t, s))
  OBVIOUS
<1>4. p = [t EXCEPT !.polling = ans]
  BY <1>1, <1>3
<1>5. TxInv(p, H) /\ p.tx_size = t.tx_size
  <2>1. p \in TxStates
    BY <1>2, <1>4 DEF TxStates
  <2>2. /\ p.tx_next = t.tx_next /\ p.tx_next_ack = t.tx_next_ack /\ p.tx_list = t.tx_list
        /\ p.wait_list = t.wait_list /\ p.retransmit_list = t.retransmit_list
        /\ p.ack_list = t.ack_list /\ p.tx_size = t.tx_size
        /\ p.bs_tx = t.bs_tx /\ p.bs_retx = t.bs_retx /\ p.sdu = t.sdu
    BY <1>2, <1>4 DEF TxStates
  <2>3. Moved(t, p)
    BY <2>1, <2>2 DEF Moved, SentSum
  <2>4. RetxCounted(p) /\ p.bs_retx = Sum(p.retransmit_list, PduW)
    BY <2>2 DEF TxInv, RetxCounted, TxSizes
  <2> QED BY <2>2, <2>3, <2>4, MovedKeeps
<1>6. PICK a : a = process_received_ack(p, s.ack_sn)
  OBVIOUS
<1>7. TxInv(a, H) /\ a.tx_size = t.tx_size
  BY <1>5, <1>6, AckKeeps
<1>8. PICK nacks \in Seq(NackRecs) : nacks = s.nacks
  OBVIOUS
<1>9. v = ProcessNacks(a, nacks)
  BY <1>1, <1>6, <1>8 DEF AfterAckNack
<1>10. TxInv(v, H) /\ v.tx_size = t.tx_size
  BY <1>7, <1>9, ProcessNacksKeeps
<1>11. PICK freed : freed = ConfirmedSdus(v)
  OBVIOUS
<1>12. PICK u : u = Free(v, freed)
  OBVIOUS
<1>13. TxInv(u, H \ freed) /\ u.tx_size = v.tx_size - SduSize * Cardinality(freed)
  <2>1. TxInv(v, H)
    BY <1>10
  <2>2. \A e, f, x, y : TxInv(x, e) /\ f = ConfirmedSdus(x) /\ y = Free(x, f)
          => TxInv(y, e \ f) /\ y.tx_size = x.tx_size - SduSize * Cardinality(f)
    BY FreeKeeps
  <2> QED BY <1>11, <1>12, <2>1, <2>2
<1>14. freed \subseteq H
  BY <1>10, <1>11, FreedFacts
<1> QED BY <1>10, <1>11, <1>12, <1>13, <1>14 DEF finalize_ack_nack_processing

-----------------------------------------------------------------------------
\* The weights of one segment.
LEMMA WeightsOf ==
  ASSUME NEW s \in Segs, NEW i
  PROVE  /\ Of(i)[s] = IF s.sdu = i THEN 1 ELSE 0
         /\ \A b : Covers(i, b)[s] = IF s.sdu = i /\ s.so <= b /\ b < s.so + s.size THEN 1 ELSE 0
<1>1. Of(i)[s] = IF s \in {x \in Segs : x.sdu = i} THEN 1 ELSE 0
  BY IndType DEF Of
<1>2. ASSUME NEW b
      PROVE  Covers(i, b)[s] = IF s.sdu = i /\ s.so <= b /\ b < s.so + s.size THEN 1 ELSE 0
  <2>1. Covers(i, b)[s] =
          IF s \in {x \in Segs : x.sdu = i /\ x.so <= b /\ b < x.so + x.size} THEN 1 ELSE 0
    BY IndType DEF Covers
  <2> QED BY <2>1
<1> QED BY <1>1, <1>2

\* No segment of an SDU covers no byte of it.
LEMMA NoneCovers ==
  ASSUME NEW l \in Seq(Segs), NEW i, Sum(l, Of(i)) = 0, NEW b
  PROVE  Sum(l, Covers(i, b)) = 0
<1>1. \A k \in 1 .. Len(l) : l[k].sdu # i
  BY NoneOf
<1>2. \A k \in 1 .. Len(l) : Covers(i, b)[l[k]] = 0
  BY <1>1, SeqFacts, WeightsOf
<1> QED BY <1>2, SumZero, WeightTypes

\* No segment of an SDU in any of the lists.
LEMMA AllZero ==
  ASSUME NEW t \in TxStates, NEW i
  PROVE  /\ AllSum(t, Of(i)) = 0 <=> /\ Sum(t.tx_list, Of(i)) = 0 /\ Sum(t.wait_list, Of(i)) = 0
                                     /\ Sum(t.retransmit_list, Of(i)) = 0
                                     /\ Sum(t.ack_list, Of(i)) = 0
         /\ AllSum(t, Of(i)) = 0 => \A b : AllSum(t, Covers(i, b)) = 0
<1>1. PICK tl \in Seq(Segs), wl \in Seq(Segs), rl \in Seq(Segs), al \in Seq(Segs) :
        tl = t.tx_list /\ wl = t.wait_list /\ rl = t.retransmit_list /\ al = t.ack_list
  BY TxFields
<1>2. PICK a \in Nat, b \in Nat, c \in Nat, d \in Nat :
        /\ a = Sum(tl, Of(i)) /\ b = Sum(wl, Of(i)) /\ c = Sum(rl, Of(i)) /\ d = Sum(al, Of(i))
  BY NoneOf
<1>3. AllSum(t, Of(i)) = a + (b + c + d)
  BY <1>1, <1>2 DEF AllSum, SentSum
<1>4. AllSum(t, Of(i)) = 0 <=> a = 0 /\ b = 0 /\ c = 0 /\ d = 0
  BY <1>3
<1>5. ASSUME NEW e, AllSum(t, Of(i)) = 0 PROVE AllSum(t, Covers(i, e)) = 0
  <2>1. a = 0 /\ b = 0 /\ c = 0 /\ d = 0
    BY <1>4, <1>5
  <2>2. /\ Sum(tl, Covers(i, e)) = 0 /\ Sum(wl, Covers(i, e)) = 0
        /\ Sum(rl, Covers(i, e)) = 0 /\ Sum(al, Covers(i, e)) = 0
    BY <1>2, <2>1, NoneCovers
  <2> QED BY <1>1, <2>2 DEF AllSum, SentSum
<1> QED BY <1>1, <1>2, <1>4, <1>5

\* The weights depend on the SDUs' sequence numbers only.
LEMMA SameNumbers ==
  ASSUME NEW f, NEW g, \A i \in SduIds : f[i].sn = g[i].sn
  PROVE  Unnumbered(f) = Unnumbered(g)
<1>1. {s \in Segs : f[s.sdu].sn = -1} = {s \in Segs : g[s.sdu].sn = -1}
  BY SegTypes
<1> QED BY <1>1 DEF Unnumbered

(* nr_rlc_entity_am_recv_sdu *)
LEMMA RecvSduKeeps ==
  ASSUME NEW H, NEW t, TxInv(t, H), NEW i \in SduIds \ H, NEW u, u = recv_sdu(t, i)
  PROVE  TxInv(u, H \cup {i}) /\ u.tx_size = t.tx_size + SduSize
<1>1. /\ t \in TxStates /\ H \subseteq SduIds /\ t.sdu[i] = FreshSdu /\ AllSum(t, Of(i)) = 0
  BY DEF TxInv, HeldOnly
<1>2. PICK seg : seg = [sdu |-> i, so |-> 0, size |-> SduSize, first |-> TRUE, last |-> TRUE]
  OBVIOUS
<1>3. /\ seg \in Segs /\ seg.sdu = i /\ seg.so = 0 /\ seg.size = SduSize
      /\ seg.first = TRUE /\ seg.last = TRUE
  BY <1>2, Constants DEF Segs, Segments
<1>4. PICK tl \in Seq(Segs) : tl = t.tx_list
  BY <1>1, TxFields
<1>5. PICK n \in Int : n = PduSize(seg) /\ n = PduW[seg]
  BY <1>3, PduWType
<1>6. PICK one : one = [FreshSdu EXCEPT !.ref_count = 1]
  OBVIOUS
<1>7. one \in SduRecs /\ one.sn = -1 /\ one.ref_count = 1 /\ one.retx_count = -1
  BY <1>6 DEF FreshSdu, SduRecs
<1>8. PICK f : f = [t.sdu EXCEPT ![i] = one]
  OBVIOUS
<1>9. f \in [SduIds -> SduRecs] /\ f[i] = one /\ \A j \in SduIds \ {i} : f[j] = t.sdu[j]
  BY <1>1, <1>7, <1>8, TxFields
<1>10. u = [t EXCEPT !.tx_size = t.tx_size + SduSize, !.tx_list = Append(tl, seg),
                     !.sdu = f, !.bs_tx = t.bs_tx + n]
  BY <1>1, <1>2, <1>4, <1>5, <1>6, <1>8 DEF recv_sdu
<1>11. PICK q \in Seq(Segs) : q = Append(tl, seg)
  <2>1. seg \in Segs
    BY <1>3
  <2> QED BY <2>1, AppendProperties
<1>12. t.tx_size + SduSize \in Int /\ t.bs_tx + n \in Int
  BY <1>1, TxFields, Constants
<1>13. u \in TxStates
  BY <1>1, <1>9, <1>10, <1>11, <1>12 DEF TxStates
<1>14. /\ u.tx_next = t.tx_next /\ u.tx_next_ack = t.tx_next_ack /\ u.tx_list = q
       /\ u.wait_list = t.wait_list /\ u.retransmit_list = t.retransmit_list
       /\ u.ack_list = t.ack_list /\ u.tx_size = t.tx_size + SduSize
       /\ u.bs_tx = t.bs_tx + n /\ u.bs_retx = t.bs_retx /\ u.sdu = f
  BY <1>1, <1>10, <1>11 DEF TxStates
<1>15. /\ Len(q) = Len(tl) + 1 /\ q[Len(tl) + 1] = seg /\ \A k \in 1 .. Len(tl) : q[k] = tl[k]
  BY <1>11
<1>16. ASSUME NEW w \in [Segs -> Int]
       PROVE  AllSum(u, w) = AllSum(t, w) + w[seg] /\ SentSum(u, w) = SentSum(t, w)
  <2>1. SentSum(u, w) = SentSum(t, w)
    BY <1>14 DEF SentSum
  <2>2. Sum(q, w) = Sum(tl, w) + w[seg]
    BY <1>3, <1>11, SumAppend
  <2>3. PICK a \in Int, b \in Int, c \in Int : a = Sum(tl, w) /\ b = SentSum(t, w) /\ c = w[seg]
    BY <1>1, <1>3, <1>4, SentSumType
  <2>4. AllSum(u, w) = (a + c) + b /\ AllSum(t, w) = a + b
    BY <1>4, <1>14, <2>1, <2>2, <2>3 DEF AllSum
  <2> QED BY <2>1, <2>3, <2>4
<1>17. Partitioned(u, H \cup {i})
  <2>1. ASSUME NEW j \in H
        PROVE  /\ \A b \in 0 .. SduSize - 1 : AllSum(u, Covers(j, b)) = 1
               /\ u.sdu[j].ref_count = AllSum(u, Of(j))
    <3>1. /\ \A b \in 0 .. SduSize - 1 : AllSum(t, Covers(j, b)) = 1
          /\ t.sdu[j].ref_count = AllSum(t, Of(j))
      BY DEF TxInv, Partitioned
    <3>2. j # i /\ j \in SduIds
      BY <1>1
    <3>3. u.sdu[j] = t.sdu[j]
      BY <1>9, <1>14, <3>2
    <3>4. Of(j)[seg] = 0 /\ \A b : Covers(j, b)[seg] = 0
      <4>1. seg \in Segs /\ seg.sdu # j
        BY <1>3, <3>2
      <4>2. ASSUME NEW b PROVE Covers(j, b)[seg] = 0
        <5>1. Covers(j, b)[seg] =
                IF seg.sdu = j /\ seg.so <= b /\ b < seg.so + seg.size THEN 1 ELSE 0
          BY <4>1, WeightsOf
        <5> QED BY <4>1, <5>1
      <4> QED BY <4>1, <4>2, WeightsOf
    <3>5. PICK c \in Int : c = AllSum(t, Of(j))
      BY <1>1, WeightTypes, SentSumType
    <3>6. AllSum(u, Of(j)) = c + 0
      BY <1>16, <3>4, <3>5, WeightTypes
    <3>7. ASSUME NEW b \in 0 .. SduSize - 1 PROVE AllSum(u, Covers(j, b)) = 1
      <4>1. AllSum(u, Covers(j, b)) = AllSum(t, Covers(j, b)) + Covers(j, b)[seg]
        BY <1>16, WeightTypes
      <4> QED BY <3>1, <3>4, <4>1
    <3> QED BY <3>1, <3>3, <3>5, <3>6, <3>7
  <2>2. ASSUME NEW b \in 0 .. SduSize - 1 PROVE AllSum(u, Covers(i, b)) = 1
    <3>1. AllSum(u, Covers(i, b)) = AllSum(t, Covers(i, b)) + Covers(i, b)[seg]
      BY <1>16, WeightTypes
    <3>2. AllSum(t, Covers(i, b)) = 0
      BY <1>1, AllZero
    <3>3. Covers(i, b)[seg] = 1
      <4>1. seg \in Segs /\ seg.sdu = i /\ seg.so = 0 /\ seg.size = SduSize
        BY <1>3
      <4>2. Covers(i, b)[seg] =
              IF seg.sdu = i /\ seg.so <= b /\ b < seg.so + seg.size THEN 1 ELSE 0
        BY <4>1, WeightsOf
      <4> QED BY <4>1, <4>2, Constants
    <3> QED BY <3>1, <3>2, <3>3
  <2>3. u.sdu[i].ref_count = AllSum(u, Of(i))
    <3>1. AllSum(u, Of(i)) = AllSum(t, Of(i)) + Of(i)[seg]
      BY <1>16, WeightTypes
    <3>2. Of(i)[seg] = 1
      BY <1>3, WeightsOf
    <3> QED BY <1>1, <1>7, <1>9, <1>14, <3>1, <3>2
  <2> QED BY <2>1, <2>2, <2>3 DEF Partitioned
<1>18. HeldOnly(u, H \cup {i})
  <2>1. ASSUME NEW j \in SduIds \ (H \cup {i}) PROVE AllSum(u, Of(j)) = 0 /\ u.sdu[j] = FreshSdu
    <3>1. AllSum(t, Of(j)) = 0 /\ t.sdu[j] = FreshSdu
      BY DEF TxInv, HeldOnly
    <3>2. Of(j)[seg] = 0
      BY <1>3, WeightsOf
    <3>3. AllSum(u, Of(j)) = AllSum(t, Of(j)) + Of(j)[seg]
      BY <1>16, WeightTypes
    <3> QED BY <1>9, <1>14, <3>1, <3>2, <3>3
  <2> QED BY <1>1, <2>1 DEF HeldOnly
<1>19. /\ \A k \in 1 .. Len(tl) : tl[k].sdu \in H
  BY <1>4, InListsHeld
<1>20. TxListOrder(u)
  <2>1. /\ \A k \in 1 .. Len(tl) : tl[k].last /\ (k # 1 => tl[k].first)
        /\ \A j, k \in 1 .. Len(tl) : tl[j].sdu = tl[k].sdu => j = k
    BY <1>4 DEF TxInv, TxListOrder
  <2>2. \A k \in 1 .. Len(q) : k \in 1 .. Len(tl) \/ k = Len(tl) + 1
    BY <1>15
  <2>3. \A k \in 1 .. Len(q) : q[k].last /\ (k # 1 => q[k].first)
    BY <1>3, <1>15, <2>1, <2>2
  <2>4. ASSUME NEW j \in 1 .. Len(q), NEW k \in 1 .. Len(q), q[j].sdu = q[k].sdu PROVE j = k
    BY <1>3, <1>15, <1>19, <2>1, <2>2, <2>4
  <2> QED BY <1>14, <2>3, <2>4 DEF TxListOrder
<1>21. \A j \in SduIds : u.sdu[j].sn = t.sdu[j].sn
  BY <1>1, <1>7, <1>9, <1>14 DEF FreshSdu
<1>22. Numbered(u, H \cup {i})
  <2>1. ASSUME NEW j \in H \cup {i}
        PROVE  \/ u.sdu[j].sn = -1
               \/ modulus_tx(u, u.sdu[j].sn) < modulus_tx(u, u.tx_next)
               \/ /\ u.tx_list # <<>> /\ u.tx_list[1].sdu = j /\ u.sdu[j].sn = u.tx_next
    <3>1. CASE j = i
      BY <1>7, <1>9, <1>14, <3>1
    <3>2. CASE j \in H
      <4>1. \/ t.sdu[j].sn = -1
            \/ modulus_tx(t, t.sdu[j].sn) < modulus_tx(t, t.tx_next)
            \/ /\ t.tx_list # <<>> /\ t.tx_list[1].sdu = j /\ t.sdu[j].sn = t.tx_next
        BY <3>2 DEF TxInv, Numbered
      <4>2. u.sdu[j].sn = t.sdu[j].sn
        BY <1>1, <1>21, <3>2
      <4>3. tl # <<>> => q # <<>> /\ q[1] = tl[1]
        BY <1>15
      <4>4. \A a : modulus_tx(u, a) = modulus_tx(t, a)
        BY <1>14 DEF modulus_tx
      <4> QED BY <1>4, <1>14, <4>1, <4>2, <4>3, <4>4
    <3> QED BY <3>1, <3>2
  <2>2. ASSUME NEW k \in 1 .. Len(q)
        PROVE  u.sdu[q[k].sdu].sn = IF q[k].first THEN -1 ELSE u.tx_next
    <3>1. CASE k = Len(tl) + 1
      BY <1>3, <1>7, <1>9, <1>14, <1>15, <3>1
    <3>2. CASE k \in 1 .. Len(tl)
      <4>1. t.sdu[tl[k].sdu].sn = IF tl[k].first THEN -1 ELSE t.tx_next
        BY <1>4, <3>2 DEF TxInv, Numbered
      <4>2. u.sdu[tl[k].sdu].sn = t.sdu[tl[k].sdu].sn
        BY <1>1, <1>19, <1>21, <3>2
      <4> QED BY <1>14, <1>15, <3>2, <4>1, <4>2
    <3> QED BY <1>15, <3>1, <3>2
  <2>3. ASSUME NEW j \in H \cup {i}, NEW k \in H \cup {i}, u.sdu[j].sn # -1,
               u.sdu[j].sn = u.sdu[k].sn
        PROVE  j = k
    <3>1. u.sdu[i].sn = -1
      BY <1>7, <1>9, <1>14
    <3>2. j \in H /\ k \in H
      BY <2>3, <3>1
    <3>3. t.sdu[j].sn # -1 /\ t.sdu[j].sn = t.sdu[k].sn
      BY <1>1, <1>21, <2>3, <3>2
    <3> QED BY <3>2, <3>3 DEF TxInv, Numbered
  <2>4. SentSum(u, Unnumbered(u.sdu)) = 0
    <3>1. Unnumbered(u.sdu) = Unnumbered(t.sdu)
      BY <1>21, SameNumbers
    <3>2. SentSum(t, Unnumbered(t.sdu)) = 0
      BY DEF TxInv, Numbered
    <3> QED BY <1>16, <3>1, <3>2, WeightTypes
  <2> QED BY <1>14, <2>1, <2>2, <2>3, <2>4 DEF Numbered
<1>23. TxWindow(u)
  BY <1>14 DEF TxInv, TxWindow, modulus_tx
<1>24. TxSizes(u)
  <2>1. Sum(q, PduW) = Sum(tl, PduW) + PduW[seg]
    BY <1>3, <1>11, SumAppend, WeightTypes
  <2> QED BY <1>4, <1>5, <1>14, <2>1 DEF TxInv, TxSizes
<1>25. RetxCounted(u)
  <2>1. \A j \in SduIds : u.sdu[j].retx_count = t.sdu[j].retx_count
    BY <1>1, <1>7, <1>9, <1>14 DEF FreshSdu
  <2>2. \A k \in 1 .. Len(t.retransmit_list) : t.retransmit_list[k].sdu \in SduIds
    BY <1>1, InListsHeld
  <2> QED BY <1>14, <2>1, <2>2 DEF TxInv, RetxCounted
<1>26. TxInv(u, H \cup {i})
  BY <1>13, <1>17, <1>18, <1>20, <1>22, <1>23, <1>24, <1>25 DEF TxInv
<1> QED BY <1>14, <1>26

-----------------------------------------------------------------------------
(* Sending a segment, whole or cut in two.                                  *)

\* The header of a PDU is 2 or 4 bytes long.
LEMMA HeaderIs ==
  ASSUME NEW s \in Segs
  PROVE  /\ compute_pdu_header_size(s) \in {2, 4}
         /\ PduSize(s) = compute_pdu_header_size(s) + s.size
BY DEF compute_pdu_header_size, PduSize

\* What cutting seg into p and s keeps.
Cuts(seg, p, s) ==
  /\ p \in Segs /\ s \in Segs /\ p.sdu = seg.sdu /\ s.sdu = seg.sdu
  /\ p.so = seg.so /\ s.so = p.so + p.size /\ s.so + s.size = seg.so + seg.size

\* resegment cuts a segment into two that are well formed.
LEMMA CutFacts ==
  ASSUME NEW seg \in Segs, NEW size \in Nat, HasRoom(seg, size), ~Fits(seg, size)
  PROVE  Cuts(seg, FirstPart(seg, size), SecondPart(seg, size))
<1>1. PICK h \in {2, 4} : h = compute_pdu_header_size(seg)
  BY HeaderIs
<1>2. /\ seg \in Segments /\ seg.sdu \in SduIds /\ seg.so \in Nat /\ seg.size \in Nat
      /\ seg.size >= 1 /\ seg.so + seg.size <= SduSize
  BY SegTypes
<1>3. h + 1 <= size /\ ~(h + seg.size <= size)
  BY <1>1, HeaderIs DEF HasRoom, Fits
<1>4. PICK n \in Nat : n = size - h /\ n >= 1 /\ n < seg.size
  <2>1. size - h \in Nat /\ size - h >= 1 /\ size - h < seg.size
    BY <1>2, <1>3
  <2> QED BY <2>1
<1>5. PICK p : p = [seg EXCEPT !.size = n, !.last = FALSE]
  OBVIOUS
<1>6. PICK s : s = [seg EXCEPT !.so = seg.so + n, !.size = seg.size - n, !.first = FALSE]
  OBVIOUS
<1>7. p = FirstPart(seg, size)
  BY <1>1, <1>4, <1>5 DEF FirstPart
<1>8. s = SecondPart(seg, size)
  BY <1>1, <1>2, <1>4, <1>6 DEF SecondPart, Segments
<1>9. /\ p \in Segments /\ p.sdu = seg.sdu /\ p.so = seg.so /\ p.size = n
      /\ p.last = FALSE /\ p.first = seg.first
  BY <1>2, <1>5 DEF Segments
<1>10. seg.so + n \in Nat /\ seg.size - n \in Nat
  BY <1>2, <1>4
<1>11. /\ s \in Segments /\ s.sdu = seg.sdu /\ s.so = seg.so + n /\ s.size = seg.size - n
       /\ s.first = FALSE /\ s.last = seg.last
  BY <1>2, <1>6, <1>10 DEF Segments
<1>12. p \in Segs
  <2>1. p.size >= 1 /\ p.so + p.size <= SduSize /\ p.so + p.size # SduSize
    BY <1>2, <1>4, <1>9, Constants
  <2>2. p.first <=> p.so = 0
    BY <1>9, SegTypes
  <2> QED BY <1>9, <2>1, <2>2 DEF Segs
<1>13. s \in Segs
  <2>1. s.size >= 1 /\ s.so + s.size = seg.so + seg.size /\ s.so # 0
    BY <1>2, <1>4, <1>11
  <2>2. s.last <=> s.so + s.size = SduSize
    BY <1>11, <2>1, SegTypes
  <2> QED BY <1>2, <1>11, <2>1, <2>2 DEF Segs
<1>14. s.so = p.so + p.size /\ s.so + s.size = seg.so + seg.size
  BY <1>2, <1>4, <1>9, <1>11
<1> QED BY <1>7, <1>8, <1>9, <1>11, <1>12, <1>13, <1>14 DEF Cuts

\* The two parts weigh what the whole did, byte by byte.
LEMMA CutWeights ==
  ASSUME NEW seg \in Segs, NEW p, NEW s, Cuts(seg, p, s)
  PROVE  /\ \A i : Of(i)[p] = Of(i)[seg] /\ Of(i)[s] = Of(i)[seg]
         /\ \A i : \A b \in Int : Covers(i, b)[p] + Covers(i, b)[s] = Covers(i, b)[seg]
<1>1. p \in Segs /\ s \in Segs
  BY DEF Cuts
<1>2. ASSUME NEW i PROVE Of(i)[p] = Of(i)[seg] /\ Of(i)[s] = Of(i)[seg]
  BY <1>1, WeightsOf DEF Cuts
<1>3. ASSUME NEW i, NEW b \in Int
      PROVE  Covers(i, b)[p] + Covers(i, b)[s] = Covers(i, b)[seg]
  <2>1. Covers(i, b)[p] = IF p.sdu = i /\ p.so <= b /\ b < p.so + p.size THEN 1 ELSE 0
    BY <1>1, WeightsOf
  <2>2. Covers(i, b)[s] = IF s.sdu = i /\ s.so <= b /\ b < s.so + s.size THEN 1 ELSE 0
    BY <1>1, WeightsOf
  <2>3. Covers(i, b)[seg] = IF seg.sdu = i /\ seg.so <= b /\ b < seg.so + seg.size THEN 1 ELSE 0
    BY WeightsOf
  <2>4. PICK po \in Nat, pn \in Nat, so \in Nat, sn \in Nat, go \in Nat, gn \in Nat :
          /\ po = p.so /\ pn = p.size /\ so = s.so /\ sn = s.size /\ go = seg.so /\ gn = seg.size
    BY <1>1, SegTypes
  <2>5. po = go /\ so = po + pn /\ so + sn = go + gn /\ p.sdu = seg.sdu /\ s.sdu = seg.sdu
    BY <2>4 DEF Cuts
  <2>6. CASE seg.sdu # i
    BY <2>1, <2>2, <2>3, <2>5, <2>6
  <2>7. CASE seg.sdu = i
    <3>1. Covers(i, b)[p] = IF po <= b /\ b < po + pn THEN 1 ELSE 0
      BY <2>1, <2>4, <2>5, <2>7
    <3>2. Covers(i, b)[s] = IF so <= b /\ b < so + sn THEN 1 ELSE 0
      BY <2>2, <2>4, <2>5, <2>7
    <3>3. Covers(i, b)[seg] = IF go <= b /\ b < go + gn THEN 1 ELSE 0
      BY <2>3, <2>4, <2>7
    <3> QED BY <2>5, <3>1, <3>2, <3>3
  <2> QED BY <2>6, <2>7
<1> QED BY <1>2, <1>3

\* The list l becomes m and g is sent, e segments more than before.
Takes1(l, m, g, e) ==
  /\ g \in Segs /\ m \in Seq(Segs) /\ e \in {0, 1} /\ g.sdu = l[1].sdu
  /\ \A i : Sum(m, Of(i)) + Of(i)[g] = Sum(l, Of(i)) + (IF i = g.sdu THEN e ELSE 0)
  /\ \A i : \A b \in Int : Sum(m, Covers(i, b)) + Covers(i, b)[g] = Sum(l, Covers(i, b))
  /\ e = 0 => /\ g = l[1] /\ Len(m) = Len(l) - 1 /\ \A k \in 1 .. Len(m) : m[k] = l[k + 1]
  /\ e = 1 => /\ Len(m) = Len(l) /\ \A k \in 2 .. Len(m) : m[k] = l[k]
              /\ Cuts(l[1], g, m[1])

\* The segment that is taken from a list fits the grant, cut if need be.
LEMMA TakeFacts ==
  ASSUME NEW l \in Seq(Segs), l # <<>>, NEW size \in Nat, HasRoom(Head(l), size)
  PROVE  /\ Takes1(l, Remaining(l, size), Sent(l, size), IF Fits(Head(l), size) THEN 0 ELSE 1)
         /\ Sum(Remaining(l, size), PduW) =
              Sum(l, PduW) - PduSize(Head(l)) + BytesLeft(Head(l), size)
         /\ BytesLeft(Head(l), size) \in Int /\ PduSize(Head(l)) \in Int
<1>1. PICK h \in Segs, r \in Seq(Segs) : h = Head(l) /\ r = Tail(l)
  BY HeadTailProperties
<1>2. h = l[1] /\ Len(r) = Len(l) - 1 /\ \A k \in 1 .. Len(r) : r[k] = l[k + 1]
  BY <1>1, HeadTailProperties
<1>3. \A w \in [Segs -> Int] : Sum(l, w) = w[h] + Sum(r, w) /\ Sum(r, w) \in Int /\ w[h] \in Int
  BY <1>1, SumHead, SumType
<1>4. PICK ph \in Int : ph = PduSize(h) /\ ph = PduW[h]
  BY PduWType
<1>5. CASE Fits(h, size)
  <2>1. Remaining(l, size) = r /\ Sent(l, size) = h /\ BytesLeft(h, size) = 0
    BY <1>1, <1>5 DEF Remaining, Sent, BytesLeft
  <2>2. \A i : Sum(r, Of(i)) + Of(i)[h] = Sum(l, Of(i)) + (IF i = h.sdu THEN 0 ELSE 0)
    <3> SUFFICES ASSUME NEW i PROVE Sum(r, Of(i)) + Of(i)[h] = Sum(l, Of(i)) + 0
      OBVIOUS
    <3>1. PICK w \in [Segs -> Int] : w = Of(i)
      BY WeightTypes
    <3>2. Sum(l, w) = w[h] + Sum(r, w) /\ Sum(r, w) \in Int /\ w[h] \in Int
      BY <1>3
    <3> QED BY <3>1, <3>2
  <2>3. \A i : \A b \in Int : Sum(r, Covers(i, b)) + Covers(i, b)[h] = Sum(l, Covers(i, b))
    BY <1>3, WeightTypes
  <2>4. Takes1(l, r, h, 0)
    BY <1>2, <2>2, <2>3 DEF Takes1
  <2>5. Sum(r, PduW) = Sum(l, PduW) - ph + 0
    BY <1>3, <1>4, WeightTypes
  <2> QED BY <1>1, <1>4, <1>5, <2>1, <2>4, <2>5
<1>6. CASE ~Fits(h, size)
  <2>1. PICK p, s : p = FirstPart(h, size) /\ s = SecondPart(h, size)
    OBVIOUS
  <2>2. Cuts(h, p, s)
    BY <1>1, <1>6, <2>1, CutFacts
  <2>3. p \in Segs /\ s \in Segs /\ p.sdu = h.sdu
    BY <2>2 DEF Cuts
  <2>4. PICK m : m = <<s>> \o r
    OBVIOUS
  <2>5. Remaining(l, size) = m /\ Sent(l, size) = p /\ BytesLeft(h, size) = PduSize(s)
    BY <1>1, <1>6, <2>1, <2>4 DEF Remaining, Sent, BytesLeft
  <2>6. m \in Seq(Segs) /\ Len(m) = Len(r) + 1 /\ m[1] = s /\ \A k \in 2 .. Len(m) : m[k] = r[k - 1]
    BY <2>3, <2>4
  <2>7. \A w \in [Segs -> Int] : Sum(m, w) = w[s] + Sum(r, w) /\ w[s] \in Int
    <3>1. <<s>> \in Seq(Segs)
      BY <2>3
    <3>2. ASSUME NEW w \in [Segs -> Int] PROVE Sum(m, w) = w[s] + Sum(r, w)
      <4>1. Sum(m, w) = Sum(<<s>>, w) + Sum(r, w)
        BY <2>4, <3>1, SumConcat
      <4>2. Sum(<<s>>, w) = w[s]
        BY <2>3, SumOne
      <4> QED BY <4>1, <4>2
    <3> QED BY <2>3, <3>2
  <2>8. ASSUME NEW i
        PROVE Sum(m, Of(i)) + Of(i)[p] = Sum(l, Of(i)) + (IF i = p.sdu THEN 1 ELSE 0)
    <3>1. PICK a \in Int : a = Sum(r, Of(i))
      BY <1>3, WeightTypes
    <3>2. Of(i)[p] = Of(i)[h] /\ Of(i)[s] = Of(i)[h]
      BY <2>2, CutWeights
    <3>3. Of(i)[h] = IF h.sdu = i THEN 1 ELSE 0
      BY WeightsOf
    <3>4. Sum(m, Of(i)) = Of(i)[s] + a /\ Sum(l, Of(i)) = Of(i)[h] + a
      BY <1>3, <2>7, <3>1, WeightTypes
    <3> QED BY <2>3, <3>2, <3>3, <3>4
  <2>9. ASSUME NEW i, NEW b \in Int
        PROVE Sum(m, Covers(i, b)) + Covers(i, b)[p] = Sum(l, Covers(i, b))
    <3>1. PICK w \in [Segs -> Int] : w = Covers(i, b)
      BY WeightTypes
    <3>2. PICK a \in Int : a = Sum(r, w)
      BY <1>3
    <3>3. w[p] + w[s] = w[h] /\ w[p] \in Int /\ w[s] \in Int
      BY <2>2, <2>3, <3>1, CutWeights
    <3>4. Sum(m, w) = w[s] + a /\ Sum(l, w) = w[h] + a
      BY <1>3, <2>7, <3>2
    <3>5. Sum(m, w) + w[p] = Sum(l, w)
      BY <3>3, <3>4
    <3> QED BY <3>1, <3>5
  <2>10. Len(m) = Len(l) /\ \A k \in 2 .. Len(m) : m[k] = l[k]
    <3>1. Len(l) \in Nat /\ Len(m) = Len(l)
      BY <1>2, <2>6
    <3>2. ASSUME NEW k \in 2 .. Len(m) PROVE m[k] = l[k]
      <4>1. k - 1 \in 1 .. Len(r) /\ m[k] = r[k - 1]
        BY <1>2, <2>6, <3>1
      <4>2. r[k - 1] = l[(k - 1) + 1]
        BY <1>2, <4>1
      <4> QED BY <4>1, <4>2
    <3> QED BY <3>1, <3>2
  <2>11. Takes1(l, m, p, 1)
    <3>1. Cuts(l[1], p, m[1])
      BY <1>2, <2>2, <2>6
    <3>2. p.sdu = l[1].sdu
      BY <1>2, <2>3
    <3> QED BY <2>3, <2>6, <2>8, <2>9, <2>10, <3>1, <3>2 DEF Takes1
  <2>12. PduSize(s) \in Int /\ Sum(m, PduW) = Sum(l, PduW) - ph + PduSize(s)
    <3>1. PICK a \in Int, c \in Int : a = Sum(r, PduW) /\ c = PduW[s] /\ c = PduSize(s)
      BY <1>3, <2>3, PduWType
    <3>2. Sum(m, PduW) = c + a /\ Sum(l, PduW) = ph + a
      BY <1>3, <1>4, <2>7, <3>1, WeightTypes
    <3> QED BY <3>1, <3>2
  <2> QED BY <1>1, <1>4, <1>6, <2>5, <2>11, <2>12
<1> QED BY <1>5, <1>6

-----------------------------------------------------------------------------
\* Every SDU behind a segment that was sent has a sequence number.
LEMMA AllNumbered ==
  ASSUME NEW u \in TxStates,
         \A k \in 1 .. Len(u.wait_list) : u.sdu[u.wait_list[k].sdu].sn # -1,
         \A k \in 1 .. Len(u.retransmit_list) : u.sdu[u.retransmit_list[k].sdu].sn # -1,
         \A k \in 1 .. Len(u.ack_list) : u.sdu[u.ack_list[k].sdu].sn # -1
  PROVE  SentSum(u, Unnumbered(u.sdu)) = 0
<1>1. ASSUME NEW l \in Seq(Segs), \A k \in 1 .. Len(l) : u.sdu[l[k].sdu].sn # -1
      PROVE  Sum(l, Unnumbered(u.sdu)) = 0
  <2>1. \A k \in 1 .. Len(l) : l[k] \notin {s \in Segs : u.sdu[s.sdu].sn = -1}
    BY <1>1
  <2> QED BY <2>1, CountZero DEF Unnumbered
<1>2. /\ Sum(u.wait_list, Unnumbered(u.sdu)) = 0 /\ Sum(u.retransmit_list, Unnumbered(u.sdu)) = 0
      /\ Sum(u.ack_list, Unnumbered(u.sdu)) = 0
  BY <1>1, TxFields
<1> QED BY <1>2 DEF SentSum

\* One SDU has e segments more; the bytes are where they were.
Recounts(t, u, i0, e) ==
  /\ \A i : \A b \in Int : AllSum(u, Covers(i, b)) = AllSum(t, Covers(i, b))
  /\ \A i : AllSum(u, Of(i)) = AllSum(t, Of(i)) + (IF i = i0 THEN e ELSE 0)
  /\ \A i \in SduIds : u.sdu[i].ref_count = t.sdu[i].ref_count + (IF i = i0 THEN e ELSE 0)
  /\ \A i \in SduIds \ {i0} : u.sdu[i] = t.sdu[i]

\* A cut segment adds one to ref_count.
LEMMA RecountKeeps ==
  ASSUME NEW H, NEW t, TxInv(t, H), NEW u, NEW i0 \in H, NEW e, Recounts(t, u, i0, e)
  PROVE  Partitioned(u, H) /\ HeldOnly(u, H)
<1>1. t \in TxStates /\ H \subseteq SduIds
  BY DEF TxInv, HeldOnly
<1>2. ASSUME NEW i \in H
      PROVE  /\ \A b \in 0 .. SduSize - 1 : AllSum(u, Covers(i, b)) = 1
             /\ u.sdu[i].ref_count = AllSum(u, Of(i))
  <2>1. /\ \A b \in 0 .. SduSize - 1 : AllSum(t, Covers(i, b)) = 1
        /\ t.sdu[i].ref_count = AllSum(t, Of(i))
    BY DEF TxInv, Partitioned
  <2>2. \A b \in 0 .. SduSize - 1 : AllSum(u, Covers(i, b)) = AllSum(t, Covers(i, b))
    BY DEF Recounts
  <2>3. u.sdu[i].ref_count = t.sdu[i].ref_count + (IF i = i0 THEN e ELSE 0)
    BY <1>1 DEF Recounts
  <2>4. AllSum(u, Of(i)) = AllSum(t, Of(i)) + (IF i = i0 THEN e ELSE 0)
    BY DEF Recounts
  <2> QED BY <2>1, <2>2, <2>3, <2>4
<1>3. ASSUME NEW i \in SduIds \ H PROVE AllSum(u, Of(i)) = 0 /\ u.sdu[i] = FreshSdu
  <2>1. AllSum(t, Of(i)) = 0 /\ t.sdu[i] = FreshSdu /\ i # i0
    BY DEF TxInv, HeldOnly
  <2>2. AllSum(u, Of(i)) = AllSum(t, Of(i)) + 0
    BY <2>1 DEF Recounts
  <2>3. u.sdu[i] = t.sdu[i]
    BY <2>1 DEF Recounts
  <2> QED BY <2>1, <2>2, <2>3
<1> QED BY <1>1, <1>2, <1>3 DEF Partitioned, HeldOnly

\* The retransmit list with its head cut.
LEMMA ResegmentedFacts ==
  ASSUME NEW t \in TxStates, NEW l \in Seq(Segs), l # <<>>, NEW size, NEW e,
         e = IF Fits(Head(l), size) THEN 0 ELSE 1
  PROVE  /\ Resegmented(t, l, size) \in [SduIds -> SduRecs]
         /\ \A i \in SduIds :
              /\ Resegmented(t, l, size)[i].sn = t.sdu[i].sn
              /\ Resegmented(t, l, size)[i].retx_count = t.sdu[i].retx_count
              /\ Resegmented(t, l, size)[i].ref_count =
                   t.sdu[i].ref_count + (IF i = l[1].sdu THEN e ELSE 0)
              /\ i # l[1].sdu => Resegmented(t, l, size)[i] = t.sdu[i]
<1>1. l[1] \in Segs /\ Head(l) = l[1]
  BY SeqFacts, HeadTailProperties
<1>2. PICK h \in SduIds : h = l[1].sdu
  BY <1>1, SegTypes
<1>3. t.sdu \in [SduIds -> SduRecs] /\ \A i \in SduIds : t.sdu[i].ref_count \in Int
  BY TxFields
<1>4. CASE Fits(Head(l), size)
  BY <1>3, <1>4 DEF Resegmented
<1>5. CASE ~Fits(Head(l), size)
  <2>1. PICK c \in SduRecs : c = t.sdu[h]
    BY <1>3
  <2>2. PICK d : d = [c EXCEPT !.ref_count = c.ref_count + 1]
    OBVIOUS
  <2>3. /\ d \in SduRecs /\ d.sn = c.sn /\ d.retx_count = c.retx_count
        /\ d.ref_count = c.ref_count + 1
    BY <2>2 DEF SduRecs
  <2>4. Resegmented(t, l, size) = [t.sdu EXCEPT ![h] = d]
    BY <1>1, <1>2, <1>5, <2>1, <2>2 DEF Resegmented
  <2>5. PICK f : f = [t.sdu EXCEPT ![h] = d]
    OBVIOUS
  <2>6. f \in [SduIds -> SduRecs] /\ f[h] = d /\ \A i \in SduIds \ {h} : f[i] = t.sdu[i]
    BY <1>3, <2>3, <2>5
  <2>7. ASSUME NEW i \in SduIds
        PROVE  /\ f[i].sn = t.sdu[i].sn /\ f[i].retx_count = t.sdu[i].retx_count
               /\ f[i].ref_count = t.sdu[i].ref_count + (IF i = h THEN 1 ELSE 0)
               /\ i # h => f[i] = t.sdu[i]
    BY <1>3, <2>1, <2>3, <2>6
  <2> QED BY <1>2, <1>5, <2>4, <2>5, <2>6, <2>7
<1> QED BY <1>4, <1>5

(* The head of retransmit_list goes to wait_list. *)
LEMMA TakeRetxKeeps ==
  ASSUME NEW H, NEW t, TxInv(t, H), NEW size \in Nat, CanRetransmit(t, size),
         NEW g, g = Sent(t.retransmit_list, size),
         NEW u, u = TakeRetx(t, t.retransmit_list, g, size)
  PROVE  /\ TxInv(u, H) /\ u.tx_size = t.tx_size
         /\ g \in Segs /\ u.sdu[g.sdu].sn \in Sns
<1>1. t \in TxStates /\ H \subseteq SduIds
  BY DEF TxInv, HeldOnly
<1>2. PICK tl \in Seq(Segs), wl \in Seq(Segs), l \in Seq(Segs), al \in Seq(Segs) :
        tl = t.tx_list /\ wl = t.wait_list /\ l = t.retransmit_list /\ al = t.ack_list
  BY <1>1, TxFields
<1>3. l # <<>> /\ HasRoom(Head(l), size)
  BY <1>2 DEF CanRetransmit
<1>4. PICK e : e = IF Fits(Head(l), size) THEN 0 ELSE 1
  OBVIOUS
<1>5. PICK m : m = Remaining(l, size)
  OBVIOUS
<1>6. PICK left \in Int, h \in Int : left = BytesLeft(Head(l), size) /\ h = PduSize(Head(l))
  BY <1>3, TakeFacts
<1>7. Takes1(l, m, g, e) /\ Sum(m, PduW) = Sum(l, PduW) - h + left
  BY <1>2, <1>3, <1>4, <1>5, <1>6, TakeFacts
<1>8. g \in Segs /\ m \in Seq(Segs) /\ e \in {0, 1} /\ g.sdu = l[1].sdu
  BY <1>7 DEF Takes1
<1>9. PICK f : f = Resegmented(t, l, size)
  OBVIOUS
<1>10. /\ f \in [SduIds -> SduRecs]
       /\ \A i \in SduIds : /\ f[i].sn = t.sdu[i].sn /\ f[i].retx_count = t.sdu[i].retx_count
                            /\ f[i].ref_count = t.sdu[i].ref_count + (IF i = g.sdu THEN e ELSE 0)
                            /\ i # g.sdu => f[i] = t.sdu[i]
  BY <1>1, <1>3, <1>4, <1>8, <1>9, ResegmentedFacts
<1>11. PICK q \in Seq(Segs) : q = Append(wl, g)
  BY <1>8, AppendProperties
<1>12. u = [t EXCEPT !.retransmit_list = m, !.sdu = f, !.bs_retx = t.bs_retx - h + left,
                     !.wait_list = q]
  BY <1>1, <1>2, <1>5, <1>6, <1>9, <1>11 DEF TakeRetx, TxStates
<1>13. t.bs_retx - h + left \in Int
  BY <1>1, TxFields
<1>14. u \in TxStates
  BY <1>1, <1>8, <1>10, <1>12, <1>13, ZenonT(60) DEF TxStates
<1>15. /\ u.tx_next = t.tx_next /\ u.tx_next_ack = t.tx_next_ack /\ u.tx_list = tl
       /\ u.wait_list = q /\ u.retransmit_list = m /\ u.ack_list = al
       /\ u.tx_size = t.tx_size /\ u.bs_tx = t.bs_tx
       /\ u.bs_retx = t.bs_retx - h + left /\ u.sdu = f
  BY <1>1, <1>2, <1>12 DEF TxStates
<1>16. /\ \A k \in 1 .. Len(l) : l[k].sdu \in H /\ t.sdu[l[k].sdu].sn # -1
       /\ \A k \in 1 .. Len(wl) : wl[k].sdu \in H /\ t.sdu[wl[k].sdu].sn # -1
       /\ \A k \in 1 .. Len(al) : al[k].sdu \in H /\ t.sdu[al[k].sdu].sn # -1
       /\ \A k \in 1 .. Len(tl) : tl[k].sdu \in H
  BY <1>2, InListsHeld DEF SnOf
<1>17. Len(l) \in Nat /\ 1 \in 1 .. Len(l)
  BY <1>3, SeqFacts
<1>18. PICK i0 \in H : i0 = g.sdu /\ t.sdu[i0].sn # -1
  BY <1>8, <1>16, <1>17
<1>19. \A k \in 1 .. Len(m) : \E j \in 1 .. Len(l) : m[k].sdu = l[j].sdu
  <2>1. Len(m) \in Nat
    BY <1>8, SeqFacts
  <2>2. CASE e = 0
    <3>1. Len(m) = Len(l) - 1 /\ \A k \in 1 .. Len(m) : m[k] = l[k + 1]
      BY <1>7, <2>2 DEF Takes1
    <3>2. ASSUME NEW k \in 1 .. Len(m) PROVE \E j \in 1 .. Len(l) : m[k].sdu = l[j].sdu
      <4>1. k + 1 \in 1 .. Len(l) /\ m[k].sdu = l[k + 1].sdu
        BY <1>17, <2>1, <3>1
      <4> QED BY <4>1
    <3> QED BY <3>2
  <2>3. CASE e = 1
    <3>1. Len(m) = Len(l) /\ \A k \in 2 .. Len(m) : m[k] = l[k]
      BY <1>7, <2>3 DEF Takes1
    <3>2. m[1].sdu = l[1].sdu
      BY <1>7, <2>3 DEF Takes1, Cuts
    <3>3. \A k \in 1 .. Len(m) : m[k].sdu = l[k].sdu
      BY <3>1, <3>2
    <3> QED BY <3>1, <3>3
  <2> QED BY <1>8, <2>2, <2>3
<1>20. \A w \in [Segs -> Int] : Sum(q, w) = Sum(wl, w) + w[g] /\ w[g] \in Int
  BY <1>8, <1>11, SumAppend
<1>21. Recounts(t, u, i0, e)
  <2>1. ASSUME NEW w \in [Segs -> Int], NEW d \in Int, Sum(m, w) + w[g] = Sum(l, w) + d
        PROVE  AllSum(u, w) = AllSum(t, w) + d
    <3>1. PICK a \in Int, b \in Int, c \in Int, x \in Int, y \in Int, z \in Int :
            /\ a = Sum(tl, w) /\ b = Sum(wl, w) /\ c = Sum(l, w) /\ x = Sum(al, w)
            /\ y = Sum(m, w) /\ z = w[g]
      BY <1>8, SumType
    <3>2. y + z = c + d
      BY <2>1, <3>1
    <3>3. AllSum(t, w) = a + (b + c + x)
      BY <1>2, <3>1 DEF AllSum, SentSum
    <3>4. AllSum(u, w) = a + ((b + z) + y + x)
      BY <1>15, <1>20, <3>1 DEF AllSum, SentSum
    <3> QED BY <3>2, <3>3, <3>4
  <2>2. ASSUME NEW i, NEW b \in Int PROVE AllSum(u, Covers(i, b)) = AllSum(t, Covers(i, b))
    <3>1. PICK w \in [Segs -> Int] : w = Covers(i, b)
      BY WeightTypes
    <3>2. Sum(m, w) + w[g] = Sum(l, w)
      BY <1>7, <3>1 DEF Takes1
    <3>3. Sum(l, w) \in Int /\ AllSum(t, w) \in Int
      BY <1>1, SumType, SentSumType
    <3>4. Sum(m, w) + w[g] = Sum(l, w) + 0
      BY <3>2, <3>3
    <3>5. AllSum(u, w) = AllSum(t, w) + 0
      <4>1. 0 \in Int
        OBVIOUS
      <4> QED BY <2>1, <3>4, <4>1
    <3> QED BY <3>1, <3>3, <3>5
  <2>3. ASSUME NEW i PROVE AllSum(u, Of(i)) = AllSum(t, Of(i)) + (IF i = i0 THEN e ELSE 0)
    <3>1. PICK w \in [Segs -> Int] : w = Of(i)
      BY WeightTypes
    <3>2. PICK d \in Int : d = IF i = i0 THEN e ELSE 0
      BY <1>8
    <3>3. Sum(m, w) + w[g] = Sum(l, w) + d
      BY <1>7, <1>18, <3>1, <3>2 DEF Takes1
    <3>4. AllSum(u, w) = AllSum(t, w) + d
      BY <2>1, <3>3
    <3> QED BY <3>1, <3>2, <3>4
  <2> QED BY <1>10, <1>15, <1>18, <2>2, <2>3 DEF Recounts
<1>22. Partitioned(u, H) /\ HeldOnly(u, H)
  BY <1>21, RecountKeeps
<1>23. TxListOrder(u)
  BY <1>2, <1>15 DEF TxInv, TxListOrder
<1>24. \A i \in SduIds : u.sdu[i].sn = t.sdu[i].sn /\ u.sdu[i].retx_count = t.sdu[i].retx_count
  BY <1>10, <1>15
<1>25. SentSum(u, Unnumbered(u.sdu)) = 0
  <2>1. \A k \in 1 .. Len(q) : u.sdu[q[k].sdu].sn # -1
    <3>1. Len(q) = Len(wl) + 1 /\ q[Len(wl) + 1] = g /\ \A k \in 1 .. Len(wl) : q[k] = wl[k]
      BY <1>11
    <3>2. u.sdu[g.sdu].sn # -1
      BY <1>1, <1>18, <1>24
    <3>3. \A k \in 1 .. Len(wl) : u.sdu[wl[k].sdu].sn # -1
      BY <1>1, <1>16, <1>24
    <3>4. \A k \in 1 .. Len(q) : k \in 1 .. Len(wl) \/ k = Len(wl) + 1
      BY <3>1
    <3> QED BY <3>1, <3>2, <3>3, <3>4
  <2>2. \A k \in 1 .. Len(m) : u.sdu[m[k].sdu].sn # -1
    BY <1>1, <1>16, <1>19, <1>24, ZenonT(60)
  <2>3. \A k \in 1 .. Len(al) : u.sdu[al[k].sdu].sn # -1
    BY <1>1, <1>16, <1>24
  <2> QED BY <1>14, <1>15, <2>1, <2>2, <2>3, AllNumbered
<1>26. Numbered(u, H)
  <2>1. \A a : modulus_tx(u, a) = modulus_tx(t, a)
    BY <1>15 DEF modulus_tx
  <2>2. \A i \in H : \/ u.sdu[i].sn = -1
                  \/ modulus_tx(u, u.sdu[i].sn) < modulus_tx(u, u.tx_next)
                  \/ /\ u.tx_list # <<>> /\ u.tx_list[1].sdu = i
                     /\ u.sdu[i].sn = u.tx_next
    BY <1>1, <1>2, <1>15, <1>24, <2>1 DEF TxInv, Numbered
  <2>3. \A k \in 1 .. Len(u.tx_list) :
          u.sdu[u.tx_list[k].sdu].sn = IF u.tx_list[k].first THEN -1 ELSE u.tx_next
    <3>1. ASSUME NEW k \in 1 .. Len(tl)
          PROVE  u.sdu[tl[k].sdu].sn = IF tl[k].first THEN -1 ELSE u.tx_next
      <4>1. t.sdu[tl[k].sdu].sn = IF tl[k].first THEN -1 ELSE t.tx_next
        BY <1>2 DEF TxInv, Numbered
      <4>2. u.sdu[tl[k].sdu].sn = t.sdu[tl[k].sdu].sn
        BY <1>1, <1>16, <1>24
      <4> QED BY <1>15, <4>1, <4>2
    <3> QED BY <1>15, <3>1
  <2>4. \A i, j \in H : u.sdu[i].sn # -1 /\ u.sdu[i].sn = u.sdu[j].sn => i = j
    <3>1. \A i, j \in H : t.sdu[i].sn # -1 /\ t.sdu[i].sn = t.sdu[j].sn => i = j
      BY DEF TxInv, Numbered
    <3>2. \A i \in H : u.sdu[i].sn = t.sdu[i].sn
      BY <1>1, <1>24
    <3> QED BY <3>1, <3>2, ZenonT(60)
  <2> QED BY <1>25, <2>2, <2>3, <2>4 DEF Numbered
<1>27. TxWindow(u)
  BY <1>15 DEF TxInv, TxWindow, modulus_tx
<1>28. TxSizes(u)
  BY <1>2, <1>7, <1>15 DEF TxInv, TxSizes
<1>29. RetxCounted(u)
  <2>1. \A i \in SduIds : t.sdu[i].retx_count >= -1
    BY DEF TxInv, RetxCounted
  <2>2. \A k \in 1 .. Len(l) : t.sdu[l[k].sdu].retx_count >= 0
    BY <1>2 DEF TxInv, RetxCounted
  <2>3. \A k \in 1 .. Len(m) : u.sdu[m[k].sdu].retx_count >= 0
    BY <1>1, <1>16, <1>19, <1>24, <2>2, SMTT(40)
  <2> QED BY <1>15, <1>24, <2>1, <2>3 DEF RetxCounted
<1>30. TxInv(u, H)
  BY <1>14, <1>22, <1>23, <1>26, <1>27, <1>28, <1>29 DEF TxInv
<1>31. u.sdu[g.sdu].sn \in Sns
  <2>1. u.sdu[i0].sn # -1 /\ u.sdu[i0].sn \in Sns \cup {-1}
    BY <1>1, <1>14, <1>18, <1>24, TxFields
  <2> QED BY <1>18, <2>1
<1> QED BY <1>8, <1>15, <1>30, <1>31

-----------------------------------------------------------------------------
(* The window has room for one more. *)
LEMMA NotStalling ==
  ASSUME NEW t \in TxStates, ~is_window_stalling(t)
  PROVE  Off(t.tx_next_ack, t.tx_next) < WindowSize
<1>1. PICK b \in Sns, a \in Sns : b = t.tx_next_ack /\ a = t.tx_next
  BY TxFields
<1>2. PICK d \in Nat : d = Off(b, a) /\ d < SnModulus
  <2>1. Off(b, a) \in Sns
    BY OffIs
  <2> QED BY <2>1, Constants
<1>3. Off(b, Plus(b, WindowSize)) = WindowSize
  <2>1. Off(b, b) = 0
    BY OffSelf
  <2>2. WindowSize \in Nat /\ WindowSize <= SnModulus /\ WindowSize < SnModulus
    BY Constants
  <2>3. Off(b, Plus(b, WindowSize)) = IF Off(b, b) + WindowSize < SnModulus THEN Off(b, b) + WindowSize
                                      ELSE Off(b, b) + WindowSize - SnModulus
    BY <2>2, OffPlus
  <2> QED BY <2>1, <2>2, <2>3
<1>4. ~(d - WindowSize >= 0)
  BY <1>1, <1>2, <1>3 DEF is_window_stalling, sn_compare_tx, modulus_tx, Off, Plus
<1> QED BY <1>1, <1>2, <1>4, Constants

(* The head of tx_list, or a part of it, gets a number and goes to wait_list. *)
LEMMA TakeTxKeeps ==
  ASSUME NEW H, NEW t, TxInv(t, H), NEW size \in Nat, CanTransmit(t, size),
         NEW g, g = Sent(t.tx_list, size),
         NEW u, u = TakeTx(t, t.tx_list, g, size)
  PROVE  /\ TxInv(u, H) /\ u.tx_size = t.tx_size
         /\ g \in Segs /\ u.sdu[g.sdu].sn \in Sns
<1>1. t \in TxStates /\ H \subseteq SduIds
  BY DEF TxInv, HeldOnly
<1>2. PICK l \in Seq(Segs), wl \in Seq(Segs), rl \in Seq(Segs), al \in Seq(Segs) :
        l = t.tx_list /\ wl = t.wait_list /\ rl = t.retransmit_list /\ al = t.ack_list
  BY <1>1, TxFields
<1>3. l # <<>> /\ HasRoom(Head(l), size) /\ ~is_window_stalling(t)
  BY <1>2 DEF CanTransmit
<1>4. PICK e : e = IF Fits(Head(l), size) THEN 0 ELSE 1
  OBVIOUS
<1>5. PICK m : m = Remaining(l, size)
  OBVIOUS
<1>6. PICK left \in Int, h \in Int : left = BytesLeft(Head(l), size) /\ h = PduSize(Head(l))
  BY <1>3, TakeFacts
<1>7. Takes1(l, m, g, e) /\ Sum(m, PduW) = Sum(l, PduW) - h + left
  BY <1>2, <1>3, <1>4, <1>5, <1>6, TakeFacts
<1>8. g \in Segs /\ m \in Seq(Segs) /\ e \in {0, 1} /\ g.sdu = l[1].sdu
  BY <1>7 DEF Takes1
<1>9. PICK f0 : f0 = Resegmented(t, l, size)
  OBVIOUS
<1>10. /\ f0 \in [SduIds -> SduRecs]
       /\ \A i \in SduIds : /\ f0[i].sn = t.sdu[i].sn /\ f0[i].retx_count = t.sdu[i].retx_count
                            /\ f0[i].ref_count = t.sdu[i].ref_count + (IF i = g.sdu THEN e ELSE 0)
                            /\ i # g.sdu => f0[i] = t.sdu[i]
  BY <1>1, <1>3, <1>4, <1>8, <1>9, ResegmentedFacts
<1>16. /\ \A k \in 1 .. Len(l) : l[k].sdu \in H
       /\ \A k \in 1 .. Len(wl) : wl[k].sdu \in H /\ t.sdu[wl[k].sdu].sn # -1
       /\ \A k \in 1 .. Len(al) : al[k].sdu \in H /\ t.sdu[al[k].sdu].sn # -1
       /\ \A k \in 1 .. Len(rl) : rl[k].sdu \in H /\ t.sdu[rl[k].sdu].sn # -1
  BY <1>2, InListsHeld DEF SnOf
<1>17. Len(l) \in Nat /\ 1 \in 1 .. Len(l)
  BY <1>3, SeqFacts
<1>18. PICK i0 \in H : i0 = g.sdu
  BY <1>8, <1>16, <1>17
<1>19. PICK N \in Sns, B \in Sns : N = t.tx_next /\ B = t.tx_next_ack
  BY <1>1, TxFields
<1>20. PICK c \in SduRecs : c = [f0[i0] EXCEPT !.sn = N]
  <2>1. f0[i0] \in SduRecs
    BY <1>1, <1>10
  <2> QED BY <2>1 DEF SduRecs
<1>21. c.sn = N /\ c.ref_count = f0[i0].ref_count /\ c.retx_count = f0[i0].retx_count
  <2>1. f0[i0] \in SduRecs
    BY <1>1, <1>10
  <2> QED BY <1>20, <2>1 DEF SduRecs
<1>22. PICK f : f = [f0 EXCEPT ![i0] = c]
  OBVIOUS
<1>23. f \in [SduIds -> SduRecs] /\ f[i0] = c /\ \A i \in SduIds \ {i0} : f[i] = f0[i]
  BY <1>1, <1>10, <1>22
<1>24. /\ \A i \in SduIds \ {i0} : f[i] = t.sdu[i]
       /\ \A i \in SduIds :
            /\ f[i].retx_count = t.sdu[i].retx_count
            /\ f[i].ref_count = t.sdu[i].ref_count + (IF i = i0 THEN e ELSE 0)
  BY <1>1, <1>10, <1>18, <1>21, <1>23
<1>25. PICK q \in Seq(Segs) : q = Append(wl, g)
  BY <1>8, AppendProperties
<1>26. PICK N2 : N2 = IF g.last THEN Plus(N, 1) ELSE N
  OBVIOUS
<1>27. N2 \in Sns
  <2>1. 1 \in Nat /\ 1 <= SnModulus
    BY Constants
  <2>2. Plus(N, 1) \in Sns
    BY <2>1, PlusIs
  <2> QED BY <1>26, <2>2
<1>28. PICK p1 \in Nat, p2 \in Nat :
         p1 = t.pdu_without_poll + 1 /\ p2 = t.byte_without_poll + g.size
  <2>1. t.pdu_without_poll \in Nat /\ t.byte_without_poll \in Nat
    BY <1>1 DEF TxStates
  <2>2. g.size \in Nat
    BY <1>8, SegTypes
  <2>3. t.pdu_without_poll + 1 \in Nat /\ t.byte_without_poll + g.size \in Nat
    BY <2>1, <2>2, SMTT(40)
  <2> QED BY <2>3
<1>29. u = [t EXCEPT !.tx_list = m, !.sdu = f, !.bs_tx = t.bs_tx - h + left, !.tx_next = N2,
                     !.wait_list = q, !.pdu_without_poll = p1, !.byte_without_poll = p2]
  <2>1. f = [Resegmented(t, l, size) EXCEPT ![g.sdu].sn = t.tx_next]
    BY <1>9, <1>18, <1>19, <1>20, <1>22
  <2> QED BY <1>1, <1>2, <1>5, <1>6, <1>19, <1>25, <1>26, <1>28, <2>1 DEF TakeTx, TxStates, Plus
<1>30. t.bs_tx - h + left \in Int
  BY <1>1, TxFields
<1>31. u \in TxStates
  BY <1>1, <1>8, <1>23, <1>27, <1>29, <1>30, ZenonT(60) DEF TxStates
<1>32. /\ u.tx_next = N2 /\ u.tx_next_ack = B /\ u.tx_list = m
       /\ u.wait_list = q /\ u.retransmit_list = rl /\ u.ack_list = al
       /\ u.tx_size = t.tx_size /\ u.bs_tx = t.bs_tx - h + left
       /\ u.bs_retx = t.bs_retx /\ u.sdu = f
  BY <1>1, <1>2, <1>8, <1>19, <1>29 DEF TxStates
<1>33. \A w \in [Segs -> Int] : Sum(q, w) = Sum(wl, w) + w[g] /\ w[g] \in Int
  BY <1>8, <1>25, SumAppend
<1>34. Recounts(t, u, i0, e)
  <2>1. ASSUME NEW w \in [Segs -> Int], NEW d \in Int, Sum(m, w) + w[g] = Sum(l, w) + d
        PROVE  AllSum(u, w) = AllSum(t, w) + d
    <3>1. PICK a \in Int, b \in Int, cc \in Int, x \in Int, y \in Int, z \in Int :
            /\ a = Sum(rl, w) /\ b = Sum(wl, w) /\ cc = Sum(l, w) /\ x = Sum(al, w)
            /\ y = Sum(m, w) /\ z = w[g]
      BY <1>8, SumType
    <3>2. y + z = cc + d
      BY <2>1, <3>1
    <3>3. AllSum(t, w) = cc + (b + a + x)
      BY <1>2, <3>1 DEF AllSum, SentSum
    <3>4. AllSum(u, w) = y + ((b + z) + a + x)
      BY <1>32, <1>33, <3>1 DEF AllSum, SentSum
    <3> QED BY <3>2, <3>3, <3>4
  <2>2. ASSUME NEW i, NEW b \in Int PROVE AllSum(u, Covers(i, b)) = AllSum(t, Covers(i, b))
    <3>1. PICK w \in [Segs -> Int] : w = Covers(i, b)
      BY WeightTypes
    <3>2. Sum(m, w) + w[g] = Sum(l, w)
      BY <1>7, <3>1 DEF Takes1
    <3>3. Sum(l, w) \in Int /\ AllSum(t, w) \in Int
      BY <1>1, SumType, SentSumType
    <3>4. Sum(m, w) + w[g] = Sum(l, w) + 0
      BY <3>2, <3>3
    <3>5. AllSum(u, w) = AllSum(t, w) + 0
      <4>1. 0 \in Int
        OBVIOUS
      <4> QED BY <2>1, <3>4, <4>1
    <3> QED BY <3>1, <3>3, <3>5
  <2>3. ASSUME NEW i PROVE AllSum(u, Of(i)) = AllSum(t, Of(i)) + (IF i = i0 THEN e ELSE 0)
    <3>1. PICK w \in [Segs -> Int] : w = Of(i)
      BY WeightTypes
    <3>2. PICK d \in Int : d = IF i = i0 THEN e ELSE 0
      BY <1>8
    <3>3. Sum(m, w) + w[g] = Sum(l, w) + d
      BY <1>7, <1>18, <3>1, <3>2 DEF Takes1
    <3>4. AllSum(u, w) = AllSum(t, w) + d
      BY <2>1, <3>3
    <3> QED BY <3>1, <3>2, <3>4
  <2> QED BY <1>24, <1>32, <2>2, <2>3 DEF Recounts
<1>35. Partitioned(u, H) /\ HeldOnly(u, H)
  BY <1>34, RecountKeeps
<1>36. /\ \A k \in 1 .. Len(l) : l[k].last /\ (k # 1 => l[k].first)
       /\ \A j, k \in 1 .. Len(l) : l[j].sdu = l[k].sdu => j = k
  BY <1>2 DEF TxInv, TxListOrder
<1>37. \A k \in 1 .. Len(l) : t.sdu[l[k].sdu].sn = IF l[k].first THEN -1 ELSE N
  BY <1>2, <1>19 DEF TxInv, Numbered
<1>38. l[1] \in Segs /\ l[1].last
  BY <1>17, <1>36, SeqFacts
\* The two ways in which the list changes.
<1>39. ASSUME e = 0
       PROVE  /\ g = l[1] /\ g.last /\ N2 = Plus(N, 1)
              /\ Len(m) = Len(l) - 1 /\ \A k \in 1 .. Len(m) : m[k] = l[k + 1] /\ k + 1 \in 1 .. Len(l)
  <2>1. g = l[1] /\ Len(m) = Len(l) - 1 /\ \A k \in 1 .. Len(m) : m[k] = l[k + 1]
    BY <1>7, <1>39 DEF Takes1
  <2> QED BY <1>17, <1>26, <1>38, <2>1
<1>40. ASSUME e = 1
       PROVE  /\ ~g.last /\ N2 = N /\ ~m[1].first /\ m[1].last /\ m[1].sdu = i0
              /\ Len(m) = Len(l) /\ \A k \in 2 .. Len(m) : m[k] = l[k] /\ k \in 1 .. Len(l)
  <2>1. Len(m) = Len(l) /\ (\A k \in 2 .. Len(m) : m[k] = l[k]) /\ Cuts(l[1], g, m[1])
    BY <1>7, <1>40 DEF Takes1
  <2>2. m[1] \in Segs /\ m[1].sdu = i0
    BY <1>8, <1>18, <2>1 DEF Cuts
  <2>3. PICK so \in Nat, n \in Nat, so2 \in Nat, n2 \in Nat :
          /\ so = g.so /\ n = g.size /\ so2 = m[1].so /\ n2 = m[1].size /\ n >= 1 /\ n2 >= 1
    BY <1>8, <2>2, SegTypes
  <2>4. so2 = so + n /\ so2 + n2 = SduSize
    <3>1. l[1].so + l[1].size = SduSize
      BY <1>38, SegTypes
    <3> QED BY <2>1, <2>3, <3>1 DEF Cuts
  <2>5. so2 # 0 /\ so + n # SduSize
    <3>1. SduSize \in Nat /\ n >= 1 /\ n2 >= 1
      BY <2>3, Constants
    <3> QED BY <2>4, <3>1
  <2>6. ~g.last /\ ~m[1].first /\ m[1].last
    BY <1>8, <2>2, <2>3, <2>4, <2>5, SegTypes
  <2> QED BY <1>17, <1>26, <2>1, <2>2, <2>6
<1>41. TxListOrder(u)
  <2>1. CASE e = 0
    <3>1. \A k \in 1 .. Len(m) : m[k].last /\ m[k].first
      <4> SUFFICES ASSUME NEW k \in 1 .. Len(m) PROVE m[k].last /\ m[k].first
        OBVIOUS
      <4>1. k + 1 \in 1 .. Len(l) /\ k + 1 # 1 /\ m[k] = l[k + 1]
        BY <1>39, <2>1
      <4> QED BY <1>36, <4>1
    <3>2. ASSUME NEW j \in 1 .. Len(m), NEW k \in 1 .. Len(m), m[j].sdu = m[k].sdu PROVE j = k
      <4>1. j + 1 \in 1 .. Len(l) /\ k + 1 \in 1 .. Len(l) /\ m[j] = l[j + 1] /\ m[k] = l[k + 1]
        BY <1>39, <2>1
      <4>2. j + 1 = k + 1
        BY <1>36, <3>2, <4>1
      <4> QED BY <4>2
    <3> QED BY <1>32, <3>1, <3>2 DEF TxListOrder
  <2>2. CASE e = 1
    <3>0. Len(m) = Len(l) /\ \A k \in 1 .. Len(m) : k = 1 \/ k \in 2 .. Len(m)
      BY <1>17, <1>40, <2>2
    <3>1. \A k \in 1 .. Len(m) : m[k].last /\ (k # 1 => m[k].first)
      BY <1>36, <1>40, <2>2, <3>0
    <3>2. \A k \in 1 .. Len(m) : m[k].sdu = l[k].sdu
      BY <1>8, <1>18, <1>40, <2>2, <3>0
    <3>3. \A j, k \in 1 .. Len(m) : m[j].sdu = m[k].sdu => j = k
      BY <1>36, <3>0, <3>2
    <3> QED BY <1>32, <3>1, <3>3 DEF TxListOrder
  <2> QED BY <1>8, <2>1, <2>2
<1>42. PICK d \in Nat : d = Off(B, N) /\ d < WindowSize
  <2>1. Off(B, N) \in Sns
    BY OffIs
  <2>2. Off(B, N) < WindowSize
    BY <1>1, <1>3, <1>19, NotStalling
  <2> QED BY <2>1, <2>2, Constants
<1>43. PICK d2 \in Nat : d2 = Off(B, N2) /\ d2 = IF g.last THEN d + 1 ELSE d
  <2>1. CASE g.last
    <3>1. Off(B, Plus(N, 1)) = IF Off(B, N) + 1 < SnModulus THEN Off(B, N) + 1
                               ELSE Off(B, N) + 1 - SnModulus
      BY OffPlus, Constants
    <3>2. d + 1 < SnModulus
      BY <1>42, Constants
    <3> QED BY <1>26, <1>42, <2>1, <3>1, <3>2
  <2>2. CASE ~g.last
    BY <1>26, <1>42, <2>2
  <2> QED BY <2>1, <2>2
<1>44. d2 <= WindowSize /\ d <= d2
  BY <1>42, <1>43, Constants
<1>45. TxWindow(u)
  BY <1>32, <1>43, <1>44 DEF TxWindow, modulus_tx, Off
<1>46. \A i \in H : \/ t.sdu[i].sn = -1
                    \/ Off(B, t.sdu[i].sn) < d
                    \/ i = i0
  <2>1. \A i \in H : \/ t.sdu[i].sn = -1
                     \/ modulus_tx(t, t.sdu[i].sn) < modulus_tx(t, t.tx_next)
                     \/ /\ t.tx_list # <<>> /\ t.tx_list[1].sdu = i
                        /\ t.sdu[i].sn = t.tx_next
    BY DEF TxInv, Numbered
  <2>2. modulus_tx(t, t.tx_next) = d /\ \A a : modulus_tx(t, a) = Off(B, a)
    BY <1>19, <1>42 DEF modulus_tx, Off
  <2>3. t.tx_list[1].sdu = i0
    BY <1>2, <1>8, <1>18
  <2> QED BY <2>1, <2>2, <2>3
<1>47. u.sdu[i0].sn = N /\ \A i \in SduIds \ {i0} : u.sdu[i] = t.sdu[i]
  BY <1>21, <1>23, <1>24, <1>32
<1>48. Numbered(u, H)
  <2>1. ASSUME NEW i \in H
        PROVE  \/ u.sdu[i].sn = -1
               \/ modulus_tx(u, u.sdu[i].sn) < modulus_tx(u, u.tx_next)
               \/ u.tx_list # <<>> /\ u.tx_list[1].sdu = i /\ u.sdu[i].sn = u.tx_next
    <3>1. modulus_tx(u, u.tx_next) = d2 /\ \A a : modulus_tx(u, a) = Off(B, a)
      BY <1>32, <1>43 DEF modulus_tx, Off
    <3>2. CASE i # i0
      <4>1. u.sdu[i].sn = t.sdu[i].sn
        BY <1>1, <1>47, <3>2
      <4>2. CASE t.sdu[i].sn = -1
        BY <4>1, <4>2
      <4>3. CASE t.sdu[i].sn # -1
        <5>1. PICK s \in Sns : s = t.sdu[i].sn
          BY <1>1, <4>3, TxFields
        <5>2. PICK o \in Int : o = Off(B, s)
          <6>1. Off(B, s) \in Sns
            BY OffIs
          <6> QED BY <6>1, Constants
        <5>3. o < d
          BY <1>46, <3>2, <4>3, <5>1, <5>2
        <5>4. o < d2
          BY <1>44, <5>3
        <5> QED BY <3>1, <4>1, <5>1, <5>2, <5>4
      <4> QED BY <4>2, <4>3
    <3>3. CASE i = i0 /\ e = 0
      <4>1. d < d2
        BY <1>39, <1>43, <3>3
      <4> QED BY <1>42, <1>47, <3>1, <3>3, <4>1
    <3>4. CASE i = i0 /\ e = 1
      <4>1. Len(m) >= 1 /\ m[1].sdu = i0 /\ N2 = N
        BY <1>17, <1>40, <3>4
      <4>2. m # <<>>
        BY <4>1
      <4> QED BY <1>32, <1>47, <3>4, <4>1, <4>2
    <3> QED BY <1>8, <3>2, <3>3, <3>4
  <2>2. ASSUME NEW k \in 1 .. Len(m)
        PROVE  u.sdu[m[k].sdu].sn = IF m[k].first THEN -1 ELSE u.tx_next
    <3>1. ASSUME NEW j \in 1 .. Len(l), j # 1 PROVE u.sdu[l[j].sdu].sn = -1 /\ l[j].first
      <4>1. l[j].sdu # i0 /\ l[j].sdu \in SduIds
        BY <1>1, <1>8, <1>16, <1>17, <1>18, <1>36, <3>1
      <4>2. l[j].first
        BY <1>36, <3>1
      <4>3. t.sdu[l[j].sdu].sn = -1
        BY <1>37, <4>2
      <4> QED BY <1>47, <4>1, <4>2, <4>3
    <3>2. CASE e = 0
      <4>1. k + 1 \in 1 .. Len(l) /\ k + 1 # 1 /\ m[k] = l[k + 1]
        BY <1>39, <3>2
      <4>2. u.sdu[l[k + 1].sdu].sn = -1 /\ l[k + 1].first
        BY <3>1, <4>1
      <4> QED BY <4>1, <4>2
    <3>3. CASE e = 1 /\ k = 1
      <4>1. ~m[1].first /\ m[1].sdu = i0 /\ N2 = N
        BY <1>40, <3>3
      <4> QED BY <1>32, <1>47, <3>3, <4>1
    <3>4. CASE e = 1 /\ k # 1
      <4>1. k \in 2 .. Len(m)
        BY <3>4
      <4>2. m[k] = l[k] /\ k \in 1 .. Len(l)
        BY <1>40, <3>4, <4>1
      <4>3. u.sdu[l[k].sdu].sn = -1 /\ l[k].first
        BY <3>1, <3>4, <4>2
      <4> QED BY <4>2, <4>3
    <3> QED BY <1>8, <3>2, <3>3, <3>4
  <2>3. ASSUME NEW i \in H, NEW j \in H, u.sdu[i].sn # -1, u.sdu[i].sn = u.sdu[j].sn
        PROVE  i = j
    <3>1. ASSUME NEW x \in H, x # i0 PROVE u.sdu[x].sn # N
      <4>1. u.sdu[x].sn = t.sdu[x].sn
        BY <1>1, <1>47, <3>1
      <4>2. SUFFICES ASSUME t.sdu[x].sn = N PROVE FALSE
        BY <4>1
      <4>3. N # -1
        BY Constants
      <4>4. Off(B, N) < d
        BY <1>46, <3>1, <4>2, <4>3
      <4> QED BY <1>42, <4>4
    <3>2. CASE i = i0 \/ j = i0
      BY <1>47, <2>3, <3>1, <3>2
    <3>3. CASE i # i0 /\ j # i0
      <4>1. u.sdu[i] = t.sdu[i] /\ u.sdu[j] = t.sdu[j]
        BY <1>1, <1>47, <3>3
      <4>2. t.sdu[i].sn # -1 /\ t.sdu[i].sn = t.sdu[j].sn
        BY <2>3, <4>1
      <4> QED BY <4>2 DEF TxInv, Numbered
    <3> QED BY <3>2, <3>3
  <2>4. SentSum(u, Unnumbered(u.sdu)) = 0
    <3>1. \A i \in SduIds : t.sdu[i].sn # -1 => u.sdu[i].sn # -1
      <4>1. N # -1
        BY Constants
      <4> QED BY <1>47, <4>1
    <3>2. \A k \in 1 .. Len(q) : u.sdu[q[k].sdu].sn # -1
      <4>1. Len(q) = Len(wl) + 1 /\ q[Len(wl) + 1] = g /\ \A k \in 1 .. Len(wl) : q[k] = wl[k]
        BY <1>25
      <4>2. u.sdu[g.sdu].sn # -1
        BY <1>18, <1>47, Constants
      <4>3. \A k \in 1 .. Len(wl) : u.sdu[wl[k].sdu].sn # -1
        BY <1>1, <1>16, <3>1
      <4>4. \A k \in 1 .. Len(q) : k \in 1 .. Len(wl) \/ k = Len(wl) + 1
        BY <4>1
      <4> QED BY <4>1, <4>2, <4>3, <4>4
    <3>3. \A k \in 1 .. Len(rl) : u.sdu[rl[k].sdu].sn # -1
      BY <1>1, <1>16, <3>1
    <3>4. \A k \in 1 .. Len(al) : u.sdu[al[k].sdu].sn # -1
      BY <1>1, <1>16, <3>1
    <3> QED BY <1>31, <1>32, <3>2, <3>3, <3>4, AllNumbered
  <2>5. \A i, j \in H : u.sdu[i].sn # -1 /\ u.sdu[i].sn = u.sdu[j].sn => i = j
    BY <2>3
  <2>6. \A k \in 1 .. Len(u.tx_list) :
          u.sdu[u.tx_list[k].sdu].sn = IF u.tx_list[k].first THEN -1 ELSE u.tx_next
    BY <1>32, <2>2
  <2> QED BY <2>1, <2>4, <2>5, <2>6 DEF Numbered
<1>49. TxSizes(u)
  BY <1>2, <1>7, <1>32 DEF TxInv, TxSizes
<1>50. RetxCounted(u)
  <2>1. \A i \in SduIds : u.sdu[i].retx_count = t.sdu[i].retx_count
    BY <1>24, <1>32
  <2>2. \A k \in 1 .. Len(rl) : rl[k].sdu \in SduIds /\ t.sdu[rl[k].sdu].retx_count >= 0
    BY <1>1, <1>2, <1>16 DEF TxInv, RetxCounted
  <2>3. \A i \in SduIds : t.sdu[i].retx_count >= -1
    BY DEF TxInv, RetxCounted
  <2> QED BY <1>32, <2>1, <2>2, <2>3 DEF RetxCounted
<1>51. TxInv(u, H)
  BY <1>31, <1>35, <1>41, <1>45, <1>48, <1>49, <1>50 DEF TxInv
<1> QED BY <1>8, <1>18, <1>32, <1>47, <1>51

-----------------------------------------------------------------------------
DataPdus ==
  {d \in [sdu : SduIds, sn : Sns, so : Nat, size : Nat, first : BOOLEAN, last : BOOLEAN,
          p : BOOLEAN] :
     /\ d.size >= 1 /\ d.so + d.size <= SduSize
     /\ d.first <=> d.so = 0
     /\ d.last <=> d.so + d.size = SduSize}

\* A step that changes neither the lists nor the windows keeps the invariant.
LEMMA SameKeeps ==
  ASSUME NEW H, NEW t, TxInv(t, H), NEW u, u \in TxStates,
         u.tx_next = t.tx_next, u.tx_next_ack = t.tx_next_ack, u.tx_list = t.tx_list,
         u.wait_list = t.wait_list, u.retransmit_list = t.retransmit_list,
         u.ack_list = t.ack_list, u.tx_size = t.tx_size,
         u.bs_tx = t.bs_tx, u.bs_retx = t.bs_retx, u.sdu = t.sdu
  PROVE  TxInv(u, H)
<1>1. Moved(t, u)
  BY DEF Moved, SentSum
<1>2. RetxCounted(u) /\ u.bs_retx = Sum(u.retransmit_list, PduW)
  BY DEF TxInv, RetxCounted, TxSizes
<1> QED BY <1>1, <1>2, MovedKeeps

\* Writing the header, poll bit included, keeps the invariant.
LEMMA SerializedKeeps ==
  ASSUME NEW H, NEW t, TxInv(t, H), NEW g \in Segs, t.sdu[g.sdu].sn \in Sns, NEW p \in BOOLEAN,
         NEW s, s = Serialized(t, g, p)
  PROVE  TxInv(s.t, H) /\ s.t.tx_size = t.tx_size /\ s.pdu \in DataPdus
<1>1. t \in TxStates
  BY DEF TxInv
<1>2. PICK v : v = IF p THEN include_poll(t) ELSE t
  OBVIOUS
<1>3. s.t = [v EXCEPT !.force_poll = FALSE] /\ s.pdu = DataPdu(t, g, p)
  BY <1>2 DEF Serialized
<1>4. PICK n \in Sns : n = (t.tx_next - 1) % SnModulus
  BY <1>1, TxFields, LessOne
<1>5. /\ v \in TxStates
      /\ v.tx_next = t.tx_next /\ v.tx_next_ack = t.tx_next_ack /\ v.tx_list = t.tx_list
      /\ v.wait_list = t.wait_list /\ v.retransmit_list = t.retransmit_list
      /\ v.ack_list = t.ack_list /\ v.tx_size = t.tx_size
      /\ v.bs_tx = t.bs_tx /\ v.bs_retx = t.bs_retx /\ v.sdu = t.sdu
  <2>1. CASE p
    <3>1. v = [t EXCEPT !.pdu_without_poll = 0, !.byte_without_poll = 0, !.poll_sn = n,
                        !.polling = TRUE]
      BY <1>2, <1>4, <2>1 DEF include_poll
    <3>2. v \in TxStates
      BY <1>1, <3>1 DEF TxStates
    <3> QED BY <1>1, <3>1, <3>2 DEF TxStates
  <2>2. CASE ~p
    BY <1>1, <1>2, <2>2
  <2> QED BY <2>1, <2>2
<1>6. PICK u : u = s.t
  OBVIOUS
<1>7. u \in TxStates
  BY <1>3, <1>5, <1>6 DEF TxStates
<1>8. /\ u.tx_next = t.tx_next /\ u.tx_next_ack = t.tx_next_ack /\ u.tx_list = t.tx_list
      /\ u.wait_list = t.wait_list /\ u.retransmit_list = t.retransmit_list
      /\ u.ack_list = t.ack_list /\ u.tx_size = t.tx_size
      /\ u.bs_tx = t.bs_tx /\ u.bs_retx = t.bs_retx /\ u.sdu = t.sdu
  BY <1>3, <1>5, <1>6 DEF TxStates
<1>9. TxInv(u, H)
  BY <1>7, <1>8, SameKeeps
<1>10. DataPdu(t, g, p) \in DataPdus
  <2>1. PICK d : d = DataPdu(t, g, p)
    OBVIOUS
  <2>2. /\ d = [sdu |-> g.sdu, sn |-> t.sdu[g.sdu].sn, so |-> g.so, size |-> g.size,
                first |-> g.first, last |-> g.last, p |-> p]
    BY <2>1 DEF DataPdu, SnOf
  <2>3. g.first \in BOOLEAN /\ g.last \in BOOLEAN
    BY SegTypes DEF Segments
  <2>4. g.sdu \in SduIds /\ g.so \in Nat /\ g.size \in Nat
    BY SegTypes
  <2>5. d \in [sdu : SduIds, sn : Sns, so : Nat, size : Nat, first : BOOLEAN, last : BOOLEAN,
               p : BOOLEAN]
    BY <2>2, <2>3, <2>4
  <2>6. d.so = g.so /\ d.size = g.size /\ d.first = g.first /\ d.last = g.last
    BY <2>2
  <2>7. /\ d.size >= 1 /\ d.so + d.size <= SduSize
        /\ d.first <=> d.so = 0
        /\ d.last <=> d.so + d.size = SduSize
    BY <2>6, SegTypes
  <2> QED BY <2>1, <2>5, <2>7 DEF DataPdus
<1> QED BY <1>3, <1>6, <1>8, <1>9, <1>10

(* nr_rlc_entity_am_generate_pdu *)
LEMMA GenerateKeeps ==
  ASSUME NEW H, NEW t, TxInv(t, H), NEW size \in Nat,
         CanRetransmit(t, size) \/ CanTransmit(t, size), NEW s, s = Generated(t, size)
  PROVE  TxInv(s.t, H) /\ s.t.tx_size = t.tx_size /\ s.pdu \in DataPdus
<1>1. CASE CanRetransmit(t, size)
  <2>1. PICK g : g = Sent(t.retransmit_list, size)
    OBVIOUS
  <2>2. PICK u : u = TakeRetx(t, t.retransmit_list, g, size)
    OBVIOUS
  <2>3. TxInv(u, H) /\ u.tx_size = t.tx_size /\ g \in Segs /\ u.sdu[g.sdu].sn \in Sns
    BY <1>1, <2>1, <2>2, TakeRetxKeeps
  <2>4. PICK p \in BOOLEAN : p = (check_poll_after_pdu_assembly(u) \/ u.force_poll)
    OBVIOUS
  <2>5. s = Serialized(u, g, p)
    BY <1>1, <2>1, <2>2, <2>4 DEF Generated, generate_retx_pdu, RetxSegment, SendRetx, serialize_sdu
  <2>6. TxInv(s.t, H) /\ s.t.tx_size = u.tx_size /\ s.pdu \in DataPdus
    BY <2>3, <2>5, SerializedKeeps
  <2> QED BY <2>3, <2>6
<1>2. CASE ~CanRetransmit(t, size)
  <2>1. PICK g : g = Sent(t.tx_list, size)
    OBVIOUS
  <2>2. PICK u : u = TakeTx(t, t.tx_list, g, size)
    OBVIOUS
  <2>3. TxInv(u, H) /\ u.tx_size = t.tx_size /\ g \in Segs /\ u.sdu[g.sdu].sn \in Sns
    BY <1>2, <2>1, <2>2, TakeTxKeeps
  <2>4. PICK p \in BOOLEAN : p = (PollDue(u) \/ u.force_poll)
    OBVIOUS
  <2>5. s = Serialized(u, g, p)
    BY <1>2, <2>1, <2>2, <2>4 DEF Generated, generate_tx_pdu, TxSegment, SendTx, serialize_sdu
  <2>6. TxInv(s.t, H) /\ s.t.tx_size = u.tx_size /\ s.pdu \in DataPdus
    BY <2>3, <2>5, SerializedKeeps
  <2> QED BY <2>3, <2>6
<1> QED BY <1>1, <1>2

(* check_t_poll_retransmit *)
LEMMA PollKeeps ==
  ASSUME NEW H, NEW t, TxInv(t, H), NEW s, s = check_t_poll_retransmit(t)
  PROVE  TxInv(s, H) /\ s.tx_size = t.tx_size
<1>1. t \in TxStates /\ H \subseteq SduIds
  BY DEF TxInv, HeldOnly
<1>2. ASSUME NEW sn PROVE TxInv(RetransmitSn(t, sn), H) /\ RetransmitSn(t, sn).tx_size = t.tx_size
  <2>1. PICK hit : hit = {seg \in ToSet(t.wait_list) : SnOf(t, seg) = sn}
    OBVIOUS
  <2>2. PICK wl \in Seq(Segs) : wl = t.wait_list
    BY <1>1, TxFields
  <2>3. HitsOne(t, hit, TRUE)
    <3> SUFFICES ASSUME NEW s1 \in hit, NEW s2 \in hit PROVE s1.sdu = s2.sdu
      BY DEF HitsOne
    <3>1. PICK k1 \in 1 .. Len(wl), k2 \in 1 .. Len(wl) : s1 = wl[k1] /\ s2 = wl[k2]
      BY <2>1, <2>2, SeqFacts DEF ToSet
    <3>2. /\ s1.sdu \in H /\ SnOf(t, s1) # -1 /\ s2.sdu \in H
      BY <2>2, <3>1, InListsHeld
    <3>3. t.sdu[s1.sdu].sn = t.sdu[s2.sdu].sn /\ t.sdu[s1.sdu].sn # -1
      BY <2>1, <3>2 DEF SnOf
    <3> QED BY <3>2, <3>3 DEF TxInv, Numbered
  <2> QED BY <2>1, <2>3, RetransmitWaitingKeeps DEF RetransmitSn
<1>3. PICK v : v = IF PollRetransmits(t) THEN RetransmitNewest(t, (t.tx_next - 1) % SnModulus) ELSE t
  OBVIOUS
<1>4. s = [v EXCEPT !.polling = FALSE, !.force_poll = TRUE]
  BY <1>3 DEF check_t_poll_retransmit
<1>5. TxInv(v, H) /\ v.tx_size = t.tx_size
  BY <1>2, <1>3 DEF RetransmitNewest
<1>6. v \in TxStates
  BY <1>5 DEF TxInv
<1>7. s \in TxStates
  BY <1>4, <1>6 DEF TxStates
<1>8. /\ s.tx_next = v.tx_next /\ s.tx_next_ack = v.tx_next_ack /\ s.tx_list = v.tx_list
      /\ s.wait_list = v.wait_list /\ s.retransmit_list = v.retransmit_list
      /\ s.ack_list = v.ack_list /\ s.tx_size = v.tx_size
      /\ s.bs_tx = v.bs_tx /\ s.bs_retx = v.bs_retx /\ s.sdu = v.sdu
  BY <1>4, <1>6 DEF TxStates
<1>9. TxInv(s, H)
  BY <1>5, <1>7, <1>8, SameKeeps
<1> QED BY <1>5, <1>8, <1>9

(* What clear_entity leaves. *)
LEMMA FreshTxInv == TxInv(FreshTx, {}) /\ FreshTx.tx_size = 0
<1>1. PICK t : t = FreshTx
  OBVIOUS
<1>2. FreshSdu \in SduRecs /\ 0 \in Sns
  BY Constants DEF FreshSdu, SduRecs
<1>3. <<>> \in Seq(Segs)
  OBVIOUS
<1>4. t \in TxStates
  BY <1>1, <1>2, <1>3 DEF FreshTx, TxStates
<1>5. /\ t.tx_list = <<>> /\ t.wait_list = <<>> /\ t.retransmit_list = <<>> /\ t.ack_list = <<>>
      /\ t.tx_next = 0 /\ t.tx_next_ack = 0 /\ t.bs_tx = 0 /\ t.bs_retx = 0 /\ t.tx_size = 0
      /\ \A i \in SduIds : t.sdu[i] = FreshSdu
  BY <1>1 DEF FreshTx
<1>6. \A w \in [Segs -> Int] : Sum(<<>>, w) = 0
  BY SumEmpty
<1>7. \A w \in [Segs -> Int] : AllSum(t, w) = 0 /\ SentSum(t, w) = 0
  BY <1>5, <1>6 DEF AllSum, SentSum
<1>8. Partitioned(t, {})
  BY DEF Partitioned
<1>9. HeldOnly(t, {})
  BY <1>5, <1>7, WeightTypes DEF HeldOnly
<1>10. Len(t.tx_list) = 0 /\ Len(t.retransmit_list) = 0
  BY <1>5
<1>11. TxListOrder(t)
  BY <1>10 DEF TxListOrder
<1>12. Numbered(t, {})
  <2>1. SentSum(t, Unnumbered(t.sdu)) = 0
    BY <1>7, WeightTypes
  <2> QED BY <1>10, <2>1 DEF Numbered
<1>13. TxWindow(t)
  <2>1. (0 - 0) % SnModulus <= WindowSize
    BY Constants
  <2> QED BY <1>5, <2>1 DEF TxWindow, modulus_tx
<1>14. TxSizes(t)
  BY <1>5, <1>6, WeightTypes DEF TxSizes
<1>15. RetxCounted(t)
  BY <1>5, <1>10 DEF RetxCounted, FreshSdu
<1> QED BY <1>1, <1>4, <1>5, <1>8, <1>9, <1>11, <1>12, <1>13, <1>14, <1>15 DEF TxInv

-----------------------------------------------------------------------------
(* nr_rlc_entity_am_discard_sdu *)
LEMMA DiscardKeeps ==
  ASSUME NEW H, NEW t, TxInv(t, H), NEW i \in SduIds, CanDiscard(t, i), NEW u, u = discard_sdu(t, i)
  PROVE  TxInv(u, H \ {i}) /\ u.tx_size = t.tx_size
<1>1. t \in TxStates /\ H \subseteq SduIds
  BY DEF TxInv, HeldOnly
<1>2. PICK tl \in Seq(Segs), wl \in Seq(Segs), rl \in Seq(Segs), al \in Seq(Segs) :
        tl = t.tx_list /\ wl = t.wait_list /\ rl = t.retransmit_list /\ al = t.ack_list
  BY <1>1, TxFields
<1>3. PICK its : its = SegmentsOf(tl, {i})
  OBVIOUS
<1>4. PICK at \in Seq(Segs), ao \in Seq(Segs) : at = Those(tl, its) /\ ao = Others(tl, its)
  BY ThoseType
<1>5. its = {s \in ToSet(tl) : s.sdu \in {i}}
  BY <1>3 DEF SegmentsOf
<1>6. \A k \in 1 .. Len(tl) : tl[k] \in ToSet(tl) /\ (tl[k] \in its <=> tl[k].sdu = i)
  <2>1. \A k \in 1 .. Len(tl) : tl[k] \in ToSet(tl)
    BY SeqFacts DEF ToSet
  <2> QED BY <1>5, <2>1
<1>7. /\ \A k \in 1 .. Len(at) : at[k].sdu = i
      /\ \A k \in 1 .. Len(ao) : ao[k].sdu # i
  <2>1. \A k \in 1 .. Len(at) : at[k] \in its /\ \E j \in 1 .. Len(tl) : at[k] = tl[j]
    BY <1>4, ThoseElements
  <2>2. \A k \in 1 .. Len(ao) : ao[k] \notin its /\ \E j \in 1 .. Len(tl) : ao[k] = tl[j]
    BY <1>4, ThoseElements
  <2>3. ASSUME NEW k \in 1 .. Len(at) PROVE at[k].sdu = i
    BY <1>5, <2>1
  <2>4. ASSUME NEW k \in 1 .. Len(ao) PROVE ao[k].sdu # i
    <3>1. PICK j \in 1 .. Len(tl) : ao[k] = tl[j]
      BY <2>2
    <3>2. tl[j] \notin its
      BY <2>2, <3>1
    <3> QED BY <1>6, <3>1, <3>2
  <2> QED BY <2>3, <2>4
<1>8. PICK n \in Int : n = Bytes(at) /\ n = Sum(at, PduW)
  <2>1. Bytes(at) = Sum(at, PduW)
    BY BytesIsSum
  <2>2. PduW \in [Segs -> Int]
    BY WeightTypes
  <2>3. Sum(at, PduW) \in Int
    BY <2>2, SumType
  <2> QED BY <2>1, <2>3
<1>9. PICK f : f = [t.sdu EXCEPT ![i] = FreshSdu]
  OBVIOUS
<1>10. f \in [SduIds -> SduRecs] /\ f[i] = FreshSdu /\ \A j \in SduIds \ {i} : f[j] = t.sdu[j]
  <2>1. FreshSdu \in SduRecs
    BY DEF FreshSdu, SduRecs
  <2> QED BY <1>1, <1>9, <2>1, TxFields
<1>11. u = [t EXCEPT !.tx_list = ao, !.bs_tx = t.bs_tx - n, !.sdu = f]
  BY <1>2, <1>3, <1>4, <1>8, <1>9 DEF discard_sdu
<1>12. t.bs_tx - n \in Int
  BY <1>1, TxFields
<1>13. u \in TxStates
  BY <1>1, <1>10, <1>11, <1>12 DEF TxStates
<1>14. /\ u.tx_next = t.tx_next /\ u.tx_next_ack = t.tx_next_ack /\ u.tx_list = ao
       /\ u.wait_list = wl /\ u.retransmit_list = rl /\ u.ack_list = al
       /\ u.tx_size = t.tx_size /\ u.bs_tx = t.bs_tx - n /\ u.bs_retx = t.bs_retx /\ u.sdu = f
  BY <1>1, <1>2, <1>11 DEF TxStates
<1>15. /\ \A k \in 1 .. Len(tl) : tl[k].sdu \in H
       /\ \A k \in 1 .. Len(wl) : wl[k].sdu \in H /\ t.sdu[wl[k].sdu].sn # -1
       /\ \A k \in 1 .. Len(rl) : rl[k].sdu \in H /\ t.sdu[rl[k].sdu].sn # -1
       /\ \A k \in 1 .. Len(al) : al[k].sdu \in H /\ t.sdu[al[k].sdu].sn # -1
  BY <1>2, InListsHeld DEF SnOf
<1>16. \A k \in 1 .. Len(tl) : t.sdu[tl[k].sdu].sn = IF tl[k].first THEN -1 ELSE t.tx_next
  BY <1>2 DEF TxInv, Numbered
\* Nothing of the SDU was sent.
<1>17. t.sdu[i].sn = -1 /\ i \in H
  <2>1. PICK k \in 1 .. Len(tl) : tl[k].sdu = i /\ tl[k].first
    <3>1. DOMAIN tl = 1 .. Len(tl)
      BY SeqFacts
    <3> QED BY <1>2, <3>1 DEF CanDiscard
  <2> QED BY <1>15, <1>16, <2>1
<1>18. /\ \A k \in 1 .. Len(wl) : wl[k].sdu # i
       /\ \A k \in 1 .. Len(rl) : rl[k].sdu # i
       /\ \A k \in 1 .. Len(al) : al[k].sdu # i
  BY <1>15, <1>17
<1>19. ASSUME NEW w \in [Segs -> Int], \A s \in Segs : s.sdu = i => w[s] = 0
       PROVE  AllSum(u, w) = AllSum(t, w)
  <2>1. Sum(tl, w) = Sum(at, w) + Sum(ao, w)
    BY <1>4, SumSplits
  <2>2. \A k \in 1 .. Len(at) : w[at[k]] = 0
    BY <1>7, <1>19, SeqFacts
  <2>3. Sum(at, w) = 0
    BY <2>2, SumZero
  <2>4. Sum(ao, w) \in Int
    BY SumType
  <2>5. Sum(tl, w) = Sum(ao, w)
    BY <2>1, <2>3, <2>4
  <2> QED BY <1>2, <1>14, <2>5 DEF AllSum, SentSum
<1>20. ASSUME NEW j, j # i
       PROVE  AllSum(u, Of(j)) = AllSum(t, Of(j)) /\ \A b : AllSum(u, Covers(j, b)) = AllSum(t, Covers(j, b))
  <2>1. ASSUME NEW P, \A s \in Segs : s.sdu = i => s \notin P
        PROVE  AllSum(u, Ind(Segs, P)) = AllSum(t, Ind(Segs, P))
    <3>1. PICK w \in [Segs -> Int] : w = Ind(Segs, P)
      BY IndType
    <3>2. \A s \in Segs : s.sdu = i => w[s] = 0
      BY <2>1, <3>1, IndType
    <3> QED BY <1>19, <3>1, <3>2
  <2>2. AllSum(u, Of(j)) = AllSum(t, Of(j))
    <3>1. PICK P : P = {s \in Segs : s.sdu = j}
      OBVIOUS
    <3>2. \A s \in Segs : s.sdu = i => s \notin P
      BY <1>20, <3>1
    <3> QED BY <2>1, <3>1, <3>2 DEF Of
  <2>3. ASSUME NEW b PROVE AllSum(u, Covers(j, b)) = AllSum(t, Covers(j, b))
    <3>1. PICK P : P = {s \in Segs : s.sdu = j /\ s.so <= b /\ b < s.so + s.size}
      OBVIOUS
    <3>2. \A s \in Segs : s.sdu = i => s \notin P
      BY <1>20, <3>1
    <3> QED BY <2>1, <3>1, <3>2 DEF Covers
  <2> QED BY <2>2, <2>3
<1>21. \A j \in H \ {i} : u.sdu[j] = t.sdu[j]
  BY <1>1, <1>10, <1>14
<1>22. Partitioned(u, H \ {i})
  <2> SUFFICES ASSUME NEW j \in H \ {i}
               PROVE  /\ \A b \in 0 .. SduSize - 1 : AllSum(u, Covers(j, b)) = 1
                      /\ u.sdu[j].ref_count = AllSum(u, Of(j))
    BY DEF Partitioned
  <2>1. /\ \A b \in 0 .. SduSize - 1 : AllSum(t, Covers(j, b)) = 1
        /\ t.sdu[j].ref_count = AllSum(t, Of(j))
    BY DEF TxInv, Partitioned
  <2>2. u.sdu[j] = t.sdu[j]
    BY <1>21
  <2> QED BY <1>20, <2>1, <2>2
<1>23. HeldOnly(u, H \ {i})
  <2>1. ASSUME NEW j \in SduIds \ H PROVE AllSum(u, Of(j)) = 0 /\ u.sdu[j] = FreshSdu
    <3>1. j # i /\ AllSum(t, Of(j)) = 0 /\ t.sdu[j] = FreshSdu
      BY <1>17 DEF TxInv, HeldOnly
    <3> QED BY <1>10, <1>14, <1>20, <3>1
  <2>2. AllSum(u, Of(i)) = 0 /\ u.sdu[i] = FreshSdu
    <3>1. /\ Sum(ao, Of(i)) = 0 /\ Sum(wl, Of(i)) = 0 /\ Sum(rl, Of(i)) = 0 /\ Sum(al, Of(i)) = 0
      BY <1>7, <1>18, NoneOf
    <3> QED BY <1>10, <1>14, <3>1 DEF AllSum, SentSum
  <2> QED BY <1>1, <2>1, <2>2 DEF HeldOnly
<1>24. PICK p : Picks(tl, ToSet(tl) \ its, ao, p, Len(tl))
  BY <1>4, ThosePick DEF Others
<1>25. /\ p \in [1 .. Len(ao) -> 1 .. Len(tl)]
       /\ \A j, k \in 1 .. Len(ao) : j < k => p[j] < p[k]
       /\ \A k \in 1 .. Len(ao) : ao[k] = tl[p[k]]
       /\ \A k \in 1 .. Len(tl) : tl[k] \in ToSet(tl) \ its => \E j \in 1 .. Len(ao) : p[j] = k
  BY <1>24 DEF Picks
<1>26. Len(ao) \in Nat /\ Len(tl) \in Nat
  BY SeqFacts
<1>27. /\ \A k \in 1 .. Len(tl) : tl[k].last /\ (k # 1 => tl[k].first)
       /\ \A j, k \in 1 .. Len(tl) : tl[j].sdu = tl[k].sdu => j = k
  BY <1>2 DEF TxInv, TxListOrder
<1>28. TxListOrder(u)
  <2>1. ASSUME NEW k \in 1 .. Len(ao) PROVE ao[k].last /\ (k # 1 => ao[k].first)
    <3>1. p[k] \in 1 .. Len(tl) /\ ao[k] = tl[p[k]]
      BY <1>25
    <3>2. k # 1 => p[k] # 1
      <4> SUFFICES ASSUME k # 1 PROVE p[k] # 1
        OBVIOUS
      <4>1. 1 \in 1 .. Len(ao) /\ 1 < k
        BY <1>26
      <4>2. p[1] < p[k] /\ p[1] \in 1 .. Len(tl)
        BY <1>25, <4>1
      <4> QED BY <1>26, <3>1, <4>2
    <3> QED BY <1>27, <3>1, <3>2
  <2>2. ASSUME NEW j \in 1 .. Len(ao), NEW k \in 1 .. Len(ao), ao[j].sdu = ao[k].sdu PROVE j = k
    <3>1. p[j] \in 1 .. Len(tl) /\ p[k] \in 1 .. Len(tl) /\ p[j] = p[k]
      <4>1. p[j] \in 1 .. Len(tl) /\ p[k] \in 1 .. Len(tl)
        BY <1>25
      <4>2. tl[p[j]].sdu = tl[p[k]].sdu
        BY <1>25, <2>2
      <4> QED BY <1>27, <4>1, <4>2
    <3>2. ~(j < k) /\ ~(k < j)
      <4>1. p[j] \in Int /\ ~(p[j] < p[k]) /\ ~(p[k] < p[j])
        BY <1>26, <3>1
      <4> QED BY <1>25, <4>1
    <3> QED BY <1>26, <3>2
  <2> QED BY <1>14, <2>1, <2>2 DEF TxListOrder
<1>29. Numbered(u, H \ {i})
  <2>1. ASSUME NEW j \in H \ {i}
        PROVE  \/ u.sdu[j].sn = -1
               \/ modulus_tx(u, u.sdu[j].sn) < modulus_tx(u, u.tx_next)
               \/ u.tx_list # <<>> /\ u.tx_list[1].sdu = j /\ u.sdu[j].sn = u.tx_next
    <3>1. \/ t.sdu[j].sn = -1
          \/ modulus_tx(t, t.sdu[j].sn) < modulus_tx(t, t.tx_next)
          \/ t.tx_list # <<>> /\ t.tx_list[1].sdu = j /\ t.sdu[j].sn = t.tx_next
      BY DEF TxInv, Numbered
    <3>2. \A a : modulus_tx(u, a) = modulus_tx(t, a)
      BY <1>14 DEF modulus_tx
    <3>3. ASSUME tl # <<>>, tl[1].sdu = j PROVE ao # <<>> /\ ao[1].sdu = j
      <4>1. 1 \in 1 .. Len(tl)
        BY <1>26, <3>3, SeqFacts
      <4>2. tl[1] \in ToSet(tl) \ its
        BY <1>6, <3>3, <4>1
      <4>3. PICK k \in 1 .. Len(ao) : p[k] = 1
        BY <1>25, <4>1, <4>2
      <4>4. k = 1
        <5> SUFFICES ASSUME k # 1 PROVE FALSE
          OBVIOUS
        <5>1. 1 \in 1 .. Len(ao) /\ 1 < k
          BY <1>26
        <5>2. p[1] < p[k] /\ p[1] \in 1 .. Len(tl)
          BY <1>25, <5>1
        <5> QED BY <1>26, <4>3, <5>2
      <4>5. ao[1] = tl[1]
        BY <1>25, <4>3, <4>4
      <4> QED BY <3>3, <4>3, <4>4, <4>5, SeqFacts
    <3>4. u.sdu[j] = t.sdu[j]
      BY <1>21
    <3> QED BY <1>2, <1>14, <3>1, <3>2, <3>3, <3>4
  <2>2. ASSUME NEW k \in 1 .. Len(ao)
        PROVE  u.sdu[ao[k].sdu].sn = IF ao[k].first THEN -1 ELSE u.tx_next
    <3>1. p[k] \in 1 .. Len(tl) /\ ao[k] = tl[p[k]]
      BY <1>25
    <3>2. ao[k].sdu \in H \ {i}
      BY <1>7, <1>15, <3>1
    <3>3. u.sdu[ao[k].sdu] = t.sdu[ao[k].sdu]
      BY <1>21, <3>2
    <3>4. t.sdu[ao[k].sdu].sn = IF ao[k].first THEN -1 ELSE t.tx_next
      BY <1>16, <3>1
    <3> QED BY <1>14, <3>3, <3>4
  <2>3. \A k \in 1 .. Len(u.tx_list) :
          u.sdu[u.tx_list[k].sdu].sn = IF u.tx_list[k].first THEN -1 ELSE u.tx_next
    BY <1>14, <2>2
  <2>4. \A j, k \in H \ {i} : u.sdu[j].sn # -1 /\ u.sdu[j].sn = u.sdu[k].sn => j = k
    <3>1. \A j, k \in H : t.sdu[j].sn # -1 /\ t.sdu[j].sn = t.sdu[k].sn => j = k
      BY DEF TxInv, Numbered
    <3> SUFFICES ASSUME NEW j \in H \ {i}, NEW k \in H \ {i}, u.sdu[j].sn # -1,
                        u.sdu[j].sn = u.sdu[k].sn
                 PROVE  j = k
      BY Zenon
    <3>2. u.sdu[j] = t.sdu[j] /\ u.sdu[k] = t.sdu[k]
      BY <1>21
    <3> QED BY <3>1, <3>2, Zenon
  <2>5. SentSum(u, Unnumbered(u.sdu)) = 0
    <3>1. /\ \A k \in 1 .. Len(wl) : u.sdu[wl[k].sdu].sn # -1
          /\ \A k \in 1 .. Len(rl) : u.sdu[rl[k].sdu].sn # -1
          /\ \A k \in 1 .. Len(al) : u.sdu[al[k].sdu].sn # -1
      BY <1>15, <1>18, <1>21
    <3> QED BY <1>13, <1>14, <3>1, AllNumbered
  <2> QED BY <2>1, <2>3, <2>4, <2>5 DEF Numbered
<1>30. TxWindow(u)
  BY <1>14 DEF TxInv, TxWindow, modulus_tx
<1>31. TxSizes(u)
  <2>1. PICK a \in Int, b \in Int : a = Sum(tl, PduW) /\ b = Sum(ao, PduW)
    <3>1. PduW \in [Segs -> Int]
      BY WeightTypes
    <3> QED BY <3>1, SumType
  <2>2. n + b = a
    BY <1>4, <1>8, <2>1, SumSplits, WeightTypes
  <2>3. t.bs_tx = a /\ t.bs_retx = Sum(rl, PduW)
    BY <1>2, <2>1 DEF TxInv, TxSizes
  <2>4. a - n = b
    BY <2>2
  <2> QED BY <1>14, <2>1, <2>3, <2>4 DEF TxSizes
<1>32. RetxCounted(u)
  <2>1. \A j \in SduIds : t.sdu[j].retx_count >= -1
    BY DEF TxInv, RetxCounted
  <2>2. \A j \in SduIds : u.sdu[j].retx_count >= -1
    <3>1. FreshSdu.retx_count = -1
      BY DEF FreshSdu
    <3>2. ASSUME NEW j \in SduIds PROVE f[j].retx_count >= -1
      <4>1. CASE j = i
        BY <1>10, <3>1, <4>1
      <4>2. CASE j # i
        BY <1>10, <2>1, <4>2
      <4> QED BY <4>1, <4>2
    <3> QED BY <1>14, <3>2
  <2>3. \A k \in 1 .. Len(rl) : t.sdu[rl[k].sdu].retx_count >= 0
    BY <1>2 DEF TxInv, RetxCounted
  <2>4. \A k \in 1 .. Len(rl) : u.sdu[rl[k].sdu].retx_count >= 0
    BY <1>15, <1>18, <1>21, <2>3
  <2> QED BY <1>14, <2>2, <2>4 DEF RetxCounted
<1>33. TxInv(u, H \ {i})
  BY <1>13, <1>22, <1>23, <1>28, <1>29, <1>30, <1>31, <1>32 DEF TxInv
<1> QED BY <1>14, <1>33

-----------------------------------------------------------------------------
(* What the invariant of the transmitter says of the properties.            *)

\* The invariant implies the type invariant of the transmitter.
LEMMA TxTyped ==
  ASSUME NEW H, NEW t, TxInv(t, H), t.tx_size \in Nat
  PROVE  TxTypeOK(t)
<1>1. t \in TxStates /\ H \subseteq SduIds
  BY DEF TxInv, HeldOnly
<1>2. {t.tx_next, t.tx_next_ack, t.poll_sn} \subseteq Sns
  BY <1>1, TxFields
<1>3. t.bs_tx \in Nat /\ t.bs_retx \in Nat
  <2>1. PduW \in [Segs -> Int] /\ \A s \in Segs : PduW[s] >= 0
    BY PduWType
  <2>2. \A l \in Seq(Segs) : Sum(l, PduW) \in Nat
    BY <2>1, SumBounds
  <2>3. t.tx_list \in Seq(Segs) /\ t.retransmit_list \in Seq(Segs)
    BY <1>1, TxFields
  <2> QED BY <2>2, <2>3 DEF TxInv, TxSizes
<1>4. t.pdu_without_poll \in Nat /\ t.byte_without_poll \in Nat
  BY <1>1 DEF TxStates
<1>5. t.force_poll \in BOOLEAN /\ t.polling \in BOOLEAN
  BY <1>1 DEF TxStates
<1>6. \A list \in {t.tx_list, t.wait_list, t.retransmit_list, t.ack_list} :
          ToSet(list) \subseteq Segments
  <2>1. ASSUME NEW l \in Seq(Segs) PROVE ToSet(l) \subseteq Segments
    BY SeqFacts, SegTypes DEF ToSet
  <2> QED BY <1>1, <2>1, TxFields
<1>7. ASSUME NEW i \in SduIds
      PROVE  t.sdu[i] \in [sn : Sns \cup {-1}, ref_count : Nat, retx_count : Nat \cup {-1}]
  <2>1. t.sdu[i] \in SduRecs /\ t.sdu[i].retx_count \in Int
    BY <1>1, TxFields
  <2>2. t.sdu[i].retx_count \in Nat \cup {-1}
    <3>1. t.sdu[i].retx_count >= -1
      BY DEF TxInv, RetxCounted
    <3> QED BY <2>1, <3>1
  <2>3. t.sdu[i].ref_count \in Nat
    <3>1. CASE i \in H
      <4>1. t.sdu[i].ref_count = AllSum(t, Of(i))
        BY <3>1 DEF TxInv, Partitioned
      <4>2. PICK a \in Nat, b \in Nat, c \in Nat, d \in Nat :
              /\ a = Sum(t.tx_list, Of(i)) /\ b = Sum(t.wait_list, Of(i))
              /\ c = Sum(t.retransmit_list, Of(i)) /\ d = Sum(t.ack_list, Of(i))
        BY <1>1, TxFields, NoneOf
      <4>3. AllSum(t, Of(i)) = a + (b + c + d)
        BY <4>2 DEF AllSum, SentSum
      <4> QED BY <4>1, <4>3
    <3>2. CASE i \notin H
      <4>1. t.sdu[i] = FreshSdu
        BY <3>2 DEF TxInv, HeldOnly
      <4> QED BY <4>1 DEF FreshSdu
    <3> QED BY <3>1, <3>2
  <2> QED BY <2>1, <2>2, <2>3 DEF SduRecs
<1>8. t.sdu \in [SduIds -> [sn : Sns \cup {-1}, ref_count : Nat, retx_count : Nat \cup {-1}]]
  BY <1>1, <1>7, TxFields
<1>9. {t.pdu_without_poll, t.byte_without_poll, t.tx_size, t.bs_tx, t.bs_retx} \subseteq Nat
  BY <1>3, <1>4
<1>10. {t.force_poll, t.polling} \subseteq BOOLEAN
  BY <1>5
<1> QED BY <1>2, <1>6, <1>8, <1>9, <1>10 DEF TxTypeOK

\* The invariant implies that the segments partition the SDUs held.
LEMMA PartitionHolds ==
  ASSUME TxInv(tx, held)
  PROVE  SegmentsPartition
<1>1. tx \in TxStates
  BY DEF TxInv
<1>2. PICK tl \in Seq(Segs), wl \in Seq(Segs), rl \in Seq(Segs), al \in Seq(Segs) :
        tl = tx.tx_list /\ wl = tx.wait_list /\ rl = tx.retransmit_list /\ al = tx.ack_list
  BY <1>1, TxFields
<1>3. PICK l : l = tx.tx_list \o tx.wait_list \o tx.retransmit_list \o tx.ack_list
  OBVIOUS
<1>4. l \in Seq(Segs) /\ \A w \in [Segs -> Int] : Sum(l, w) = AllSum(tx, w)
  <2>1. PICK a \in Seq(Segs) : a = tl \o wl
    BY ConcatElements
  <2>2. PICK b \in Seq(Segs) : b = a \o rl
    BY ConcatElements
  <2>3. l \in Seq(Segs) /\ l = b \o al
    BY <1>2, <1>3, <2>1, <2>2, ConcatElements
  <2>4. ASSUME NEW w \in [Segs -> Int] PROVE Sum(l, w) = AllSum(tx, w)
    <3>1. PICK x \in Int, y \in Int, z \in Int, v \in Int :
            x = Sum(tl, w) /\ y = Sum(wl, w) /\ z = Sum(rl, w) /\ v = Sum(al, w)
      BY SumType
    <3>2. Sum(a, w) = x + y
      <4>1. Sum(tl \o wl, w) = Sum(tl, w) + Sum(wl, w)
        BY SumConcat
      <4> QED BY <2>1, <3>1, <4>1
    <3>3. Sum(b, w) = x + y + z
      <4>1. Sum(a \o rl, w) = Sum(a, w) + Sum(rl, w)
        BY SumConcat
      <4> QED BY <2>2, <3>1, <3>2, <4>1
    <3>4. Sum(l, w) = x + y + z + v
      <4>1. Sum(b \o al, w) = Sum(b, w) + Sum(al, w)
        BY SumConcat
      <4> QED BY <2>3, <3>1, <3>3, <4>1
    <3>5. AllSum(tx, w) = x + (y + z + v)
      BY <1>2, <3>1 DEF AllSum, SentSum
    <3> QED BY <3>4, <3>5
  <2> QED BY <2>3, <2>4
<1>5. DOMAIN l = 1 .. Len(l) /\ \A k \in 1 .. Len(l) : l[k] \in Segs
  BY <1>4, SeqFacts
<1>6. ASSUME NEW i \in held
      PROVE  /\ \A b \in 0 .. SduSize - 1 :
                  \E k \in PlacesOf(l, i) : PlacesOf(l, i) \cap PlacesAt(l, b) = {k}
             /\ tx.sdu[i].ref_count = Cardinality(PlacesOf(l, i))
  <2>1. /\ \A b \in 0 .. SduSize - 1 : AllSum(tx, Covers(i, b)) = 1
        /\ tx.sdu[i].ref_count = AllSum(tx, Of(i))
    BY DEF TxInv, Partitioned
  <2>2. tx.sdu[i].ref_count = Cardinality(PlacesOf(l, i))
    <3>1. PICK P : P = {s \in Segs : s.sdu = i}
      OBVIOUS
    <3>2. Places(l, P) = PlacesOf(l, i)
      BY <1>5, <3>1 DEF Places, PlacesOf
    <3>3. Cardinality(Places(l, P)) = Sum(l, Ind(Segs, P))
      BY <1>4, CountIsSum
    <3>4. Ind(Segs, P) = Of(i) /\ Of(i) \in [Segs -> Int]
      BY <3>1, WeightTypes DEF Of
    <3>5. Sum(l, Of(i)) = AllSum(tx, Of(i))
      BY <1>4, <3>4
    <3> QED BY <2>1, <3>2, <3>3, <3>4, <3>5
  <2>3. ASSUME NEW b \in 0 .. SduSize - 1
        PROVE  \E k \in PlacesOf(l, i) : PlacesOf(l, i) \cap PlacesAt(l, b) = {k}
    <3>1. PICK P : P = {s \in Segs : s.sdu = i /\ s.so <= b /\ b < s.so + s.size}
      OBVIOUS
    <3>2. Ind(Segs, P) = Covers(i, b) /\ Covers(i, b) \in [Segs -> Int]
      <4>1. Ind(Segs, P) = Covers(i, b)
        BY <3>1 DEF Covers
      <4> QED BY <4>1, WeightTypes
    <3>3. Sum(l, Ind(Segs, P)) = 1
      <4>1. Sum(l, Covers(i, b)) = AllSum(tx, Covers(i, b))
        BY <1>4, <3>2
      <4> QED BY <2>1, <3>2, <4>1
    <3>4. PICK k \in Places(l, P) : Places(l, P) = {k}
      BY <1>4, <3>3, CountOne
    <3>5. Places(l, P) = PlacesOf(l, i) \cap PlacesAt(l, b)
      BY <1>5, <3>1 DEF Places, PlacesOf, PlacesAt
    <3> QED BY <3>4, <3>5
  <2> QED BY <2>2, <2>3
<1>7. Partition(l)
  BY <1>6 DEF Partition
<1> QED BY <1>3, <1>7 DEF SegmentsPartition

\* The invariant implies that bstatus is exact.
LEMMA BufferStatusHolds ==
  ASSUME TxInv(tx, held)
  PROVE  BufferStatusExact
<1>1. tx.tx_list \in Seq(Segs) /\ tx.retransmit_list \in Seq(Segs)
  BY TxFields DEF TxInv
<1>2. Bytes(tx.tx_list) = Sum(tx.tx_list, PduW) /\ Bytes(tx.retransmit_list) = Sum(tx.retransmit_list, PduW)
  BY <1>1, BytesIsSum
<1> QED BY <1>2 DEF TxInv, TxSizes, BufferStatusExact

-----------------------------------------------------------------------------
(* The invariant of the receiver.                                           *)

RxPdus ==
  {d \in [sn : Sns, so : Nat, size : Nat, first : BOOLEAN, last : BOOLEAN, sdu : SduIds,
          done : BOOLEAN] :
     /\ d.size >= 1 /\ d.so + d.size <= SduSize
     /\ d.first <=> d.so = 0
     /\ d.last <=> d.so + d.size = SduSize}

RxStates ==
  [rx_next : Sns, rx_next_status_trigger : Sns, rx_highest_status : Sns, rx_next_highest : Sns,
   status_triggered : BOOLEAN, reassembling : BOOLEAN, prohibited : BOOLEAN,
   rx_list : Seq(RxPdus), rx_size : Int]

\* What a PDU adds to rx_size: nothing once its SDU is delivered.
OpenW == [d \in RxPdus |-> IF d.done THEN 0 ELSE d.size]

\* The list is ordered by sequence number from rx_next on.
InOrder(b, l) == \A j, k \in 1 .. Len(l) : j < k => Off(b, l[j].sn) <= Off(b, l[k].sn)

\* The PDUs of an SDU are all done or none is.
GroupsDone(l) ==
  \A j, k \in 1 .. Len(l) : l[j].sn = l[k].sn => (l[j].done <=> l[k].done)

\* The SDU of PDU k is covered without a hole, by PDUs in the order of the list.
Covered(l, k) ==
  /\ \/ l[k].so = 0
     \/ \E j \in 1 .. k - 1 : l[j].sn = l[k].sn /\ l[j].so + l[j].size >= l[k].so
  /\ \E j \in 1 .. Len(l) : l[j].sn = l[k].sn /\ l[j].last

DoneCovered(l) == \A k \in 1 .. Len(l) : l[k].done => Covered(l, k)

NotDone(l, sn) == \A k \in 1 .. Len(l) : l[k].sn = sn => ~l[k].done

\* What holds at any moment of nr_rlc_entity_am_recv_pdu once the PDU is stored.
RxCore(r) ==
  /\ r \in RxStates
  /\ \A k \in 1 .. Len(r.rx_list) : Off(r.rx_next, r.rx_list[k].sn) < Off(r.rx_next, r.rx_next_highest)
  /\ InOrder(r.rx_next, r.rx_list) /\ GroupsDone(r.rx_list) /\ DoneCovered(r.rx_list)
  /\ r.rx_size = Sum(r.rx_list, OpenW) /\ r.rx_size <= RxMaxSize
  /\ Off(r.rx_next, r.rx_highest_status) <= Off(r.rx_next, r.rx_next_highest)
  /\ Off(r.rx_next, r.rx_next_highest) <= WindowSize

TriggerIn(r) ==
  r.reassembling => /\ 1 <= Off(r.rx_next, r.rx_next_status_trigger)
                    /\ Off(r.rx_next, r.rx_next_status_trigger) <= Off(r.rx_next, r.rx_next_highest)

GapTimed(r) ==
  r.reassembling \/ ~GapAfter(r, r.rx_next) \/ ~GapAfter(r, r.rx_highest_status)

RxInv(r) == RxCore(r) /\ NotDone(r.rx_list, r.rx_highest_status) /\ TriggerIn(r) /\ GapTimed(r)
-----------------------------------------------------------------------------
\* The fields of the receiver.
LEMMA RxFields ==
  ASSUME NEW r \in RxStates
  PROVE  /\ r.rx_next \in Sns /\ r.rx_next_status_trigger \in Sns
         /\ r.rx_highest_status \in Sns /\ r.rx_next_highest \in Sns
         /\ r.rx_list \in Seq(RxPdus) /\ r.rx_size \in Int
BY DEF RxStates

\* The fields of a PDU in rx_list.
LEMMA RxPduTypes ==
  ASSUME NEW d \in RxPdus
  PROVE  /\ d.sn \in Sns /\ d.so \in Nat /\ d.size \in Nat /\ d.size >= 1
         /\ d.so + d.size <= SduSize
         /\ d.first <=> d.so = 0
         /\ d.last <=> d.so + d.size = SduSize
BY DEF RxPdus

\* The weight that adds up the bytes not delivered.
LEMMA OpenWType ==
  /\ OpenW \in [RxPdus -> Int]
  /\ \A d \in RxPdus : OpenW[d] >= 0 /\ OpenW[d] = IF d.done THEN 0 ELSE d.size
<1>1. \A d \in RxPdus : d.size \in Int /\ d.size >= 0
  BY RxPduTypes
<1> QED BY <1>1 DEF OpenW

Sizes == [so : Int, size : Int]

TrimStep(l, pdu, f) ==
  [n \in 0 .. Len(l) |-> IF n = 0 THEN [so |-> pdu.so, size |-> pdu.size]
                         ELSE Trim(f[n - 1], l[n], pdu.sn)]

\* The bytes left of a PDU after it was compared with another.
LEMMA TrimType ==
  ASSUME NEW a \in Sizes, NEW d \in RxPdus, NEW sn
  PROVE  Trim(a, d, sn) \in Sizes
<1>1. d.so \in Int /\ d.size \in Int /\ a.so \in Int /\ a.size \in Int
  BY RxPduTypes DEF Sizes
<1>2. [so |-> d.so + d.size, size |-> a.size - (d.size - (a.so - d.so))] \in Sizes
  BY <1>1 DEF Sizes
<1>3. [a EXCEPT !.size = d.so - a.so] \in Sizes
  BY <1>1 DEF Sizes
<1> QED BY <1>2, <1>3 DEF Trim

TrimRuns(l, pdu, g) ==
  /\ g[0] = [so |-> pdu.so, size |-> pdu.size]
  /\ \A i \in 1 .. Len(l) : g[i] = Trim(g[i - 1], l[i], pdu.sn)
  /\ Trimmed(l, pdu) = g[Len(l)]

\* The recursive function behind segment_already_received.
LEMMA TrimUnfolds ==
  ASSUME NEW l \in Seq(RxPdus), NEW pdu, pdu.so \in Int, pdu.size \in Int
  PROVE  \E g : TrimRuns(l, pdu, g)
<1> DEFINE n == Len(l)
           x0 == [so |-> pdu.so, size |-> pdu.size]
           F == [i \in 1 .. n |-> [x \in Sizes |-> Trim(x, l[i], pdu.sn)]]
<1>1. n \in Nat /\ (\A i \in 1 .. n : l[i] \in RxPdus) /\ n \in 0 .. n
  BY SeqFacts
<1>2. F \in [1 .. n -> [Sizes -> Sizes]]
  <2>1. \A i \in 1 .. n, x \in Sizes : Trim(x, l[i], pdu.sn) \in Sizes
    BY <1>1, TrimType
  <2> QED BY <2>1
<1>3. x0 \in Sizes
  BY DEF Sizes
<1>4. PICK f \in [0 .. n -> Sizes] : Iterates(F, x0, n, f)
  <2> HIDE DEF F, n, x0
  <2> QED BY <1>1, <1>2, <1>3, RecursionExists
<1>5. f[0] = x0 /\ \A i \in 1 .. n : f[i] = Trim(f[i - 1], l[i], pdu.sn)
  <2>1. f[0] = x0 /\ \A i \in 1 .. n : f[i] = F[i][f[i - 1]]
    <3> HIDE DEF F, n, x0
    <3> QED BY <1>4 DEF Iterates
  <2>2. \A i \in 1 .. n : i - 1 \in 0 .. n
    BY <1>1
  <2> QED BY <1>1, <1>4, <2>1, <2>2
<1>6. f = TrimStep(l, pdu, f)
  <2>1. \A i \in 0 .. n : f[i] = IF i = 0 THEN x0 ELSE Trim(f[i - 1], l[i], pdu.sn)
    <3> HIDE DEF F, x0
    <3> QED BY <1>1, <1>5
  <2>2. f = [i \in 0 .. n |-> f[i]]
    BY <1>4
  <2> QED BY <2>1, <2>2 DEF TrimStep
<1>7. PICK g : g = CHOOSE h : h = TrimStep(l, pdu, h)
  OBVIOUS
<1>8. g = TrimStep(l, pdu, g)
  BY <1>6, <1>7
<1>9. Trimmed(l, pdu) = g[n]
  BY <1>7, Zenon DEF Trimmed, TrimStep
<1>10. \A i \in 0 .. n : g[i] = IF i = 0 THEN x0 ELSE Trim(g[i - 1], l[i], pdu.sn)
  <2> SUFFICES ASSUME NEW i \in 0 .. n
               PROVE  g[i] = IF i = 0 THEN x0 ELSE Trim(g[i - 1], l[i], pdu.sn)
    OBVIOUS
  <2>1. TrimStep(l, pdu, g)[i] = IF i = 0 THEN x0 ELSE Trim(g[i - 1], l[i], pdu.sn)
    BY DEF TrimStep
  <2> QED BY <1>8, <2>1
<1> HIDE DEF F, n, x0
<1>11. g[0] = x0 /\ \A i \in 1 .. n : g[i] = Trim(g[i - 1], l[i], pdu.sn)
  BY <1>1, <1>10
<1>12. TrimRuns(l, pdu, g)
  BY <1>9, <1>11 DEF n, x0, TrimRuns
<1> QED BY <1>12

\* Nothing is left of a, or all that was seen of its SDU ends before it.
Beyond(l, sn, i, a) ==
  \/ a.size <= 0
  \/ \A k \in 1 .. i : l[k].sn = sn => l[k].so + l[k].size <= a.so

(* One PDU of an SDU that is covered takes its bytes from the front. *)
LEMMA TrimBeyond ==
  ASSUME NEW l \in Seq(RxPdus), NEW i \in 1 .. Len(l), NEW sn, NEW a \in Sizes,
         a.so >= 0, a.so + a.size <= SduSize, Beyond(l, sn, i - 1, a),
         l[i].sn = sn => Covered(l, i), NEW c, c = Trim(a, l[i], sn)
  PROVE  c \in Sizes /\ c.so >= 0 /\ c.so + c.size <= SduSize /\ Beyond(l, sn, i, c)
<1>1. Len(l) \in Nat /\ l[i] \in RxPdus /\ \A k \in 1 .. Len(l) : l[k] \in RxPdus
  BY SeqFacts
<1>2. c \in Sizes
  BY <1>1, TrimType
<1>3. \A k \in 1 .. i : k \in 1 .. i - 1 \/ k = i
  BY <1>1
<1>4. PICK so \in Nat, n \in Nat, aso \in Int, an \in Int :
        so = l[i].so /\ n = l[i].size /\ aso = a.so /\ an = a.size
  BY <1>1, RxPduTypes DEF Sizes
<1>5. CASE l[i].sn # sn \/ an <= 0
  <2>1. c = a
    BY <1>4, <1>5 DEF Trim
  <2>2. Beyond(l, sn, i, a)
    BY <1>3, <1>4, <1>5 DEF Beyond
  <2> QED BY <1>2, <2>1, <2>2
<1>6. CASE l[i].sn = sn /\ ~(an <= 0)
  <2>1. \A k \in 1 .. i - 1 : l[k].sn = sn => l[k].so + l[k].size <= aso
    BY <1>4, <1>6 DEF Beyond
  <2>2. so <= aso
    <3>1. CASE so = 0
      BY <1>4, <3>1
    <3>2. CASE so # 0
      <4>1. PICK j \in 1 .. i - 1 : l[j].sn = sn /\ l[j].so + l[j].size >= so
        BY <1>4, <1>6, <3>2 DEF Covered
      <4>2. l[j].so + l[j].size <= aso
        BY <2>1, <4>1
      <4>3. PICK x \in Nat : x = l[j].so + l[j].size
        <5>1. l[j] \in RxPdus
          BY <1>1
        <5>2. l[j].so \in Nat /\ l[j].size \in Nat
          BY <5>1, RxPduTypes
        <5> QED BY <5>2
      <4> QED BY <4>1, <4>2, <4>3
    <3> QED BY <3>1, <3>2
  <2>3. CASE aso < so + n
    <3>1. c = [so |-> so + n, size |-> an - (n - (aso - so))]
      <4>1. ~(l[i].sn # sn \/ a.size <= 0)
        BY <1>4, <1>6
      <4>2. l[i].so <= a.so /\ a.so < l[i].so + l[i].size
        BY <1>4, <2>2, <2>3
      <4>3. c = [so |-> l[i].so + l[i].size, size |-> a.size - (l[i].size - (a.so - l[i].so))]
        BY <4>1, <4>2, Zenon DEF Trim
      <4> QED BY <1>4, <4>3
    <3>2. c.so = so + n /\ c.size = an - (n - (aso - so))
      BY <3>1
    <3>3. c.so >= 0 /\ c.so + c.size <= SduSize
      <4>1. aso + an <= SduSize /\ SduSize \in Nat
        BY <1>4, Constants
      <4>2. so + n >= 0 /\ (so + n) + (an - (n - (aso - so))) <= SduSize
        BY <4>1
      <4> QED BY <3>2, <4>2
    <3>4. ASSUME NEW k \in 1 .. i, l[k].sn = sn PROVE l[k].so + l[k].size <= c.so
      <4>1. CASE k = i
        BY <1>4, <3>2, <4>1
      <4>2. CASE k \in 1 .. i - 1
        <5>1. PICK x \in Nat : x = l[k].so + l[k].size
          <6>1. l[k] \in RxPdus
            BY <1>1
          <6>2. l[k].so \in Nat /\ l[k].size \in Nat
            BY <6>1, RxPduTypes
          <6> QED BY <6>2
        <5>2. x <= aso
          BY <2>1, <3>4, <4>2, <5>1
        <5> QED BY <2>3, <3>2, <5>1, <5>2
      <4> QED BY <1>3, <4>1, <4>2
    <3> QED BY <1>2, <3>3, <3>4 DEF Beyond
  <2>4. CASE ~(aso < so + n)
    <3>1. ~(aso + an - 1 < so + n)
      BY <1>6, <2>4
    <3>2. c = a
      BY <1>4, <1>6, <2>4, <3>1 DEF Trim
    <3>3. ASSUME NEW k \in 1 .. i, l[k].sn = sn PROVE l[k].so + l[k].size <= aso
      <4>1. CASE k = i
        BY <1>4, <2>4, <4>1
      <4>2. CASE k \in 1 .. i - 1
        BY <2>1, <3>3, <4>2
      <4> QED BY <1>3, <4>1, <4>2
    <3> QED BY <1>2, <1>4, <3>2, <3>3 DEF Beyond
  <2> QED BY <2>3, <2>4
<1> QED BY <1>4, <1>5, <1>6

(* segment_already_received rejects what belongs to an SDU that is covered. *)
LEMMA CoveredRejects ==
  ASSUME NEW r, r.rx_list \in Seq(RxPdus), NEW pdu \in DataPdus,
         NEW k0 \in 1 .. Len(r.rx_list), r.rx_list[k0].sn = pdu.sn,
         \A k \in 1 .. Len(r.rx_list) : r.rx_list[k].sn = pdu.sn => Covered(r.rx_list, k)
  PROVE  segment_already_received(r, pdu)
<1>1. PICK l \in Seq(RxPdus) : l = r.rx_list
  OBVIOUS
<1>2. PICK n \in Nat : n = Len(l) /\ n \in 0 .. n
  BY SeqFacts
<1>3. PICK sn \in Sns, so \in Nat, size \in Nat :
        sn = pdu.sn /\ so = pdu.so /\ size = pdu.size /\ so + size <= SduSize
  BY DEF DataPdus
<1>4. PICK g : TrimRuns(l, pdu, g)
  <2>1. pdu.so \in Int /\ pdu.size \in Int
    BY <1>3
  <2> QED BY <2>1, TrimUnfolds
<1>41. /\ g[0] = [so |-> so, size |-> size]
      /\ \A i \in 1 .. n : g[i] = Trim(g[i - 1], l[i], sn)
      /\ Trimmed(l, pdu) = g[n]
  BY <1>2, <1>3, <1>4 DEF TrimRuns
<1> DEFINE G == {i \in 0 .. n : /\ g[i] \in Sizes /\ g[i].so >= 0 /\ g[i].so + g[i].size <= SduSize
                                /\ Beyond(l, sn, i, g[i])}
<1>5. 0 \in G
  <2>1. g[0] \in Sizes /\ g[0].so >= 0 /\ g[0].so + g[0].size <= SduSize
    BY <1>3, <1>41 DEF Sizes
  <2>2. Beyond(l, sn, 0, g[0])
    BY DEF Beyond
  <2> QED BY <1>2, <2>1, <2>2
<1>6. ASSUME NEW i \in 1 .. n, i - 1 \in G PROVE i \in G
  <2>1. PICK a \in Sizes : /\ a = g[i - 1] /\ a.so >= 0 /\ a.so + a.size <= SduSize
                           /\ Beyond(l, sn, i - 1, a)
    BY <1>6
  <2>2. PICK c : c = Trim(a, l[i], sn)
    OBVIOUS
  <2>3. l[i].sn = sn => Covered(l, i)
    BY <1>1, <1>2, <1>3
  <2>4. i \in 1 .. Len(l)
    BY <1>2
  <2>5. c \in Sizes /\ c.so >= 0 /\ c.so + c.size <= SduSize /\ Beyond(l, sn, i, c)
    BY <2>1, <2>2, <2>3, <2>4, TrimBeyond
  <2>6. g[i] = c /\ i \in 0 .. n
    BY <1>41, <2>1, <2>2
  <2> QED BY <2>5, <2>6
<1>7. \A i \in 0 .. n : i \in G
  <2> HIDE DEF G
  <2> QED BY <1>2, <1>5, <1>6, PlaceInduction
<1>8. PICK a \in Sizes : a = g[n] /\ a.so + a.size <= SduSize /\ Beyond(l, sn, n, a)
  BY <1>2, <1>7
<1>9. PICK j \in 1 .. n : l[j].sn = sn /\ l[j].last
  BY <1>1, <1>2, <1>3 DEF Covered
<1>10. l[j].so + l[j].size = SduSize
  <2>1. l[j] \in RxPdus
    BY <1>2, SeqFacts
  <2> QED BY <1>9, <2>1, RxPduTypes
<1>11. a.size <= 0
  <2>1. PICK as \in Int, an \in Int : as = a.so /\ an = a.size
    BY DEF Sizes
  <2>2. CASE \A k \in 1 .. n : l[k].sn = sn => l[k].so + l[k].size <= a.so
    <3>1. SduSize <= as
      BY <1>9, <1>10, <2>1, <2>2
    <3> QED BY <1>8, <2>1, <3>1, Constants
  <2> QED BY <1>8, <2>2 DEF Beyond
<1> QED BY <1>1, <1>41, <1>8, <1>11 DEF segment_already_received

-----------------------------------------------------------------------------
(* A PDU is stored.                                                         *)

\* q is l with s put in at place i.
PutIn(l, s, i, q) ==
  /\ i \in 1 .. Len(l) + 1 /\ q \in Seq(RxPdus) /\ Len(q) = Len(l) + 1 /\ q[i] = s
  /\ \A k \in 1 .. i - 1 : q[k] = l[k]
  /\ \A k \in i .. Len(l) : q[k + 1] = l[k]
  /\ \A w \in [RxPdus -> Int] : Sum(q, w) = Sum(l, w) + w[s]

\* nr_rlc_pdu_list_add puts a PDU behind those that are not after it.
LEMMA ListInsertPuts ==
  ASSUME NEW r, NEW l \in Seq(RxPdus), r.rx_list = l, NEW s \in RxPdus, NEW q, q = ListInsert(r, s),
         NEW b \in Sns, b = r.rx_next, InOrder(b, l)
  PROVE  \E i \in 1 .. Len(l) + 1 : PutIn(l, s, i, q) /\ InOrder(b, q)
<1> DEFINE I == {i \in 1 .. Len(l) : \/ sn_compare_rx(r, l[i].sn, s.sn) > 0
                                     \/ l[i].sn = s.sn /\ l[i].so > s.so}
           i0 == IF I # {} THEN Min(I) ELSE 0
<1>1. q = IF i0 = 0 THEN Append(l, s) ELSE InsertAt(l, i0, s)
  BY DEF ListInsert, SelectInSeq
<1>2. I \subseteq Nat /\ I \subseteq 1 .. Len(l)
  BY SeqFacts
<1>3. \/ i0 = 0 /\ I = {}
      \/ i0 \in I /\ \A i \in I : i0 <= i
  <2> HIDE DEF I
  <2>1. CASE I = {}
    BY <2>1
  <2>2. CASE I # {}
    BY <1>2, <2>2, MinIs
  <2> QED BY <2>1, <2>2
<1>40. Len(l) \in Nat /\ \A k \in 1 .. Len(l) : l[k] \in RxPdus
  BY SeqFacts
<1>4. PICK n \in Nat : n = Len(l) /\ \A k \in 1 .. n : l[k] \in RxPdus
  BY <1>40
<1>5. PICK os \in Nat : os = Off(b, s.sn)
  <2>1. s.sn \in Sns
    BY RxPduTypes
  <2>2. Off(b, s.sn) \in Sns
    BY <2>1, OffIs
  <2> QED BY <2>2, Constants
<1>6. \A k \in 1 .. n : l[k].sn \in Sns /\ Off(b, l[k].sn) \in Nat
  <2> SUFFICES ASSUME NEW k \in 1 .. n PROVE l[k].sn \in Sns /\ Off(b, l[k].sn) \in Nat
    OBVIOUS
  <2>1. l[k] \in RxPdus
    BY <1>4
  <2>2. l[k].sn \in Sns
    BY <2>1, RxPduTypes
  <2>3. Off(b, l[k].sn) \in Sns
    BY <2>2, OffIs
  <2> QED BY <2>2, <2>3, Constants
<1>7. \A k \in 1 .. n : k \in I => Off(b, l[k].sn) >= os
  <2> SUFFICES ASSUME NEW k \in 1 .. n, k \in I PROVE Off(b, l[k].sn) >= os
    OBVIOUS
  <2>1. sn_compare_rx(r, l[k].sn, s.sn) = Off(b, l[k].sn) - os
    BY <1>5 DEF sn_compare_rx, modulus_rx, Off
  <2>2. \/ sn_compare_rx(r, l[k].sn, s.sn) > 0
        \/ l[k].sn = s.sn
    OBVIOUS
  <2> QED BY <1>5, <1>6, <2>1, <2>2
<1>8. \A k \in 1 .. n : k \notin I => Off(b, l[k].sn) <= os
  <2> SUFFICES ASSUME NEW k \in 1 .. n, k \notin I PROVE Off(b, l[k].sn) <= os
    OBVIOUS
  <2>1. sn_compare_rx(r, l[k].sn, s.sn) = Off(b, l[k].sn) - os
    BY <1>5 DEF sn_compare_rx, modulus_rx, Off
  <2>2. ~(sn_compare_rx(r, l[k].sn, s.sn) > 0)
    BY <1>4
  <2> QED BY <1>5, <1>6, <2>1, <2>2
<1> HIDE DEF I, i0
<1>9. PICK i \in 1 .. n + 1 : /\ PutIn(l, s, i, q)
                              /\ \A k \in 1 .. i - 1 : k \notin I
                              /\ i <= n => i \in I
  <2>1. CASE i0 = 0 /\ I = {}
    <3>1. q = Append(l, s)
      BY <1>1, <2>1
    <3>2. q \in Seq(RxPdus) /\ Len(q) = n + 1 /\ q[n + 1] = s /\ \A k \in 1 .. n : q[k] = l[k]
      BY <1>4, <3>1, AppendProperties
    <3>3. \A w \in [RxPdus -> Int] : Sum(q, w) = Sum(l, w) + w[s]
      BY <3>1, SumAppend
    <3>4. PutIn(l, s, n + 1, q)
      BY <1>4, <3>2, <3>3 DEF PutIn
    <3> QED BY <1>4, <2>1, <3>4
  <2>2. CASE i0 \in I /\ \A i \in I : i0 <= i
    <3>1. i0 \in 1 .. Len(l) /\ i0 # 0
      BY <1>2, <2>2
    <3>2. q = InsertAt(l, i0, s)
      BY <1>1, <3>1
    <3>3. /\ q \in Seq(RxPdus)
          /\ \A w \in [RxPdus -> Int] : Sum(q, w) = Sum(l, w) + w[s]
          /\ Len(q) = Len(l) + 1
          /\ q[i0] = s
          /\ \A k \in 1 .. i0 - 1 : q[k] = l[k]
          /\ \A k \in i0 .. Len(l) : q[k + 1] = l[k]
      BY <3>1, <3>2, InsertFacts, SMTT(40)
    <3>4. i0 \in 1 .. Len(l) + 1
      BY <1>4, <3>1
    <3>5. PutIn(l, s, i0, q)
      BY <3>3, <3>4 DEF PutIn
    <3>6. \A k \in 1 .. i0 - 1 : k \notin I
      BY <2>2, <3>1
    <3> QED BY <1>4, <2>2, <3>4, <3>5, <3>6
  <2> QED BY <1>3, <2>1, <2>2
<1>10. ASSUME NEW j \in 1 .. Len(q), NEW k \in 1 .. Len(q), j < k
       PROVE  Off(b, q[j].sn) <= Off(b, q[k].sn)
  <2>1. j \in 1 .. n + 1 /\ k \in 1 .. n + 1
    BY <1>4, <1>9 DEF PutIn
  <2>2. /\ q[i] = s /\ \A m \in 1 .. i - 1 : q[m] = l[m]
        /\ \A m \in i + 1 .. n + 1 : q[m] = l[m - 1]
    <3>1. \A m \in i .. n : q[m + 1] = l[m]
      BY <1>4, <1>9 DEF PutIn
    <3>2. \A m \in i + 1 .. n + 1 : m - 1 \in i .. n /\ (m - 1) + 1 = m
      BY <1>4
    <3> QED BY <1>9, <3>1, <3>2 DEF PutIn
  <2>3. \A x, y \in 1 .. n : x <= y => Off(b, l[x].sn) <= Off(b, l[y].sn)
    BY <1>4, <1>6 DEF InOrder
  <2>4. CASE k < i
    BY <2>1, <2>2, <2>3, <2>4, <1>10
  <2>5. CASE k = i
    <3>1. j \in 1 .. i - 1 /\ j \in 1 .. n /\ j \notin I
      BY <1>9, <1>10, <2>1, <2>5
    <3> QED BY <1>5, <1>8, <2>2, <2>5, <3>1
  <2>6. CASE j < i /\ i < k
    <3>1. q[j] = l[j] /\ q[k] = l[k - 1] /\ j \in 1 .. n /\ k - 1 \in 1 .. n /\ j <= k - 1
      BY <2>1, <2>2, <2>6
    <3> QED BY <2>3, <3>1
  <2>7. CASE j = i
    <3>0. k \in i + 1 .. n + 1 /\ k - 1 \in 1 .. n /\ i <= k - 1 /\ i \in 1 .. n /\ i <= n
      BY <1>10, <2>1, <2>7
    <3>1. q[k] = l[k - 1] /\ k - 1 \in 1 .. n /\ i <= k - 1 /\ i \in 1 .. n /\ i \in I
      BY <1>9, <2>2, <3>0
    <3>2. Off(b, l[i].sn) <= Off(b, l[k - 1].sn) /\ os <= Off(b, l[i].sn)
      BY <1>7, <2>3, <3>1
    <3> QED BY <1>5, <1>6, <2>2, <2>7, <3>1, <3>2
  <2>8. CASE j > i
    <3>1. q[j] = l[j - 1] /\ q[k] = l[k - 1] /\ j - 1 \in 1 .. n /\ k - 1 \in 1 .. n /\ j - 1 <= k - 1
      BY <1>10, <2>1, <2>2, <2>8
    <3> QED BY <2>3, <3>1
  <2> QED BY <1>10, <2>1, <2>4, <2>5, <2>6, <2>7, <2>8
<1>11. InOrder(b, q)
  BY <1>10 DEF InOrder
<1> QED BY <1>4, <1>9, <1>11

(* Every PDU of the new list is s or one of the old list, whose order is kept. *)
LEMMA PutInPlaces ==
  ASSUME NEW l \in Seq(RxPdus), NEW s \in RxPdus, NEW i, NEW q, PutIn(l, s, i, q)
  PROVE  /\ \A k \in 1 .. Len(q) :
               k = i \/ \E m \in 1 .. Len(l) : q[k] = l[m] /\ k = IF m < i THEN m ELSE m + 1
         /\ \A m \in 1 .. Len(l) : \E k \in 1 .. Len(q) : q[k] = l[m] /\ k = IF m < i THEN m ELSE m + 1
<1>1. PICK n \in Nat : n = Len(l) /\ Len(q) = n + 1
  BY SeqFacts DEF PutIn
<1>2. /\ i \in 1 .. n + 1 /\ \A m \in 1 .. i - 1 : q[m] = l[m]
      /\ \A m \in i .. n : q[m + 1] = l[m]
  BY <1>1 DEF PutIn
<1>3. ASSUME NEW k \in 1 .. n + 1, k # i
      PROVE  \E m \in 1 .. n : q[k] = l[m] /\ k = IF m < i THEN m ELSE m + 1
  <2>1. CASE k < i
    <3>1. k \in 1 .. n /\ q[k] = l[k]
      BY <1>2, <2>1
    <3> QED BY <2>1, <3>1
  <2>2. CASE k > i
    <3>1. k - 1 \in i .. n /\ (k - 1) + 1 = k /\ k - 1 \in 1 .. n /\ ~(k - 1 < i)
      BY <1>2, <2>2
    <3>2. q[k] = l[k - 1]
      BY <1>2, <3>1
    <3> QED BY <3>1, <3>2
  <2> QED BY <1>2, <1>3, <2>1, <2>2
<1>4. ASSUME NEW m \in 1 .. n
      PROVE  \E k \in 1 .. n + 1 : q[k] = l[m] /\ k = IF m < i THEN m ELSE m + 1
  <2>1. CASE m < i
    <3>1. m \in 1 .. n + 1 /\ q[m] = l[m]
      BY <1>2, <2>1
    <3> QED BY <2>1, <3>1
  <2>2. CASE ~(m < i)
    <3>1. m \in i .. n /\ m + 1 \in 1 .. n + 1
      BY <1>2, <2>2
    <3>2. q[m + 1] = l[m]
      BY <1>2, <3>1
    <3> QED BY <2>2, <3>1, <3>2
  <2> QED BY <2>1, <2>2
<1> QED BY <1>1, <1>3, <1>4

RxMid(r) == RxCore(r) /\ NotDone(r.rx_list, r.rx_highest_status) /\ TriggerIn(r)

\* The list part of the invariant.
ListIn(l, b, h) ==
  /\ \A k \in 1 .. Len(l) : Off(b, l[k].sn) < Off(b, h)
  /\ InOrder(b, l) /\ GroupsDone(l) /\ DoneCovered(l)

\* A distance is less than the modulus.
LEMMA OffType == \A b \in Sns, a \in Sns : Off(b, a) \in Nat /\ Off(b, a) < SnModulus
<1> SUFFICES ASSUME NEW b \in Sns, NEW a \in Sns
             PROVE  Off(b, a) \in Nat /\ Off(b, a) < SnModulus
  OBVIOUS
<1>1. Off(b, a) \in Sns
  BY OffIs
<1> QED BY <1>1, Constants

(* Nothing of an SDU that is delivered is accepted. *)
LEMMA AcceptedOpen ==
  ASSUME NEW r, NEW l \in Seq(RxPdus), l = r.rx_list, GroupsDone(l), DoneCovered(l),
         NEW pdu \in DataPdus, ~segment_already_received(r, pdu)
  PROVE  \A k \in 1 .. Len(l) : l[k].sn = pdu.sn => ~l[k].done
<1> SUFFICES ASSUME NEW k0 \in 1 .. Len(l), l[k0].sn = pdu.sn, l[k0].done
             PROVE  FALSE
  OBVIOUS
<1>1. \A k \in 1 .. Len(l) : l[k].sn = pdu.sn => l[k].done
  BY DEF GroupsDone
<1>2. \A k \in 1 .. Len(l) : l[k].sn = pdu.sn => Covered(l, k)
  BY <1>1 DEF DoneCovered
<1> QED BY <1>2, CoveredRejects

(* The list with a PDU of an SDU that is not delivered. *)
LEMMA PutInKeeps ==
  ASSUME NEW b \in Sns, NEW h \in Sns, NEW h1 \in Sns, NEW l \in Seq(RxPdus), ListIn(l, b, h),
         Off(b, h) <= Off(b, h1), NEW s \in RxPdus, ~s.done, Off(b, s.sn) < Off(b, h1),
         \A k \in 1 .. Len(l) : l[k].sn = s.sn => ~l[k].done,
         NEW i, NEW q, PutIn(l, s, i, q), InOrder(b, q)
  PROVE  ListIn(q, b, h1) /\ \A sn : NotDone(l, sn) => NotDone(q, sn)
<1>1. PICK n \in Nat : n = Len(l) /\ Len(q) = n + 1
  BY SeqFacts DEF PutIn
<1>2. \A k \in 1 .. n + 1 : k = i \/ \E m \in 1 .. n : q[k] = l[m] /\ k = IF m < i THEN m ELSE m + 1
  BY <1>1, PutInPlaces
<1>3. \A m \in 1 .. n : \E k \in 1 .. n + 1 : q[k] = l[m] /\ k = IF m < i THEN m ELSE m + 1
  BY <1>1, PutInPlaces
<1>4. q[i] = s /\ i \in 1 .. n + 1
  BY <1>1 DEF PutIn
<1>5. ASSUME NEW k \in 1 .. n + 1 PROVE Off(b, q[k].sn) < Off(b, h1)
  <2>1. CASE k = i
    BY <1>4, <2>1
  <2>2. CASE k # i
    <3>1. PICK m \in 1 .. n : q[k] = l[m]
      BY <1>2, <2>2
    <3>2. l[m].sn \in Sns /\ Off(b, l[m].sn) < Off(b, h)
      <4>1. l[m] \in RxPdus
        BY <1>1, SeqFacts
      <4> QED BY <1>1, <4>1, RxPduTypes DEF ListIn
    <3>3. Off(b, l[m].sn) \in Int /\ Off(b, h) \in Int /\ Off(b, h1) \in Int
      BY <3>2, OffType
    <3> QED BY <3>1, <3>2, <3>3
  <2> QED BY <2>1, <2>2
<1>6. GroupsDone(q)
  <2> SUFFICES ASSUME NEW j \in 1 .. n + 1, NEW k \in 1 .. n + 1, q[j].sn = q[k].sn
               PROVE  q[j].done => q[k].done
    BY <1>1 DEF GroupsDone
  <2>1. CASE j = i
    BY <1>4, <2>1
  <2>2. CASE j # i /\ k = i
    <3>1. PICK m \in 1 .. n : q[j] = l[m]
      BY <1>2, <2>2
    <3>2. ~l[m].done
      BY <1>1, <1>4, <2>2, <3>1
    <3> QED BY <3>1, <3>2
  <2>3. CASE j # i /\ k # i
    <3>1. PICK m \in 1 .. n : q[j] = l[m]
      BY <1>2, <2>3
    <3>2. PICK x \in 1 .. n : q[k] = l[x]
      BY <1>2, <2>3
    <3>3. l[m].done <=> l[x].done
      BY <1>1, <3>1, <3>2 DEF ListIn, GroupsDone
    <3> QED BY <3>1, <3>2, <3>3
  <2> QED BY <2>1, <2>2, <2>3
<1>7. ASSUME NEW k \in 1 .. n + 1, q[k].done PROVE Covered(q, k)
  <2>1. k # i
    BY <1>4, <1>7
  <2>2. PICK m \in 1 .. n : q[k] = l[m] /\ k = IF m < i THEN m ELSE m + 1
    BY <1>2, <2>1
  <2>3. Covered(l, m)
    BY <1>1, <1>7, <2>2 DEF ListIn, DoneCovered
  <2>4. \/ q[k].so = 0
        \/ \E x \in 1 .. k - 1 : q[x].sn = q[k].sn /\ q[x].so + q[x].size >= q[k].so
    <3>1. CASE l[m].so = 0
      BY <2>2, <3>1
    <3>2. CASE l[m].so # 0
      <4>1. PICK j \in 1 .. m - 1 : l[j].sn = l[m].sn /\ l[j].so + l[j].size >= l[m].so
        BY <2>3, <3>2 DEF Covered
      <4>2. j \in 1 .. n
        BY <2>2
      <4>3. PICK x \in 1 .. n + 1 : q[x] = l[j] /\ x = IF j < i THEN j ELSE j + 1
        BY <1>3, <4>2
      <4>4. x \in 1 .. k - 1
        BY <1>4, <2>2, <4>1, <4>2, <4>3
      <4> QED BY <2>2, <4>1, <4>3, <4>4
    <3> QED BY <3>1, <3>2
  <2>5. \E x \in 1 .. n + 1 : q[x].sn = q[k].sn /\ q[x].last
    <3>1. PICK j \in 1 .. n : l[j].sn = l[m].sn /\ l[j].last
      BY <1>1, <2>3 DEF Covered
    <3>2. PICK x \in 1 .. n + 1 : q[x] = l[j]
      BY <1>3
    <3> QED BY <2>2, <3>1, <3>2
  <2> QED BY <1>1, <2>4, <2>5 DEF Covered
<1>8. DoneCovered(q)
  BY <1>1, <1>7 DEF DoneCovered
<1>9. ASSUME NEW sn, NotDone(l, sn) PROVE NotDone(q, sn)
  <2> SUFFICES ASSUME NEW k \in 1 .. n + 1, q[k].sn = sn PROVE ~q[k].done
    BY <1>1 DEF NotDone
  <2>1. CASE k = i
    BY <1>4, <2>1
  <2>2. CASE k # i
    <3>1. PICK m \in 1 .. n : q[k] = l[m]
      BY <1>2, <2>2
    <3> QED BY <1>1, <1>9, <3>1 DEF NotDone
  <2> QED BY <2>1, <2>2
<1>10. ListIn(q, b, h1)
  BY <1>1, <1>5, <1>6, <1>8 DEF ListIn
<1> QED BY <1>9, <1>10

\* What a received PDU is in the list.
RxPdu(pdu) ==
  [sn |-> pdu.sn, so |-> pdu.so, size |-> pdu.size, first |-> pdu.first,
   last |-> pdu.last, sdu |-> pdu.sdu, done |-> FALSE]

\* The fields of a data PDU.
LEMMA DataPduTypes ==
  ASSUME NEW pdu \in DataPdus
  PROVE  /\ pdu.sn \in Sns /\ pdu.so \in Nat /\ pdu.size \in Nat /\ pdu.p \in BOOLEAN
         /\ RxPdu(pdu) \in RxPdus /\ RxPdu(pdu).sn = pdu.sn /\ ~RxPdu(pdu).done
         /\ RxPdu(pdu).size = pdu.size
<1>1. pdu \in [sdu : SduIds, sn : Sns, so : Nat, size : Nat, first : BOOLEAN, last : BOOLEAN,
                p : BOOLEAN]
  BY DEF DataPdus
<1>2. /\ pdu.size >= 1 /\ pdu.so + pdu.size <= SduSize
      /\ pdu.first <=> pdu.so = 0
      /\ pdu.last <=> pdu.so + pdu.size = SduSize
  BY DEF DataPdus
<1>3. RxPdu(pdu) \in [sn : Sns, so : Nat, size : Nat, first : BOOLEAN, last : BOOLEAN,
                      sdu : SduIds, done : BOOLEAN]
  BY <1>1 DEF RxPdu
<1>4. RxPdu(pdu) \in RxPdus
  BY <1>2, <1>3 DEF RxPdus, RxPdu
<1> QED BY <1>1, <1>4 DEF RxPdu

(* rx_next_highest goes past a PDU of the window. *)
LEMMA HighestMoves ==
  ASSUME NEW b \in Sns, NEW h \in Sns, NEW x \in Sns, Off(b, h) <= WindowSize, Off(b, x) < WindowSize,
         NEW h1, h1 = IF Off(b, x) - Off(b, h) >= 0 THEN (x + 1) % SnModulus ELSE h
  PROVE  h1 \in Sns /\ Off(b, h) <= Off(b, h1) /\ Off(b, h1) <= WindowSize /\ Off(b, x) < Off(b, h1)
<1>1. PICK oh \in Nat, ox \in Nat : oh = Off(b, h) /\ ox = Off(b, x)
  BY OffType
<1>2. CASE ox - oh >= 0
  <2>1. h1 = Plus(x, 1)
    BY <1>1, <1>2 DEF Plus
  <2>2. 1 <= SnModulus /\ ox + 1 < SnModulus
    BY <1>1, Constants
  <2>3. h1 \in Sns /\ Off(b, h1) = ox + 1
    BY <1>1, <2>1, <2>2, PlusIs, OffPlus
  <2> QED BY <1>1, <1>2, <2>3, Constants
<1>3. CASE ~(ox - oh >= 0)
  BY <1>1, <1>3
<1> QED BY <1>2, <1>3

\* A PDU that is accepted and stored keeps the invariant.
LEMMA StoredKeeps ==
  ASSUME NEW r, RxMid(r), NEW pdu \in DataPdus, Accepts(r, pdu),
         NEW v, v = NoteHighest(Stored(r, pdu), pdu.sn)
  PROVE  /\ RxMid(v) /\ Off(v.rx_next, pdu.sn) < Off(v.rx_next, v.rx_next_highest)
         /\ NotDone(v.rx_list, pdu.sn)
<1>1. r \in RxStates /\ r.rx_size = Sum(r.rx_list, OpenW) /\ r.rx_size <= RxMaxSize
  BY DEF RxMid, RxCore
<1>2. PICK b \in Sns, tr \in Sns, hs \in Sns, h \in Sns, l \in Seq(RxPdus), z \in Int :
        /\ b = r.rx_next /\ tr = r.rx_next_status_trigger /\ hs = r.rx_highest_status
        /\ h = r.rx_next_highest /\ l = r.rx_list /\ z = r.rx_size
  BY <1>1, RxFields
<1>3. ListIn(l, b, h) /\ NotDone(l, hs) /\ Off(b, hs) <= Off(b, h) /\ Off(b, h) <= WindowSize
  BY <1>2 DEF RxMid, RxCore, ListIn
<1>4. PICK x \in Sns, d \in Nat, s \in RxPdus :
        x = pdu.sn /\ d = pdu.size /\ s = RxPdu(pdu) /\ s.sn = x /\ ~s.done /\ s.size = d
  BY DataPduTypes
<1>5. z + d <= RxMaxSize /\ Off(b, x) < WindowSize /\ ~segment_already_received(r, pdu)
  BY <1>2, <1>4 DEF Accepts, sn_in_recv_window, modulus_rx, Off
<1>6. \A k \in 1 .. Len(l) : l[k].sn = s.sn => ~l[k].done
  <2>1. GroupsDone(l) /\ DoneCovered(l)
    BY <1>3 DEF ListIn
  <2> QED BY <1>2, <1>4, <1>5, <2>1, AcceptedOpen
<1>7. PICK q : q = ListInsert(r, s)
  OBVIOUS
<1>8. PICK i \in 1 .. Len(l) + 1 : PutIn(l, s, i, q) /\ InOrder(b, q)
  <2>1. InOrder(b, l)
    BY <1>3 DEF ListIn
  <2> QED BY <1>2, <1>7, <2>1, ListInsertPuts
<1>9. PICK h1 : h1 = IF Off(b, x) - Off(b, h) >= 0 THEN (x + 1) % SnModulus ELSE h
  OBVIOUS
<1>10. h1 \in Sns /\ Off(b, h) <= Off(b, h1) /\ Off(b, h1) <= WindowSize /\ Off(b, x) < Off(b, h1)
  BY <1>3, <1>5, <1>9, HighestMoves
<1>11. ListIn(q, b, h1) /\ NotDone(q, hs) /\ NotDone(q, x) /\ q \in Seq(RxPdus)
  <2>1. NotDone(l, x)
    BY <1>4, <1>6 DEF NotDone
  <2>2. q \in Seq(RxPdus)
    BY <1>8 DEF PutIn
  <2>3. /\ ~s.done /\ Off(b, s.sn) < Off(b, h1) /\ Off(b, h) <= Off(b, h1) /\ h1 \in Sns
        /\ ListIn(l, b, h)
    BY <1>3, <1>4, <1>10
  <2>4. PutIn(l, s, i, q) /\ InOrder(b, q)
    BY <1>8
  <2>5. ListIn(q, b, h1) /\ \A sn : NotDone(l, sn) => NotDone(q, sn)
    BY <1>6, <2>3, <2>4, PutInKeeps
  <2> QED BY <1>3, <2>1, <2>2, <2>5
<1>12. PICK st \in RxStates : st = [r EXCEPT !.rx_size = z + d, !.rx_list = q]
  <2>1. z + d \in Int /\ q \in Seq(RxPdus)
    BY <1>11
  <2>2. [r EXCEPT !.rx_size = z + d, !.rx_list = q] \in RxStates
    BY <1>1, <2>1 DEF RxStates
  <2> QED BY <2>2
<1>13. Stored(r, pdu) = st
  BY <1>2, <1>4, <1>7, <1>12 DEF Stored, RxPdu
<1>14. /\ st.rx_next = b /\ st.rx_next_highest = h /\ st.rx_next_status_trigger = tr
       /\ st.rx_highest_status = hs /\ st.rx_size = z + d /\ st.rx_list = q
       /\ st.reassembling = r.reassembling
  BY <1>1, <1>2, <1>12 DEF RxStates
<1>15. v = [st EXCEPT !.rx_next_highest = h1]
  <2>1. sn_compare_rx(st, x, h) = Off(b, x) - Off(b, h)
    BY <1>14 DEF sn_compare_rx, modulus_rx, Off
  <2>2. v = IF Off(b, x) - Off(b, h) >= 0 THEN [st EXCEPT !.rx_next_highest = (x + 1) % SnModulus]
            ELSE st
    BY <1>4, <1>13, <1>14, <2>1 DEF NoteHighest
  <2>3. CASE Off(b, x) - Off(b, h) >= 0
    BY <1>9, <2>2, <2>3
  <2>4. CASE ~(Off(b, x) - Off(b, h) >= 0)
    <3>1. v = st /\ h1 = h
      BY <1>9, <2>2, <2>4
    <3>2. st = [st EXCEPT !.rx_next_highest = h]
      BY <1>12, <1>14 DEF RxStates
    <3> QED BY <3>1, <3>2
  <2> QED BY <2>3, <2>4
<1>16. /\ v \in RxStates /\ v.rx_next = b /\ v.rx_next_highest = h1
       /\ v.rx_next_status_trigger = tr /\ v.rx_highest_status = hs
       /\ v.rx_size = z + d /\ v.rx_list = q /\ v.reassembling = r.reassembling
  <2>1. v \in RxStates
    BY <1>10, <1>12, <1>15 DEF RxStates
  <2> QED BY <1>12, <1>14, <1>15, <2>1 DEF RxStates
<1>17. z + d = Sum(q, OpenW)
  <2>1. OpenW[s] = d
    BY <1>4, OpenWType
  <2>2. Sum(q, OpenW) = Sum(l, OpenW) + OpenW[s]
    BY <1>8, OpenWType DEF PutIn
  <2> QED BY <1>1, <1>2, <2>1, <2>2
<1>18. Off(b, hs) <= Off(b, h1) /\ TriggerIn(v)
  <2>1. PICK oh \in Nat, oh1 \in Nat, os \in Nat, ot \in Nat :
          oh = Off(b, h) /\ oh1 = Off(b, h1) /\ os = Off(b, hs) /\ ot = Off(b, tr)
    BY <1>10, OffType
  <2>2. r.reassembling => 1 <= ot /\ ot <= oh
    BY <1>2, <2>1 DEF RxMid, TriggerIn
  <2>3. oh <= oh1 /\ os <= oh
    BY <1>3, <1>10, <2>1
  <2>4. os <= oh1 /\ (r.reassembling => 1 <= ot /\ ot <= oh1)
    BY <2>2, <2>3
  <2> QED BY <1>16, <2>1, <2>4 DEF TriggerIn
<1>19. RxCore(v)
  BY <1>5, <1>10, <1>11, <1>16, <1>17, <1>18 DEF RxCore, ListIn
<1> QED BY <1>4, <1>10, <1>11, <1>16, <1>18, <1>19 DEF RxMid

-----------------------------------------------------------------------------
(* An SDU is delivered.                                                     *)

SizeW == [d \in RxPdus |-> d.size]

\* The weight that adds up the bytes.
LEMMA SizeWType == SizeW \in [RxPdus -> Int] /\ \A d \in RxPdus : SizeW[d] = d.size
<1>1. \A d \in RxPdus : d.size \in Int
  BY RxPduTypes
<1> QED BY <1>1 DEF SizeW

SizeStep(l, f) == [n \in 0 .. Len(l) |-> IF n = 0 THEN 0 ELSE f[n - 1] + l[n].size]

\* The bytes that reassemble_and_deliver frees, as a sum.
LEMMA SizeOfIsSum ==
  ASSUME NEW l \in Seq(RxPdus)
  PROVE  SizeOf(l) = Sum(l, SizeW)
<1>1. Len(l) \in Nat /\ \A i \in 1 .. Len(l) : l[i] \in RxPdus
  BY SeqFacts
<1>2. \A i \in 1 .. Len(l) : SizeW[l[i]] = l[i].size
  BY <1>1, SizeWType
<1>3. PICK f \in [0 .. Len(l) -> Int] : Adds(l, SizeW, f) /\ Sum(l, SizeW) = f[Len(l)]
  BY SizeWType, SumUnfolds
<1>4. f[0] = 0 /\ \A i \in 1 .. Len(l) : f[i] = f[i - 1] + l[i].size
  BY <1>2, <1>3 DEF Adds
<1>5. f = SizeStep(l, f)
  <2>1. \A i \in 0 .. Len(l) : f[i] = IF i = 0 THEN 0 ELSE f[i - 1] + l[i].size
    BY <1>1, <1>4
  <2>2. f = [i \in 0 .. Len(l) |-> f[i]]
    BY <1>3
  <2> QED BY <2>1, <2>2 DEF SizeStep
<1>6. PICK g : g = CHOOSE h : h = SizeStep(l, h)
  OBVIOUS
<1>7. g = SizeStep(l, g)
  BY <1>5, <1>6
<1>8. SizeOf(l) = g[Len(l)]
  BY <1>6, Zenon DEF SizeOf, SizeStep
<1>9. \A i \in 0 .. Len(l) : g[i] = IF i = 0 THEN 0 ELSE g[i - 1] + l[i].size
  <2> SUFFICES ASSUME NEW i \in 0 .. Len(l)
               PROVE  g[i] = IF i = 0 THEN 0 ELSE g[i - 1] + l[i].size
    OBVIOUS
  <2>1. SizeStep(l, g)[i] = IF i = 0 THEN 0 ELSE g[i - 1] + l[i].size
    BY DEF SizeStep
  <2> QED BY <1>7, <2>1
<1>10. g[0] = f[0] /\ \A i \in 1 .. Len(l) : g[i - 1] = f[i - 1] => g[i] = f[i]
  BY <1>1, <1>4, <1>9
<1>11. \A i \in 0 .. Len(l) : g[i] = f[i]
  BY <1>1, <1>10, RecursionUnique
<1> QED BY <1>1, <1>3, <1>8, <1>11

\* The places of l have in v the weights that those of m have in w.
SameWeights(l, v, m, w) == Len(m) = Len(l) /\ \A k \in 1 .. Len(l) : w[m[k]] = v[l[k]]

SumsAgree(l, v, m, w) == Sum(m, w) = Sum(l, v)

\* Lists of the same weights have the same sum.
LEMMA SumMapped ==
  ASSUME NEW X, NEW l \in Seq(X), NEW m \in Seq(X),
         NEW v \in [X -> Int], NEW w \in [X -> Int], SameWeights(l, v, m, w)
  PROVE  SumsAgree(l, v, m, w)
<1>1. PICK f \in [0 .. Len(l) -> Int] : Adds(l, v, f) /\ Sum(l, v) = f[Len(l)]
  BY SumUnfolds
<1>2. f[0] = 0 /\ \A i \in 1 .. Len(l) : f[i] = f[i - 1] + v[l[i]]
  BY <1>1 DEF Adds
<1>3. Adds(m, w, f)
  BY <1>2 DEF Adds, SameWeights
<1>4. f \in [0 .. Len(m) -> Int]
  BY <1>1 DEF SameWeights
<1>5. Sum(m, w) = f[Len(m)]
  BY <1>3, <1>4, SumIs
<1> QED BY <1>1, <1>5 DEF SameWeights, SumsAgree

\* The PDUs of one SDU, with their places in the list.
Placed(l, sn, q, p) ==
  /\ p \in [1 .. Len(q) -> 1 .. Len(l)]
  /\ \A j, k \in 1 .. Len(q) : j < k => p[j] < p[k]
  /\ \A k \in 1 .. Len(q) : q[k] = l[p[k]] /\ l[p[k]].sn = sn
  /\ \A i \in 1 .. Len(l) : l[i].sn = sn => \E k \in 1 .. Len(q) : p[k] = i

\* The PDUs of one SDU, in the order of the list.
LEMMA OfSnPicks ==
  ASSUME NEW r, NEW l \in Seq(RxPdus), l = r.rx_list, NEW sn
  PROVE  /\ OfSn(r, sn) \in Seq(RxPdus)
         /\ \E p : Placed(l, sn, OfSn(r, sn), p)
<1>1. PICK S : S = {d \in ToSet(l) : d.sn = sn}
  OBVIOUS
<1>2. PICK q : q = Those(l, S)
  OBVIOUS
<1>3. OfSn(r, sn) = q
  BY <1>1, <1>2 DEF OfSn
<1>4. q \in Seq(RxPdus)
  BY <1>2, ThoseType
<1>5. PICK p : Picks(l, S, q, p, Len(l))
  BY <1>2, ThosePick
<1>6. \A i \in 1 .. Len(l) : l[i] \in S <=> l[i].sn = sn
  <2>1. DOMAIN l = 1 .. Len(l)
    BY SeqFacts
  <2>2. \A i \in 1 .. Len(l) : l[i] \in ToSet(l)
    BY <2>1 DEF ToSet
  <2> QED BY <1>1, <2>2
<1>7. p \in [1 .. Len(q) -> 1 .. Len(l)]
  BY <1>5 DEF Picks
<1>8. \A j, k \in 1 .. Len(q) : j < k => p[j] < p[k]
  BY <1>5 DEF Picks
<1>9. \A k \in 1 .. Len(q) : q[k] = l[p[k]] /\ l[p[k]].sn = sn
  <2> SUFFICES ASSUME NEW k \in 1 .. Len(q) PROVE q[k] = l[p[k]] /\ l[p[k]].sn = sn
    OBVIOUS
  <2>1. q[k] = l[p[k]] /\ q[k] \in S
    BY <1>5 DEF Picks
  <2>2. p[k] \in 1 .. Len(l)
    BY <1>7
  <2> QED BY <1>6, <2>1, <2>2
<1>10. \A i \in 1 .. Len(l) : l[i].sn = sn => \E k \in 1 .. Len(q) : p[k] = i
  BY <1>5, <1>6 DEF Picks
<1>11. Placed(l, sn, q, p)
  BY <1>7, <1>8, <1>9, <1>10 DEF Placed
<1> QED BY <1>3, <1>4, <1>11

(* An SDU is delivered when one of its PDUs, or each of them, is done. *)
LEMMA DeliveredIs ==
  ASSUME NEW r, NEW l \in Seq(RxPdus), l = r.rx_list, GroupsDone(l), NEW sn
  PROVE  sdu_delivered(r, sn) <=> \E k \in 1 .. Len(l) : l[k].sn = sn /\ l[k].done
<1>1. PICK q \in Seq(RxPdus) : q = OfSn(r, sn)
  BY OfSnPicks
<1>20. PICK p : Placed(l, sn, q, p)
  BY <1>1, OfSnPicks
<1>2. /\ p \in [1 .. Len(q) -> 1 .. Len(l)]
      /\ \A k \in 1 .. Len(q) : q[k] = l[p[k]] /\ l[p[k]].sn = sn
      /\ \A i \in 1 .. Len(l) : l[i].sn = sn => \E k \in 1 .. Len(q) : p[k] = i
  BY <1>20 DEF Placed
<1>3. sdu_delivered(r, sn) <=> q # <<>> /\ Head(q).done
  BY <1>1 DEF sdu_delivered
<1>4. Len(q) \in Nat /\ (q = <<>> <=> Len(q) = 0) /\ (q # <<>> => Head(q) = q[1])
  BY SeqFacts
<1>5. ASSUME q # <<>>, Head(q).done PROVE \E k \in 1 .. Len(l) : l[k].sn = sn /\ l[k].done
  <2>1. 1 \in 1 .. Len(q)
    BY <1>4, <1>5
  <2>2. p[1] \in 1 .. Len(l) /\ l[p[1]].sn = sn /\ l[p[1]].done
    BY <1>2, <1>4, <1>5, <2>1
  <2> QED BY <2>2
<1>6. ASSUME NEW k \in 1 .. Len(l), l[k].sn = sn, l[k].done PROVE q # <<>> /\ Head(q).done
  <2>1. PICK j \in 1 .. Len(q) : p[j] = k
    BY <1>2, <1>6
  <2>2. Len(q) # 0 /\ 1 \in 1 .. Len(q)
    BY <1>4, <2>1
  <2>3. q[1] = l[p[1]] /\ l[p[1]].sn = sn /\ p[1] \in 1 .. Len(l)
    BY <1>2, <2>2
  <2>4. l[p[1]].done <=> l[k].done
    BY <1>6, <2>3 DEF GroupsDone
  <2> QED BY <1>4, <1>6, <2>2, <2>3, <2>4
<1> QED BY <1>3, <1>5, <1>6

(* How far the first PDUs of an SDU reach. *)
LEMMA ReachIs ==
  ASSUME NEW q \in Seq(RxPdus), NEW n \in 0 .. Len(q)
  PROVE  /\ Reach(q, n) \in 0 .. SduSize
         /\ Reach(q, n) = 0 \/ \E k \in 1 .. n : Reach(q, n) = q[k].so + q[k].size
         /\ \A k \in 1 .. n : q[k].so + q[k].size <= Reach(q, n)
<1>1. PICK R : R = {q[k].so + q[k].size : k \in 1 .. n}
  OBVIOUS
<1>2. \A k \in 1 .. n : q[k].so + q[k].size \in 0 .. SduSize
  <2> SUFFICES ASSUME NEW k \in 1 .. n PROVE q[k].so + q[k].size \in 0 .. SduSize
    OBVIOUS
  <2>1. k \in 1 .. Len(q)
    BY SeqFacts
  <2>2. q[k] \in RxPdus
    BY <2>1, SeqFacts
  <2> QED BY <2>2, RxPduTypes, Constants, SMTT(40)
<1>3. PICK I : I = {0} \cup R
  OBVIOUS
<1>4. I \subseteq 0 .. SduSize /\ I # {} /\ SduSize \in Nat
  BY <1>1, <1>2, <1>3, Constants
<1>5. Max(I) \in I /\ \A i \in I : i <= Max(I)
  BY <1>4, MaxIs
<1>6. Reach(q, n) = Max(I)
  BY <1>1, <1>3 DEF Reach
<1>7. Max(I) = 0 \/ Max(I) \in R
  BY <1>3, <1>5
<1> QED BY <1>1, <1>3, <1>4, <1>5, <1>6, <1>7

(* The PDUs of an SDU that sdu_full accepts cover it. *)
LEMMA FullCovers ==
  ASSUME NEW r, NEW l \in Seq(RxPdus), l = r.rx_list, NEW sn, ReachesLast(OfSn(r, sn)),
         NEW m \in 1 .. Len(l), l[m].sn = sn
  PROVE  Covered(l, m)
<1>1. PICK q \in Seq(RxPdus) : q = OfSn(r, sn)
  BY OfSnPicks
<1>20. PICK p : Placed(l, sn, q, p)
  BY <1>1, OfSnPicks
<1>2. /\ p \in [1 .. Len(q) -> 1 .. Len(l)]
      /\ \A j, k \in 1 .. Len(q) : j < k => p[j] < p[k]
      /\ \A k \in 1 .. Len(q) : q[k] = l[p[k]] /\ l[p[k]].sn = sn
      /\ \A i \in 1 .. Len(l) : l[i].sn = sn => \E k \in 1 .. Len(q) : p[k] = i
  BY <1>20 DEF Placed
<1>3. Len(q) \in Nat /\ DOMAIN q = 1 .. Len(q) /\ \A k \in 1 .. Len(q) : q[k] \in RxPdus
  BY SeqFacts
<1>4. PICK e \in 1 .. Len(q) : q[e].last /\ \A j \in 1 .. e : q[j].so <= Reach(q, j - 1)
  BY <1>1, <1>3 DEF ReachesLast
<1>5. PICK j \in 1 .. Len(q) : p[j] = m
  BY <1>2
<1>6. q[j] = l[m] /\ q[j] \in RxPdus /\ q[e] \in RxPdus
  BY <1>2, <1>3, <1>5
<1>7. q[j].so \in Nat /\ q[j].so <= SduSize /\ q[e].so + q[e].size = SduSize
  <2>1. q[e].so + q[e].size = SduSize
    BY <1>4, <1>6, RxPduTypes
  <2>2. q[j].so \in Nat /\ q[j].size \in Nat /\ q[j].so + q[j].size <= SduSize
    BY <1>6, RxPduTypes
  <2> QED BY <2>1, <2>2, Constants
<1>8. \/ q[j].so = 0
      \/ \E i \in 1 .. j - 1 : q[i].so + q[i].size >= q[j].so
  <2>1. CASE j <= e
    <3>1. q[j].so <= Reach(q, j - 1) /\ j - 1 \in 0 .. Len(q)
      BY <1>3, <1>4, <2>1
    <3>2. CASE Reach(q, j - 1) = 0
      BY <1>7, <3>1, <3>2
    <3>3. CASE \E i \in 1 .. j - 1 : Reach(q, j - 1) = q[i].so + q[i].size
      BY <3>1, <3>3
    <3> QED BY <3>1, <3>2, <3>3, ReachIs
  <2>2. CASE ~(j <= e)
    <3>1. e \in 1 .. j - 1
      BY <1>3, <2>2
    <3> QED BY <1>7, <3>1
  <2> QED BY <2>1, <2>2
<1>9. \/ l[m].so = 0
      \/ \E i \in 1 .. m - 1 : l[i].sn = l[m].sn /\ l[i].so + l[i].size >= l[m].so
  <2>1. CASE q[j].so = 0
    BY <1>6, <2>1
  <2>2. CASE \E i \in 1 .. j - 1 : q[i].so + q[i].size >= q[j].so
    <3>1. PICK i \in 1 .. j - 1 : q[i].so + q[i].size >= q[j].so
      BY <2>2
    <3>2. i \in 1 .. Len(q) /\ i < j
      BY <1>3
    <3>3. p[i] \in 1 .. Len(l) /\ p[i] < m /\ q[i] = l[p[i]] /\ l[p[i]].sn = sn
      BY <1>2, <1>5, <3>2
    <3>4. p[i] \in 1 .. m - 1
      BY <3>3, SeqFacts
    <3> QED BY <1>6, <3>1, <3>3, <3>4
  <2> QED BY <1>8, <2>1, <2>2
<1>10. \E i \in 1 .. Len(l) : l[i].sn = l[m].sn /\ l[i].last
  <2>1. p[e] \in 1 .. Len(l) /\ q[e] = l[p[e]] /\ l[p[e]].sn = sn
    BY <1>2
  <2> QED BY <1>4, <2>1
<1> QED BY <1>9, <1>10 DEF Covered

Marked(l, x, q, k) ==
  /\ q[k].sn = l[k].sn /\ q[k].so = l[k].so /\ q[k].size = l[k].size
  /\ q[k].last <=> l[k].last
  /\ q[k].done <=> (l[k].sn = x \/ l[k].done)

\* The list after an SDU was marked as delivered.
LEMMA MarkedIs ==
  ASSUME NEW l \in Seq(RxPdus), NEW x, NEW q, q = MarkDone(l, x)
  PROVE  /\ q \in Seq(RxPdus) /\ Len(q) = Len(l)
         /\ \A k \in 1 .. Len(l) : Marked(l, x, q, k)
<1>1. PICK n \in Nat : n = Len(l) /\ DOMAIN l = 1 .. n
  BY SeqFacts
<1>2. \A k \in 1 .. n : l[k] \in RxPdus
  BY <1>1, SeqFacts
<1>3. q = [k \in 1 .. n |-> IF l[k].sn = x THEN [l[k] EXCEPT !.done = TRUE] ELSE l[k]]
  BY <1>1 DEF MarkDone
<1>4. ASSUME NEW d \in RxPdus
      PROVE  LET e == [d EXCEPT !.done = TRUE]
             IN  e \in RxPdus /\ e.sn = d.sn /\ e.so = d.so /\ e.size = d.size /\ e.last = d.last
                 /\ e.done = TRUE
  <2>1. PICK e : e = [d EXCEPT !.done = TRUE]
    OBVIOUS
  <2>2. e \in [sn : Sns, so : Nat, size : Nat, first : BOOLEAN, last : BOOLEAN, sdu : SduIds,
               done : BOOLEAN]
    BY <2>1 DEF RxPdus
  <2>3. e.sn = d.sn /\ e.so = d.so /\ e.size = d.size /\ e.last = d.last /\ e.first = d.first
        /\ e.done = TRUE
    BY <2>1 DEF RxPdus
  <2>4. e \in RxPdus
    BY <2>2, <2>3 DEF RxPdus
  <2> QED BY <2>1, <2>3, <2>4
<1>5. \A k \in 1 .. n : q[k] \in RxPdus
  BY <1>2, <1>3, <1>4
<1>6. q \in Seq(RxPdus) /\ Len(q) = n
  <2>1. q \in [1 .. n -> RxPdus]
    BY <1>3, <1>5
  <2> QED BY <2>1
<1>7. ASSUME NEW k \in 1 .. n
      PROVE  Marked(l, x, q, k)
  <2>1. CASE l[k].sn = x
    <3>1. q[k] = [l[k] EXCEPT !.done = TRUE]
      BY <1>3, <2>1
    <3> QED BY <1>2, <1>4, <2>1, <3>1 DEF Marked
  <2>2. CASE l[k].sn # x
    <3>1. q[k] = l[k]
      BY <1>3, <2>2
    <3> QED BY <2>2, <3>1 DEF Marked
  <2> QED BY <2>1, <2>2
<1> QED BY <1>1, <1>6, <1>7

\* Marking a full SDU keeps the order and the groups of the list.
LEMMA MarkKeeps ==
  ASSUME NEW b \in Sns, NEW h \in Sns, NEW l \in Seq(RxPdus), ListIn(l, b, h), NEW x,
         \A m \in 1 .. Len(l) : l[m].sn = x => Covered(l, m),
         NEW q, q = MarkDone(l, x)
  PROVE  ListIn(q, b, h) /\ \A y : y # x /\ NotDone(l, y) => NotDone(q, y)
<1>1. PICK n \in Nat : n = Len(l)
  BY SeqFacts
<1>2. /\ q \in Seq(RxPdus) /\ Len(q) = n
      /\ \A k \in 1 .. n : /\ q[k].sn = l[k].sn /\ q[k].so = l[k].so /\ q[k].size = l[k].size
                           /\ q[k].last <=> l[k].last
                           /\ q[k].done <=> (l[k].sn = x \/ l[k].done)
  <2>1. q \in Seq(RxPdus) /\ Len(q) = Len(l) /\ \A k \in 1 .. Len(l) : Marked(l, x, q, k)
    BY MarkedIs
  <2> QED BY <1>1, <2>1 DEF Marked
<1>3. \A k \in 1 .. n : Off(b, q[k].sn) < Off(b, h)
  BY <1>1, <1>2 DEF ListIn
<1>4. InOrder(b, q)
  <2> SUFFICES ASSUME NEW j \in 1 .. n, NEW k \in 1 .. n, j < k
               PROVE  Off(b, q[j].sn) <= Off(b, q[k].sn)
    BY <1>2 DEF InOrder
  <2>1. Off(b, l[j].sn) <= Off(b, l[k].sn)
    BY <1>1 DEF ListIn, InOrder
  <2> QED BY <1>2, <2>1
<1>5. GroupsDone(q)
  <2> SUFFICES ASSUME NEW j \in 1 .. n, NEW k \in 1 .. n, q[j].sn = q[k].sn, q[j].done
               PROVE  q[k].done
    BY <1>2 DEF GroupsDone
  <2>1. l[j].sn = l[k].sn
    BY <1>2
  <2>2. CASE l[k].sn = x
    BY <1>2, <2>2
  <2>3. CASE l[k].sn # x
    <3>1. (q[j].done <=> l[j].done) /\ (q[k].done <=> l[k].done)
      BY <1>2, <2>1, <2>3
    <3>2. l[j].done <=> l[k].done
      BY <1>1, <2>1 DEF ListIn, GroupsDone
    <3> QED BY <3>1, <3>2
  <2> QED BY <2>2, <2>3
<1>6. DoneCovered(q)
  <2> SUFFICES ASSUME NEW k \in 1 .. n, q[k].done PROVE Covered(q, k)
    BY <1>2 DEF DoneCovered
  <2>1. Covered(l, k)
    <3>1. CASE l[k].sn = x
      BY <1>1, <3>1
    <3>2. CASE l[k].sn # x
      <4>1. l[k].done
        BY <1>2, <3>2
      <4> QED BY <1>1, <4>1 DEF ListIn, DoneCovered
    <3> QED BY <3>1, <3>2
  <2>2. \A j \in 1 .. k - 1 : j \in 1 .. n
    BY <1>1
  <2>3. \/ q[k].so = 0
        \/ \E j \in 1 .. k - 1 : q[j].sn = q[k].sn /\ q[j].so + q[j].size >= q[k].so
    <3>1. CASE l[k].so = 0
      BY <1>2, <3>1
    <3>2. CASE l[k].so # 0
      <4>1. PICK j \in 1 .. k - 1 : l[j].sn = l[k].sn /\ l[j].so + l[j].size >= l[k].so
        BY <2>1, <3>2 DEF Covered
      <4>2. q[j].sn = q[k].sn /\ q[j].so + q[j].size >= q[k].so
        BY <1>2, <2>2, <4>1
      <4> QED BY <4>2
    <3> QED BY <3>1, <3>2
  <2>4. \E j \in 1 .. n : q[j].sn = q[k].sn /\ q[j].last
    <3>1. PICK j \in 1 .. n : l[j].sn = l[k].sn /\ l[j].last
      BY <1>1, <2>1 DEF Covered
    <3> QED BY <1>2, <3>1
  <2> QED BY <1>2, <2>3, <2>4 DEF Covered
<1>7. ASSUME NEW y, y # x, NotDone(l, y) PROVE NotDone(q, y)
  <2> SUFFICES ASSUME NEW k \in 1 .. n, q[k].sn = y PROVE ~q[k].done
    BY <1>2 DEF NotDone
  <2>1. l[k].sn = y /\ (q[k].done <=> l[k].done)
    BY <1>2, <1>7
  <2> QED BY <1>1, <1>7, <2>1 DEF NotDone
<1>8. ListIn(q, b, h)
  BY <1>2, <1>3, <1>4, <1>5, <1>6 DEF ListIn
<1> QED BY <1>7, <1>8

(* rx_size gives back the bytes of the SDU. *)
LEMMA MarkSizes ==
  ASSUME NEW r, NEW l \in Seq(RxPdus), l = r.rx_list, NEW x, NotDone(l, x),
         NEW q, q = MarkDone(l, x)
  PROVE  Sum(q, OpenW) = Sum(l, OpenW) - SizeOf(OfSn(r, x)) /\ SizeOf(OfSn(r, x)) \in Nat
<1>1. PICK n \in Nat : n = Len(l)
  BY SeqFacts
<1>2. PICK S : S = {d \in ToSet(l) : d.sn = x}
  OBVIOUS
<1>3. PICK u \in Seq(RxPdus) : u = Those(l, S)
  BY ThoseType
<1>4. PICK o \in Seq(RxPdus) : o = Others(l, S)
  BY ThoseType
<1>5. OfSn(r, x) = u
  BY <1>2, <1>3 DEF OfSn
<1>6. \A k \in 1 .. n : l[k] \in RxPdus /\ (l[k] \in S <=> l[k].sn = x)
  <2>1. DOMAIN l = 1 .. n /\ \A i \in 1 .. n : l[i] \in RxPdus
    BY <1>1, SeqFacts
  <2>2. \A i \in 1 .. n : l[i] \in ToSet(l)
    BY <2>1 DEF ToSet
  <2> QED BY <1>2, <2>1, <2>2
<1>7. PICK w \in [RxPdus -> Int] : \A d \in RxPdus : w[d] = IF d.sn = x THEN 0 ELSE OpenW[d]
  <2>1. [d \in RxPdus |-> IF d.sn = x THEN 0 ELSE OpenW[d]] \in [RxPdus -> Int]
    BY OpenWType
  <2> QED BY <2>1
<1>8. \A k \in 1 .. Len(u) : u[k] \in RxPdus /\ u[k].sn = x /\ ~u[k].done
  <2> SUFFICES ASSUME NEW k \in 1 .. Len(u) PROVE u[k] \in RxPdus /\ u[k].sn = x /\ ~u[k].done
    OBVIOUS
  <2>0. \A j \in 1 .. Len(u) : u[j] \in S /\ \E i \in 1 .. Len(l) : u[j] = l[i]
    <3>1. Filters(l, S, u)
      BY <1>3, ThoseFilters
    <3> QED BY <3>1 DEF Filters
  <2>1. PICK i \in 1 .. n : u[k] = l[i] /\ u[k] \in S
    BY <1>1, <2>0
  <2> QED BY <1>1, <1>6, <2>1 DEF NotDone
<1>9. \A k \in 1 .. Len(o) : o[k] \in RxPdus /\ o[k].sn # x
  <2> SUFFICES ASSUME NEW k \in 1 .. Len(o) PROVE o[k] \in RxPdus /\ o[k].sn # x
    OBVIOUS
  <2>0. \A j \in 1 .. Len(o) : o[j] \notin S /\ \E i \in 1 .. Len(l) : o[j] = l[i]
    <3>1. Filters(l, ToSet(l) \ S, o)
      BY <1>4, OthersFilter
    <3> QED BY <3>1 DEF Filters
  <2>1. PICK i \in 1 .. n : o[k] = l[i] /\ o[k] \notin S
    BY <1>1, <2>0
  <2> QED BY <1>1, <1>6, <2>1
<1>10. Sum(u, OpenW) + Sum(o, OpenW) = Sum(l, OpenW) /\ Sum(u, w) + Sum(o, w) = Sum(l, w)
  BY <1>3, <1>4, OpenWType, SumSplits
<1>11. Sum(u, w) = 0
  <2>1. \A k \in 1 .. Len(u) : w[u[k]] = 0
    BY <1>7, <1>8
  <2> QED BY <2>1, SumZero
<1>12. Sum(o, w) = Sum(o, OpenW)
  <2>1. \A k \in 1 .. Len(o) : w[o[k]] = OpenW[o[k]]
    BY <1>7, <1>9
  <2> QED BY <2>1, OpenWType, SumSame, ZenonT(60)
<1>13. SizeOf(u) = Sum(u, OpenW)
  <2>1. \A k \in 1 .. Len(u) : SizeW[u[k]] = OpenW[u[k]]
    <3> SUFFICES ASSUME NEW k \in 1 .. Len(u) PROVE SizeW[u[k]] = OpenW[u[k]]
      OBVIOUS
    <3>1. PICK d \in RxPdus : d = u[k] /\ ~d.done
      BY <1>8
    <3>2. OpenW[d] = d.size /\ SizeW[d] = d.size
      BY <3>1, OpenWType, SizeWType
    <3> QED BY <3>1, <3>2
  <2>2. Sum(u, SizeW) = Sum(u, OpenW)
    BY <2>1, OpenWType, SizeWType, SumSame, ZenonT(60)
  <2> QED BY <2>2, SizeOfIsSum
<1>14. Sum(q, OpenW) = Sum(l, w)
  <2>1. q \in Seq(RxPdus) /\ Len(q) = n
    BY <1>1, MarkedIs
  <2>2. ASSUME NEW k \in 1 .. n PROVE OpenW[q[k]] = w[l[k]]
    <3>1. q[k] \in RxPdus
      BY <2>1, SeqFacts
    <3>2. q[k].size = l[k].size /\ (q[k].done <=> (l[k].sn = x \/ l[k].done))
      BY <1>1, MarkedIs DEF Marked
    <3>3. /\ OpenW[q[k]] = (IF q[k].done THEN 0 ELSE q[k].size)
          /\ OpenW[l[k]] = (IF l[k].done THEN 0 ELSE l[k].size)
      BY <1>6, <3>1, OpenWType
    <3>4. w[l[k]] = IF l[k].sn = x THEN 0 ELSE OpenW[l[k]]
      BY <1>6, <1>7
    <3> QED BY <3>2, <3>3, <3>4
  <2>3. SameWeights(l, w, q, OpenW)
    BY <1>1, <2>1, <2>2 DEF SameWeights
  <2>4. OpenW \in [RxPdus -> Int]
    BY OpenWType
  <2>5. SumsAgree(l, w, q, OpenW)
    BY <2>1, <2>3, <2>4, SumMapped, Zenon
  <2> QED BY <2>5 DEF SumsAgree
<1>15. Sum(u, OpenW) \in Nat /\ Sum(o, OpenW) \in Int
  <2>1. OpenW \in [RxPdus -> Int] /\ \A d \in RxPdus : OpenW[d] >= 0
    BY OpenWType
  <2>2. Sum(u, OpenW) \in Nat
    BY <2>1, SumBounds
  <2>3. Sum(o, OpenW) \in Int
    BY <2>1, SumType
  <2> QED BY <2>2, <2>3
<1>16. Sum(q, OpenW) = Sum(o, OpenW) /\ SizeOf(OfSn(r, x)) = Sum(u, OpenW)
  BY <1>5, <1>10, <1>11, <1>12, <1>13, <1>14, <1>15
<1> QED BY <1>10, <1>15, <1>16

\* reassemble_and_deliver keeps the invariant, rx_highest_status apart.
LEMMA ReassembleKeeps ==
  ASSUME NEW r, RxCore(r), NEW x \in Sns, sdu_full(r, x), NEW u, u = reassemble_and_deliver(r, x)
  PROVE  /\ RxCore(u) /\ u.rx_next = r.rx_next /\ u.rx_highest_status = r.rx_highest_status
         /\ u.rx_next_highest = r.rx_next_highest /\ u.reassembling = r.reassembling
         /\ u.rx_next_status_trigger = r.rx_next_status_trigger
         /\ \A y : y # x /\ NotDone(r.rx_list, y) => NotDone(u.rx_list, y)
<1>1. r \in RxStates /\ r.rx_size = Sum(r.rx_list, OpenW) /\ r.rx_size <= RxMaxSize
  BY DEF RxCore
<1>2. PICK b \in Sns, hs \in Sns, h \in Sns, l \in Seq(RxPdus), z \in Int :
        /\ b = r.rx_next /\ hs = r.rx_highest_status
        /\ h = r.rx_next_highest /\ l = r.rx_list /\ z = r.rx_size
  BY <1>1, RxFields
<1>3. ListIn(l, b, h) /\ Off(b, hs) <= Off(b, h) /\ Off(b, h) <= WindowSize
  BY <1>2 DEF RxCore, ListIn
<1>4. ~sdu_delivered(r, x) /\ ReachesLast(OfSn(r, x))
  BY DEF sdu_full
<1>5. NotDone(l, x)
  <2>1. GroupsDone(l)
    BY <1>3 DEF ListIn
  <2>2. ~\E k \in 1 .. Len(l) : l[k].sn = x /\ l[k].done
    BY <1>2, <1>4, <2>1, DeliveredIs
  <2> QED BY <2>2 DEF NotDone
<1>6. \A m \in 1 .. Len(l) : l[m].sn = x => Covered(l, m)
  BY <1>2, <1>4, FullCovers
<1>7. PICK q : q = MarkDone(l, x)
  OBVIOUS
<1>8. q \in Seq(RxPdus)
  BY <1>7, MarkedIs
<1>9. ListIn(q, b, h) /\ \A y : y # x /\ NotDone(l, y) => NotDone(q, y)
  BY <1>3, <1>6, <1>7, MarkKeeps
<1>10. PICK d : d = SizeOf(OfSn(r, x))
  OBVIOUS
<1>11. Sum(q, OpenW) = Sum(l, OpenW) - d /\ d \in Nat
  BY <1>2, <1>5, <1>7, <1>10, MarkSizes
<1>12. u = [r EXCEPT !.rx_size = z - d, !.rx_list = q]
  BY <1>2, <1>7, <1>10 DEF reassemble_and_deliver
<1>13. u \in RxStates
  <2>1. z - d \in Int
    BY <1>11
  <2> QED BY <1>1, <1>8, <1>12, <2>1 DEF RxStates
<1>14. /\ u.rx_next = b /\ u.rx_highest_status = hs /\ u.rx_next_highest = h
       /\ u.reassembling = r.reassembling /\ u.rx_next_status_trigger = r.rx_next_status_trigger
       /\ u.rx_list = q /\ u.rx_size = z - d
  BY <1>1, <1>2, <1>12 DEF RxStates
<1>15. u.rx_size = Sum(q, OpenW) /\ u.rx_size <= RxMaxSize
  <2>1. z <= RxMaxSize /\ RxMaxSize \in Nat
    BY <1>1, <1>2, RlcRxAssumption
  <2>2. z - d <= RxMaxSize
    BY <1>11, <2>1
  <2> QED BY <1>1, <1>2, <1>11, <1>14, <2>2
<1>16. RxCore(u)
  BY <1>3, <1>9, <1>13, <1>14, <1>15 DEF RxCore, ListIn
<1> QED BY <1>2, <1>9, <1>14, <1>16

\* c sequence numbers from sn on are delivered, up to and not past b's highest.
Undelivered(r, sn, c) ==
  /\ c \in Nat /\ FirstUndelivered(r, sn) = Plus(sn, c)
  /\ Off(r.rx_next, sn) + c <= Off(r.rx_next, r.rx_next_highest)
  /\ \A j \in 0 .. c - 1 : sdu_delivered(r, Plus(sn, j))
  /\ NotDone(r.rx_list, Plus(sn, c))

\* The loop over delivered SDUs stops at the first one that is not delivered.
LEMMA FirstUndeliveredIs ==
  ASSUME NEW r, RxCore(r), NEW sn \in Sns,
         Off(r.rx_next, sn) <= Off(r.rx_next, r.rx_next_highest)
  PROVE  \E c \in Nat : Undelivered(r, sn, c)
<1>1. r \in RxStates
  BY DEF RxCore
<1>2. PICK b \in Sns, h \in Sns, l \in Seq(RxPdus) :
        b = r.rx_next /\ h = r.rx_next_highest /\ l = r.rx_list
  BY <1>1, RxFields
<1>3. GroupsDone(l) /\ (\A k \in 1 .. Len(l) : Off(b, l[k].sn) < Off(b, h)) /\ Off(b, h) <= WindowSize
  BY <1>2 DEF RxCore
<1>4. PICK M \in Nat : M = SnModulus /\ M >= 2 /\ WindowSize < M
  BY Constants
<1>5. PICK I : I = {n \in 0 .. M - 1 : \A j \in 0 .. n - 1 : sdu_delivered(r, Plus(sn, j))}
  OBVIOUS
<1>6. FirstUndelivered(r, sn) = Plus(sn, Max(I))
  BY <1>4, <1>5 DEF FirstUndelivered, Plus
<1>7. PICK c : c = Max(I)
  OBVIOUS
<1>8. c \in I /\ (\A i \in I : i <= c) /\ c \in 0 .. M - 1
  <2>1. 0 \in I
    <3>1. 0 \in 0 .. M - 1 /\ \A j \in 0 .. 0 - 1 : FALSE
      BY <1>4
    <3> QED BY <1>5, <3>1
  <2>2. I \subseteq 0 .. M /\ I # {}
    <3>1. I \subseteq 0 .. M - 1
      BY <1>5
    <3>2. 0 .. M - 1 \subseteq 0 .. M
      BY <1>4
    <3> QED BY <2>1, <3>1, <3>2
  <2>3. c \in I /\ \A i \in I : i <= c
    BY <1>4, <1>7, <2>2, MaxIs
  <2> QED BY <1>5, <2>3
<1>9. \A j \in 0 .. c - 1 : sdu_delivered(r, Plus(sn, j))
  BY <1>5, <1>8
<1>10. PICK os \in Nat, oh \in Nat : os = Off(b, sn) /\ oh = Off(b, h) /\ os <= oh /\ oh < M
  BY <1>2, <1>4, OffType
<1>11. PICK m \in Nat : m = oh - os /\ m < M
  BY <1>10
<1>12. Plus(sn, m) = h
  <2>1. m <= SnModulus
    BY <1>4, <1>11
  <2>2. Plus(sn, m) \in Sns
    BY <2>1, PlusIs
  <2>3. Off(b, Plus(sn, m)) = oh
    <3>1. Off(b, Plus(sn, m)) = IF os + m < SnModulus THEN os + m ELSE os + m - SnModulus
      BY <1>10, <2>1, OffPlus
    <3>2. os + m = oh /\ oh < SnModulus
      BY <1>4, <1>10, <1>11
    <3> QED BY <3>1, <3>2
  <2> QED BY <1>10, <2>2, <2>3, OffInjective
<1>13. ~sdu_delivered(r, h)
  <2>1. ~\E k \in 1 .. Len(l) : l[k].sn = h /\ l[k].done
    BY <1>3, <1>10
  <2> QED BY <1>2, <1>3, <2>1, DeliveredIs
<1>14. c <= m
  <2> SUFFICES ASSUME ~(c <= m) PROVE FALSE
    OBVIOUS
  <2>1. m \in 0 .. c - 1
    BY <1>8, <1>11
  <2> QED BY <1>9, <1>12, <1>13, <2>1
<1>15. ~sdu_delivered(r, Plus(sn, c))
  <2> SUFFICES ASSUME sdu_delivered(r, Plus(sn, c)) PROVE FALSE
    OBVIOUS
  <2>1. c # m
    BY <1>12, <1>13
  <2>2. c + 1 \in 0 .. M - 1 /\ c \in Nat
    BY <1>8, <1>11, <1>14, <2>1
  <2>3. \A j \in 0 .. (c + 1) - 1 : j \in 0 .. c - 1 \/ j = c
    BY <2>2
  <2>4. c + 1 \in I
    BY <1>5, <1>9, <2>2, <2>3
  <2> QED BY <1>8, <2>2, <2>4
<1>16. NotDone(l, Plus(sn, c))
  <2>1. ~\E k \in 1 .. Len(l) : l[k].sn = Plus(sn, c) /\ l[k].done
    BY <1>2, <1>3, <1>15, DeliveredIs
  <2> QED BY <2>1 DEF NotDone
<1>17. c \in Nat /\ os + c <= oh
  BY <1>8, <1>10, <1>11, <1>14
<1>18. Undelivered(r, sn, c)
  BY <1>2, <1>6, <1>7, <1>9, <1>10, <1>16, <1>17 DEF Undelivered
<1> QED BY <1>17, <1>18

\* rx_highest_status moves past what is delivered.
LEMMA AdvanceStatusKeeps ==
  ASSUME NEW r, RxCore(r), NEW x \in Sns,
         x # r.rx_highest_status => NotDone(r.rx_list, r.rx_highest_status),
         NEW u, u = AdvanceHighestStatus(r, x)
  PROVE  /\ RxCore(u) /\ NotDone(u.rx_list, u.rx_highest_status)
         /\ u.rx_next = r.rx_next /\ u.rx_next_highest = r.rx_next_highest
         /\ u.rx_next_status_trigger = r.rx_next_status_trigger /\ u.reassembling = r.reassembling
<1>1. r \in RxStates
  BY DEF RxCore
<1>2. CASE x # r.rx_highest_status
  BY <1>2 DEF AdvanceHighestStatus
<1>3. CASE x = r.rx_highest_status
  <2>1. PICK b \in Sns, h \in Sns, l \in Seq(RxPdus) :
          b = r.rx_next /\ h = r.rx_next_highest /\ l = r.rx_list
    BY <1>1, RxFields
  <2>2. Off(b, x) <= Off(b, h) /\ Off(b, h) <= WindowSize
    BY <1>3, <2>1 DEF RxCore
  <2>3. PICK c \in Nat : Undelivered(r, x, c)
    BY <2>1, <2>2, FirstUndeliveredIs
  <2>4. PICK hs : hs = Plus(x, c)
    OBVIOUS
  <2>5. Off(b, x) + c <= Off(b, h) /\ NotDone(l, hs) /\ FirstUndelivered(r, x) = hs
    BY <2>1, <2>3, <2>4 DEF Undelivered
  <2>6. hs \in Sns /\ Off(b, hs) <= Off(b, h)
    <3>1. PICK ox \in Nat, oh \in Nat : ox = Off(b, x) /\ oh = Off(b, h) /\ oh < SnModulus
      BY OffType
    <3>2. ox + c < SnModulus /\ c <= SnModulus /\ ox + c <= oh
      BY <2>5, <3>1, Constants
    <3>3. hs \in Sns
      BY <2>4, <3>2, PlusIs
    <3>4. Off(b, hs) = ox + c
      BY <2>4, <3>1, <3>2, OffPlus
    <3> QED BY <3>1, <3>2, <3>3, <3>4
  <2>7. u = [r EXCEPT !.rx_highest_status = hs]
    BY <1>3, <2>5 DEF AdvanceHighestStatus
  <2>8. u \in RxStates
    BY <1>1, <2>6, <2>7 DEF RxStates
  <2>9. /\ u.rx_next = b /\ u.rx_next_highest = h /\ u.rx_list = l /\ u.rx_highest_status = hs
        /\ u.rx_next_status_trigger = r.rx_next_status_trigger
        /\ u.reassembling = r.reassembling /\ u.rx_size = r.rx_size
    BY <1>1, <2>1, <2>7 DEF RxStates
  <2>10. RxCore(u)
    BY <2>1, <2>6, <2>8, <2>9 DEF RxCore
  <2> QED BY <2>1, <2>5, <2>9, <2>10
<1> QED BY <1>2, <1>3

(* The list without the SDUs of the first c sequence numbers, all delivered. *)
LEMMA DroppedKeeps ==
  ASSUME NEW b \in Sns, NEW h \in Sns, NEW l \in Seq(RxPdus), ListIn(l, b, h),
         NEW c \in Nat, c <= Off(b, h), NEW n, n = Plus(b, c),
         NEW S, S = {d \in ToSet(l) : Off(b, d.sn) >= c}, NEW q, q = Those(l, S)
  PROVE  /\ q \in Seq(RxPdus) /\ ListIn(q, n, h)
         /\ \A y : NotDone(l, y) => NotDone(q, y)
<1>1. PICK m \in Nat : m = Len(l) /\ (\A k \in 1 .. m : l[k] \in RxPdus) /\ DOMAIN l = 1 .. m
  <2>1. Len(l) \in Nat /\ (\A k \in 1 .. Len(l) : l[k] \in RxPdus) /\ DOMAIN l = 1 .. Len(l)
    BY SeqFacts
  <2> QED BY <2>1
<1>2. q \in Seq(RxPdus)
  BY ThoseType
<1>3. PICK t \in Nat : t = Len(q)
  BY <1>2, SeqFacts
<1>4. PICK p : Picks(l, S, q, p, m)
  BY <1>1, ThosePick
<1>5. /\ p \in [1 .. t -> 1 .. m]
      /\ \A j, k \in 1 .. t : j < k => p[j] < p[k]
      /\ \A k \in 1 .. t : q[k] = l[p[k]] /\ q[k] \in S
      /\ \A i \in 1 .. m : l[i] \in S => \E k \in 1 .. t : p[k] = i
  BY <1>3, <1>4 DEF Picks
<1>6. \A k \in 1 .. m : l[k].sn \in Sns /\ Off(b, l[k].sn) \in Nat /\ (l[k] \in S <=> Off(b, l[k].sn) >= c)
  <2> SUFFICES ASSUME NEW k \in 1 .. m
               PROVE  l[k].sn \in Sns /\ Off(b, l[k].sn) \in Nat /\ (l[k] \in S <=> Off(b, l[k].sn) >= c)
    OBVIOUS
  <2>1. l[k] \in ToSet(l)
    BY <1>1 DEF ToSet
  <2>2. l[k].sn \in Sns
    BY <1>1, RxPduTypes
  <2> QED BY <2>1, <2>2, OffType
<1>7. \A a \in Sns : Off(b, a) >= c => Off(n, a) = Off(b, a) - c
  <2> SUFFICES ASSUME NEW a \in Sns, Off(b, a) >= c PROVE Off(n, a) = Off(b, a) - c
    OBVIOUS
  <2>1. PICK oa \in Nat, oh \in Nat : oa = Off(b, a) /\ oh = Off(b, h) /\ oh < SnModulus
    BY OffType
  <2>2. c <= SnModulus
    BY <2>1, Constants
  <2>3. Off(n, a) = IF c <= oa THEN oa - c ELSE oa - c + SnModulus
    BY <2>1, <2>2, OffShift
  <2> QED BY <2>1, <2>3
<1>8. PICK oh \in Nat : oh = Off(b, h) /\ Off(n, h) = oh - c
  BY <1>7, OffType
<1>9. ASSUME NEW k \in 1 .. t
      PROVE  p[k] \in 1 .. m /\ q[k] = l[p[k]] /\ Off(b, l[p[k]].sn) >= c
             /\ Off(n, q[k].sn) = Off(b, l[p[k]].sn) - c /\ Off(b, l[p[k]].sn) \in Nat
  <2>1. p[k] \in 1 .. m /\ q[k] = l[p[k]] /\ l[p[k]] \in S
    BY <1>5
  <2>2. l[p[k]].sn \in Sns /\ Off(b, l[p[k]].sn) >= c /\ Off(b, l[p[k]].sn) \in Nat
    BY <1>6, <2>1
  <2> QED BY <1>7, <2>1, <2>2
<1>10. \A k \in 1 .. t : Off(n, q[k].sn) < Off(n, h)
  <2> SUFFICES ASSUME NEW k \in 1 .. t PROVE Off(n, q[k].sn) < Off(n, h)
    OBVIOUS
  <2>1. PICK i \in 1 .. m : i = p[k]
    BY <1>9
  <2>2. PICK oi \in Nat : oi = Off(b, l[i].sn) /\ Off(n, q[k].sn) = oi - c
    BY <1>9, <2>1
  <2>3. oi < oh
    BY <1>1, <1>8, <2>2 DEF ListIn
  <2> QED BY <1>8, <2>2, <2>3
<1>11. InOrder(n, q)
  <2> SUFFICES ASSUME NEW j \in 1 .. t, NEW k \in 1 .. t, j < k
               PROVE  Off(n, q[j].sn) <= Off(n, q[k].sn)
    BY <1>3 DEF InOrder
  <2>1. PICK i1 \in 1 .. m, i2 \in 1 .. m : i1 = p[j] /\ i2 = p[k] /\ i1 < i2
    BY <1>5
  <2>2. Off(b, l[i1].sn) <= Off(b, l[i2].sn)
    BY <1>1, <2>1 DEF ListIn, InOrder
  <2>3. PICK o1 \in Nat : o1 = Off(b, l[i1].sn) /\ Off(n, q[j].sn) = o1 - c
    BY <1>9, <2>1
  <2>4. PICK o2 \in Nat : o2 = Off(b, l[i2].sn) /\ Off(n, q[k].sn) = o2 - c
    BY <1>9, <2>1
  <2> QED BY <2>2, <2>3, <2>4
<1>12. GroupsDone(q)
  <2> SUFFICES ASSUME NEW j \in 1 .. t, NEW k \in 1 .. t, q[j].sn = q[k].sn
               PROVE  q[j].done <=> q[k].done
    BY <1>3 DEF GroupsDone
  <2>1. p[j] \in 1 .. m /\ p[k] \in 1 .. m /\ q[j] = l[p[j]] /\ q[k] = l[p[k]]
    BY <1>9
  <2> QED BY <1>1, <2>1 DEF ListIn, GroupsDone
<1>13. ASSUME NEW k \in 1 .. t, NEW i \in 1 .. m, l[i].sn = q[k].sn
       PROVE  \E j \in 1 .. t : q[j] = l[i] /\ p[j] = i
  <2>1. l[i] \in S
    BY <1>6, <1>9, <1>13
  <2>2. PICK j \in 1 .. t : p[j] = i
    BY <1>5, <2>1
  <2> QED BY <1>5, <2>2
<1>14. DoneCovered(q)
  <2> SUFFICES ASSUME NEW k \in 1 .. t, q[k].done PROVE Covered(q, k)
    BY <1>3 DEF DoneCovered
  <2>1. PICK y \in 1 .. m : y = p[k] /\ q[k] = l[y]
    BY <1>9
  <2>2. Covered(l, y)
    BY <1>1, <2>1 DEF ListIn, DoneCovered
  <2>3. \/ q[k].so = 0
        \/ \E j \in 1 .. k - 1 : q[j].sn = q[k].sn /\ q[j].so + q[j].size >= q[k].so
    <3>1. CASE l[y].so = 0
      BY <2>1, <3>1
    <3>2. CASE l[y].so # 0
      <4>1. PICK i \in 1 .. y - 1 : l[i].sn = l[y].sn /\ l[i].so + l[i].size >= l[y].so
        BY <2>2, <3>2 DEF Covered
      <4>2. i \in 1 .. m /\ i < y
        BY <1>1
      <4>6. l[i].sn = q[k].sn
        BY <2>1, <4>1, Zenon
      <4>3. PICK j \in 1 .. t : q[j] = l[i] /\ p[j] = i
        BY <1>13, <4>2, <4>6, Zenon
      <4>4. j < k
        <5>1. j = k \/ k < j \/ j < k
          BY <1>3
        <5>2. CASE k < j
          <6>1. p[k] < p[j]
            BY <1>5, <5>2
          <6> QED BY <2>1, <4>2, <4>3, <6>1
        <5> QED BY <2>1, <4>2, <4>3, <5>1, <5>2
      <4>5. j \in 1 .. k - 1
        BY <1>3, <4>4
      <4> QED BY <2>1, <4>1, <4>3, <4>5
    <3> QED BY <3>1, <3>2
  <2>4. \E j \in 1 .. t : q[j].sn = q[k].sn /\ q[j].last
    <3>1. PICK i \in 1 .. m : l[i].sn = l[y].sn /\ l[i].last
      BY <1>1, <2>2 DEF Covered
    <3>2. l[i].sn = q[k].sn
      BY <2>1, <3>1, Zenon
    <3>3. PICK j \in 1 .. t : q[j] = l[i] /\ p[j] = i
      BY <1>13, <3>2, Zenon
    <3>4. q[j].sn = q[k].sn /\ q[j].last
      BY <3>1, <3>2, <3>3, Zenon
    <3> QED BY <3>4
  <2> QED BY <1>3, <2>3, <2>4 DEF Covered
<1>15. ASSUME NEW y, NotDone(l, y) PROVE NotDone(q, y)
  <2> SUFFICES ASSUME NEW k \in 1 .. t, q[k].sn = y PROVE ~q[k].done
    BY <1>3 DEF NotDone
  <2>1. p[k] \in 1 .. m /\ q[k] = l[p[k]]
    BY <1>9
  <2> QED BY <1>1, <1>15, <2>1 DEF NotDone
<1>16. ListIn(q, n, h)
  BY <1>3, <1>10, <1>11, <1>12, <1>14 DEF ListIn
<1> QED BY <1>2, <1>15, <1>16

\* The trigger may have been passed: StopReassembly sees it.
TriggerNear(r) ==
  r.reassembling => \/ Off(r.rx_next, r.rx_next_status_trigger) <= Off(r.rx_next, r.rx_next_highest)
                    \/ Off(r.rx_next, r.rx_next_status_trigger) > WindowSize

\* rx_next moves past what is delivered, which leaves the list.
LEMMA AdvanceNextKeeps ==
  ASSUME NEW r, RxMid(r), NEW x \in Sns, NEW u, u = AdvanceRxNext(r, x)
  PROVE  RxCore(u) /\ NotDone(u.rx_list, u.rx_highest_status) /\ TriggerNear(u)
<1>1. r \in RxStates
  BY DEF RxMid, RxCore
<1>2. CASE x # r.rx_next
  <2>1. u = r
    BY <1>2 DEF AdvanceRxNext
  <2> QED BY <2>1 DEF RxMid, TriggerIn, TriggerNear
<1>3. CASE x = r.rx_next
  <2>1. PICK b \in Sns, h \in Sns, hs \in Sns, tr \in Sns, l \in Seq(RxPdus), z \in Int :
          /\ b = r.rx_next /\ h = r.rx_next_highest /\ l = r.rx_list /\ hs = r.rx_highest_status
          /\ tr = r.rx_next_status_trigger /\ z = r.rx_size
    BY <1>1, RxFields
  <2>2. /\ ListIn(l, b, h) /\ NotDone(l, hs) /\ Off(b, hs) <= Off(b, h) /\ Off(b, h) <= WindowSize
        /\ z = Sum(l, OpenW) /\ z <= RxMaxSize /\ RxCore(r)
    BY <2>1 DEF RxMid, RxCore, ListIn
  <2>3. PICK oh \in Nat, os \in Nat, ot \in Nat :
          /\ oh = Off(b, h) /\ os = Off(b, hs) /\ ot = Off(b, tr)
          /\ os <= oh /\ oh <= WindowSize /\ ot < SnModulus
    BY <2>2, OffType
  <2>4. Off(b, b) = 0
    BY OffSelf
  <2>5. PICK c \in Nat : Undelivered(r, b, c)
    BY <2>1, <2>2, <2>3, <2>4, FirstUndeliveredIs
  <2>6. PICK n : n = Plus(b, c)
    OBVIOUS
  <2>7. FirstUndelivered(r, b) = n /\ c <= oh /\ \A j \in 0 .. c - 1 : sdu_delivered(r, Plus(b, j))
    BY <2>1, <2>3, <2>4, <2>5, <2>6, SMTT(40) DEF Undelivered
  <2>8. c <= SnModulus /\ c < SnModulus /\ c <= WindowSize /\ WindowSize \in Nat /\ SnModulus = 2 * WindowSize
    <3>1. c <= oh
      BY <2>7, Zenon
    <3>2. oh <= WindowSize
      BY <2>3, Zenon
    <3> QED BY <3>1, <3>2, Constants
  <2>9. n \in Sns /\ Off(b, n) = c
    BY <2>4, <2>6, <2>8, PlusIs, OffPlus
  <2>10. ASSUME NEW k \in 1 .. Len(l), Off(b, l[k].sn) < c PROVE l[k].done
    <3>1. l[k] \in RxPdus
      BY SeqFacts
    <3>2. PICK y \in Sns, oy \in Nat : y = l[k].sn /\ oy = Off(b, y)
      BY <3>1, RxPduTypes, OffType
    <3>3. oy \in 0 .. c - 1 /\ oy <= SnModulus /\ oy < SnModulus
      BY <2>8, <2>10, <3>2, Constants
    <3>4. Plus(b, oy) = y
      <4>1. Plus(b, oy) \in Sns
        BY <3>3, PlusIs
      <4>2. Off(b, Plus(b, oy)) = oy
        BY <2>4, <3>3, OffPlus
      <4> QED BY <3>2, <4>1, <4>2, OffInjective
    <3>5. sdu_delivered(r, y)
      BY <2>7, <3>3, <3>4
    <3>6. GroupsDone(l)
      BY <2>2 DEF ListIn
    <3>7. PICK j \in 1 .. Len(l) : l[j].sn = y /\ l[j].done
      BY <2>1, <3>5, <3>6, DeliveredIs
    <3> QED BY <3>2, <3>6, <3>7 DEF GroupsDone
  <2>11. c <= os
    <3> SUFFICES ASSUME os < c PROVE FALSE
      BY <2>3
    <3>1. os \in 0 .. c - 1 /\ os <= SnModulus /\ os < SnModulus
      BY <2>8, Constants
    <3>2. Plus(b, os) = hs
      <4>1. Plus(b, os) \in Sns
        BY <3>1, PlusIs
      <4>2. Off(b, Plus(b, os)) = os
        BY <2>4, <3>1, OffPlus
      <4> QED BY <2>3, <4>1, <4>2, OffInjective
    <3>3. sdu_delivered(r, hs)
      BY <2>7, <3>1, <3>2
    <3>4. GroupsDone(l)
      BY <2>2 DEF ListIn
    <3>5. PICK j \in 1 .. Len(l) : l[j].sn = hs /\ l[j].done
      BY <2>1, <3>3, <3>4, DeliveredIs
    <3> QED BY <2>2, <3>5 DEF NotDone
  <2>12. PICK S : S = {d \in ToSet(l) : Off(b, d.sn) >= c}
    OBVIOUS
  <2>13. PICK q : q = Those(l, S)
    OBVIOUS
  <2>14. q \in Seq(RxPdus) /\ ListIn(q, n, h) /\ NotDone(q, hs)
    <3>1. c <= Off(b, h)
      BY <2>3, <2>7
    <3>2. q \in Seq(RxPdus) /\ ListIn(q, n, h) /\ \A y : NotDone(l, y) => NotDone(q, y)
      BY <2>2, <2>6, <2>12, <2>13, <3>1, DroppedKeeps
    <3> QED BY <2>2, <3>2
  <2>15. Sum(q, OpenW) = z
    <3>1. PICK o \in Seq(RxPdus) : o = Others(l, S)
      BY ThoseType
    <3>2. OpenW \in [RxPdus -> Int]
      BY OpenWType
    <3>3. Sum(q, OpenW) + Sum(o, OpenW) = Sum(l, OpenW)
      BY <2>13, <3>1, <3>2, SumSplits
    <3>4. Filters(l, ToSet(l) \ S, o)
      BY <3>1, OthersFilter
    <3>5. ASSUME NEW k \in 1 .. Len(o) PROVE OpenW[o[k]] = 0
      <4>1. PICK i \in 1 .. Len(l) : o[k] = l[i]
        BY <3>4 DEF Filters
      <4>2. l[i] \in ToSet(l) \ S
        BY <3>4, <4>1 DEF Filters
      <4>3. l[i] \in RxPdus
        BY SeqFacts
      <4>4. Off(b, l[i].sn) \in Nat
        BY <4>3, RxPduTypes, OffType
      <4>5. Off(b, l[i].sn) < c
        BY <2>12, <4>2, <4>4
      <4>6. l[i].done
        BY <2>10, <4>5
      <4> QED BY <4>1, <4>3, <4>6, OpenWType
    <3>6. Sum(o, OpenW) = 0
      BY <3>2, <3>5, SumZero
    <3>7. Sum(q, OpenW) \in Int
      BY <2>14, <3>2, SumType
    <3> QED BY <2>2, <3>3, <3>6, <3>7
  <2>16. u = [r EXCEPT !.rx_next = n, !.rx_list = q]
    <3>1. \A d : modulus_rx(r, d.sn) = Off(b, d.sn)
      BY <2>1 DEF modulus_rx, Off
    <3>2. modulus_rx(r, n) = c
      BY <2>1, <2>9 DEF modulus_rx, Off
    <3>3. {d \in ToSet(l) : modulus_rx(r, d.sn) >= modulus_rx(r, n)} = S
      BY <2>12, <3>1, <3>2
    <3>4. u = MoveRxNext(r, n)
      BY <1>3, <2>1, <2>7 DEF AdvanceRxNext
    <3> QED BY <2>1, <2>13, <3>3, <3>4 DEF MoveRxNext
  <2>17. u \in RxStates
    BY <1>1, <2>9, <2>14, <2>16 DEF RxStates
  <2>18. /\ u.rx_next = n /\ u.rx_next_highest = h /\ u.rx_list = q /\ u.rx_highest_status = hs
         /\ u.rx_next_status_trigger = tr
         /\ u.reassembling = r.reassembling /\ u.rx_size = z
    BY <1>1, <2>1, <2>16 DEF RxStates
  <2>19. Off(n, h) = oh - c /\ Off(n, hs) = os - c
         /\ Off(n, tr) = IF c <= ot THEN ot - c ELSE ot - c + SnModulus
    BY <2>3, <2>6, <2>7, <2>8, <2>11, OffShift
  <2>20. Off(n, hs) <= Off(n, h) /\ Off(n, h) <= WindowSize
    BY <2>3, <2>8, <2>19
  <2>21. RxCore(u)
    BY <2>2, <2>14, <2>15, <2>17, <2>18, <2>20 DEF RxCore, ListIn
  <2>22. TriggerNear(u)
    <3> SUFFICES ASSUME u.reassembling PROVE Off(n, tr) <= Off(n, h) \/ Off(n, tr) > WindowSize
      BY <2>18 DEF TriggerNear
    <3>1. 1 <= ot /\ ot <= oh
      BY <2>1, <2>3, <2>18 DEF RxMid, TriggerIn
    <3> QED BY <2>8, <2>19, <3>1
  <2> QED BY <2>14, <2>18, <2>21, <2>22
<1> QED BY <1>2, <1>3

\* The list and the window are the same.
SameList(r, u) ==
  /\ u \in RxStates /\ u.rx_next = r.rx_next /\ u.rx_next_highest = r.rx_next_highest
  /\ u.rx_list = r.rx_list /\ u.rx_size = r.rx_size

\* RxCore depends on the list and the window variables only.
LEMMA SameCore ==
  ASSUME NEW r, RxCore(r), NEW u, SameList(r, u), u.rx_highest_status = r.rx_highest_status
  PROVE  RxCore(u)
BY DEF RxCore, SameList

\* So does GapAfter.
LEMMA SameGap ==
  ASSUME NEW r, NEW u, SameList(r, u), NEW sn
  PROVE  GapAfter(u, sn) <=> GapAfter(r, sn)
<1>1. u.rx_next = r.rx_next /\ u.rx_next_highest = r.rx_next_highest /\ u.rx_list = r.rx_list
  BY DEF SameList
<1>2. OfSn(u, sn) = OfSn(r, sn)
  BY <1>1 DEF OfSn
<1>3. sdu_has_missing_bytes(u, sn) <=> sdu_has_missing_bytes(r, sn)
  BY <1>2, Zenon DEF sdu_has_missing_bytes, sdu_delivered
<1>4. \A a, c : sn_compare_rx(u, a, c) = sn_compare_rx(r, a, c)
  BY <1>1 DEF sn_compare_rx, modulus_rx
<1> QED BY <1>1, <1>3, <1>4 DEF GapAfter

\* Delivering an SDU restores what marking it broke.
LEMMA DeliverKeeps ==
  ASSUME NEW r, RxMid(r), NEW x \in Sns, NEW u, u = DeliverIfFull(r, x)
  PROVE  RxCore(u) /\ NotDone(u.rx_list, u.rx_highest_status) /\ TriggerNear(u)
<1>0. RxCore(r) /\ NotDone(r.rx_list, r.rx_highest_status) /\ TriggerIn(r)
  BY DEF RxMid
<1>1. CASE ~sdu_full(r, x)
  <2>1. u = r
    BY <1>1 DEF DeliverIfFull
  <2> QED BY <1>0, <2>1 DEF TriggerIn, TriggerNear
<1>2. CASE sdu_full(r, x)
  <2>1. PICK v : v = reassemble_and_deliver(r, x)
    OBVIOUS
  <2>2. /\ RxCore(v) /\ v.rx_next = r.rx_next /\ v.rx_highest_status = r.rx_highest_status
        /\ v.rx_next_highest = r.rx_next_highest /\ v.reassembling = r.reassembling
        /\ v.rx_next_status_trigger = r.rx_next_status_trigger
        /\ \A y : y # x /\ NotDone(r.rx_list, y) => NotDone(v.rx_list, y)
    BY <1>0, <1>2, <2>1, ReassembleKeeps
  <2>3. PICK w : w = AdvanceHighestStatus(v, x)
    OBVIOUS
  <2>4. x # v.rx_highest_status => NotDone(v.rx_list, v.rx_highest_status)
    BY <1>0, <2>2
  <2>5. /\ RxCore(w) /\ NotDone(w.rx_list, w.rx_highest_status)
        /\ w.rx_next = v.rx_next /\ w.rx_next_highest = v.rx_next_highest
        /\ w.rx_next_status_trigger = v.rx_next_status_trigger /\ w.reassembling = v.reassembling
    BY <2>2, <2>3, <2>4, AdvanceStatusKeeps
  <2>6. TriggerIn(w)
    BY <1>0, <2>2, <2>5 DEF TriggerIn
  <2>7. RxMid(w)
    BY <2>5, <2>6 DEF RxMid
  <2>8. u = AdvanceRxNext(w, x)
    BY <1>2, <2>1, <2>3 DEF DeliverIfFull, Deliver
  <2> QED BY <2>7, <2>8, AdvanceNextKeeps
<1> QED BY <1>1, <1>2

\* t_reassembly is stopped when what it waits for is there.
LEMMA StopKeeps ==
  ASSUME NEW r, RxCore(r), NotDone(r.rx_list, r.rx_highest_status), TriggerNear(r),
         NEW u, u = StopReassembly(r)
  PROVE  RxMid(u)
<1>1. r \in RxStates
  BY DEF RxCore
<1>2. PICK b \in Sns, h \in Sns, tr \in Sns :
        b = r.rx_next /\ h = r.rx_next_highest /\ tr = r.rx_next_status_trigger
  BY <1>1, RxFields
<1>3. PICK re \in BOOLEAN : re = (r.reassembling /\ ~ReassemblyOver(r))
  OBVIOUS
<1>4. u = [r EXCEPT !.reassembling = re]
  BY <1>3 DEF StopReassembly
<1>5. /\ SameList(r, u) /\ u.rx_highest_status = r.rx_highest_status
      /\ u.rx_next_status_trigger = tr /\ u.reassembling = re
  BY <1>1, <1>2, <1>4 DEF RxStates, SameList
<1>6. ASSUME u.reassembling PROVE 1 <= Off(b, tr) /\ Off(b, tr) <= Off(b, h)
  <2>1. r.reassembling /\ ~ReassemblyOver(r)
    BY <1>3, <1>5, <1>6
  <2>2. tr # b /\ (Off(b, tr) < WindowSize \/ tr = (b + WindowSize) % SnModulus)
    BY <1>2, <2>1 DEF ReassemblyOver, sn_in_recv_window, modulus_rx, Off
  <2>3. PICK ot \in Nat, oh \in Nat : ot = Off(b, tr) /\ oh = Off(b, h)
    BY OffType
  <2>4. ot # 0
    BY <2>2, <2>3, OffSelf
  <2>5. ot <= WindowSize
    <3>1. CASE Off(b, tr) < WindowSize
      BY <2>3, <3>1, Constants
    <3>2. CASE tr = (b + WindowSize) % SnModulus
      <4>1. /\ tr = Plus(b, WindowSize)
            /\ WindowSize \in Nat /\ WindowSize <= SnModulus /\ WindowSize < SnModulus
        BY <3>2, Constants DEF Plus
      <4>2. Off(b, b) = 0
        BY OffSelf
      <4>3. Off(b, tr) = WindowSize
        BY <4>1, <4>2, OffPlus
      <4> QED BY <2>3, <4>1, <4>3
    <3> QED BY <2>2, <3>1, <3>2
  <2>6. ot <= oh \/ ot > WindowSize
    BY <1>2, <2>1, <2>3 DEF TriggerNear
  <2> QED BY <2>3, <2>4, <2>5, <2>6, Constants
<1>7. TriggerIn(u)
  BY <1>2, <1>5, <1>6 DEF TriggerIn, SameList
<1>8. RxCore(u)
  BY <1>5, SameCore
<1>9. NotDone(u.rx_list, u.rx_highest_status)
  BY <1>5 DEF SameList
<1> QED BY <1>7, <1>8, <1>9 DEF RxMid

(* t_reassembly is started when something is missing after sn. *)
LEMMA TimeGapKeeps ==
  ASSUME NEW r, RxMid(r), NEW sn, sn = r.rx_next \/ sn = r.rx_highest_status,
         NEW u, u = TimeGapAfter(r, sn)
  PROVE  RxInv(u)
<1>1. r \in RxStates /\ RxCore(r) /\ NotDone(r.rx_list, r.rx_highest_status) /\ TriggerIn(r)
  BY DEF RxMid, RxCore
<1>2. PICK b \in Sns, h \in Sns, hs \in Sns :
        b = r.rx_next /\ h = r.rx_next_highest /\ hs = r.rx_highest_status
  BY <1>1, RxFields
<1>3. CASE r.reassembling
  <2>1. u = r
    BY <1>3 DEF TimeGapAfter
  <2> QED BY <1>1, <1>3, <2>1 DEF RxInv, GapTimed
<1>4. CASE ~r.reassembling /\ ~GapAfter(r, sn)
  <2>1. u = r
    BY <1>4 DEF TimeGapAfter
  <2>2. GapTimed(r)
    BY <1>4 DEF GapTimed
  <2> QED BY <1>1, <2>1, <2>2 DEF RxInv
<1>5. CASE ~r.reassembling /\ GapAfter(r, sn)
  <2>1. u = [r EXCEPT !.reassembling = TRUE, !.rx_next_status_trigger = h]
    BY <1>2, <1>5 DEF TimeGapAfter, StartReassembly
  <2>2. /\ SameList(r, u) /\ u.rx_highest_status = r.rx_highest_status
        /\ u.rx_next_status_trigger = h /\ u.reassembling = TRUE
    BY <1>1, <1>2, <2>1 DEF RxStates, SameList
  <2>3. RxCore(u)
    BY <1>1, <2>2, SameCore
  <2>4. PICK s1 \in Sns : s1 = sn /\ Off(b, s1) <= Off(b, h)
    <3>1. Off(b, hs) <= Off(b, h) /\ Off(b, b) = 0
      BY <1>1, <1>2, OffSelf DEF RxCore
    <3>2. Off(b, h) >= 0 /\ Off(b, h) \in Nat
      BY OffType
    <3>3. Off(b, b) <= Off(b, h)
      BY <3>1, <3>2
    <3> QED BY <1>2, <3>1, <3>3
  <2>5. PICK p \in Sns : p = Plus(s1, 1)
    <3>1. 1 \in Nat /\ 1 <= SnModulus
      BY Constants
    <3>2. Plus(s1, 1) \in Sns
      BY <3>1, PlusIs
    <3> QED BY <3>2
  <2>6. Off(b, h) >= 1
    <3>1. PICK oh \in Nat, op \in Nat, o1 \in Nat :
            oh = Off(b, h) /\ op = Off(b, p) /\ o1 = Off(b, s1)
      <4>1. Off(b, h) \in Nat /\ Off(b, p) \in Nat /\ Off(b, s1) \in Nat
        BY OffType
      <4> QED BY <4>1
    <3>2. oh - op > 0 \/ h = p
      BY <1>2, <1>5, <2>4, <2>5, <3>1 DEF GapAfter, sn_compare_rx, modulus_rx, Off, Plus
    <3>3. op = IF o1 + 1 < SnModulus THEN o1 + 1 ELSE o1 + 1 - SnModulus
      <4>1. 1 \in Nat /\ 1 <= SnModulus
        BY Constants
      <4> QED BY <2>5, <3>1, <4>1, OffPlus
    <3>4. o1 <= oh /\ oh < SnModulus /\ SnModulus \in Nat /\ SnModulus >= 2
      BY <2>4, <3>1, OffType, Constants
    <3>5. oh - op > 0 \/ oh = op
      BY <3>1, <3>2
    <3>6. PICK M \in Nat : M = SnModulus
      BY <3>4
    <3>7. oh >= 1
      <4>1. op = (IF o1 + 1 < M THEN o1 + 1 ELSE o1 + 1 - M) /\ o1 <= oh /\ oh < M /\ M >= 2
        BY <3>3, <3>4, <3>6
      <4> QED BY <3>5, <4>1
    <3> QED BY <3>1, <3>7
  <2>7. TriggerIn(u)
    <3>1. Off(b, h) \in Nat
      BY OffType
    <3> QED BY <1>2, <2>2, <2>6, <3>1 DEF TriggerIn, SameList
  <2>8. GapTimed(u)
    BY <2>2 DEF GapTimed
  <2>9. NotDone(u.rx_list, u.rx_highest_status)
    BY <1>1, <2>2 DEF SameList
  <2> QED BY <2>3, <2>7, <2>8, <2>9 DEF RxInv
<1> QED BY <1>3, <1>4, <1>5

\* Flags and timers that no other part reads may change.
LEMMA FlagsKeep ==
  ASSUME NEW r, RxInv(r), NEW u, SameList(r, u), u.rx_highest_status = r.rx_highest_status,
         u.rx_next_status_trigger = r.rx_next_status_trigger, u.reassembling = r.reassembling
  PROVE  RxInv(u)
<1>1. RxCore(u)
  BY SameCore DEF RxInv
<1>2. NotDone(u.rx_list, u.rx_highest_status) /\ TriggerIn(u)
  BY DEF RxInv, TriggerIn, SameList
<1>3. GapTimed(u)
  <2>1. GapAfter(u, r.rx_next) <=> GapAfter(r, r.rx_next)
    BY SameGap
  <2>2. GapAfter(u, r.rx_highest_status) <=> GapAfter(r, r.rx_highest_status)
    BY SameGap
  <2> QED BY <2>1, <2>2 DEF RxInv, GapTimed, SameList
<1> QED BY <1>1, <1>2, <1>3 DEF RxInv

\* The data part of nr_rlc_entity_am_recv_pdu keeps the invariant.
LEMMA RecvDataKeeps ==
  ASSUME NEW r, RxInv(r), NEW pdu \in DataPdus, NEW u, u = recv_data_pdu(r, pdu)
  PROVE  RxInv(u)
<1>1. PICK v : v = IF Accepts(r, pdu) THEN reception_actions(Stored(r, pdu), pdu.sn) ELSE r
  OBVIOUS
<1>2. RxInv(v)
  <2>1. CASE ~Accepts(r, pdu)
    BY <1>1, <2>1
  <2>2. CASE Accepts(r, pdu)
    <3>0. PICK x \in Sns : x = pdu.sn
      BY DataPduTypes
    <3>1. PICK a : a = NoteHighest(Stored(r, pdu), pdu.sn)
      OBVIOUS
    <3>2. RxMid(a)
      <4>1. RxMid(r)
        BY DEF RxInv, RxMid
      <4> QED BY <2>2, <3>1, <4>1, StoredKeeps
    <3>3. PICK d : d = DeliverIfFull(a, x)
      OBVIOUS
    <3>4. RxCore(d) /\ NotDone(d.rx_list, d.rx_highest_status) /\ TriggerNear(d)
      BY <3>2, <3>3, DeliverKeeps
    <3>5. PICK e : e = StopReassembly(d)
      OBVIOUS
    <3>6. RxMid(e)
      BY <3>4, <3>5, StopKeeps
    <3>7. v = TimeGapAfter(e, e.rx_next)
      BY <1>1, <2>2, <3>0, <3>1, <3>3, <3>5 DEF reception_actions, TimeGap
    <3> QED BY <3>6, <3>7, TimeGapKeeps
  <2> QED BY <2>1, <2>2
<1>3. v \in RxStates
  BY <1>2 DEF RxInv, RxCore
<1>4. PICK st \in BOOLEAN : st = (v.status_triggered \/ pdu.p)
  OBVIOUS
<1>5. u = [v EXCEPT !.status_triggered = st]
  BY <1>1, <1>4 DEF recv_data_pdu
<1>6. /\ SameList(v, u) /\ u.rx_highest_status = v.rx_highest_status
      /\ u.rx_next_status_trigger = v.rx_next_status_trigger /\ u.reassembling = v.reassembling
  BY <1>3, <1>5 DEF RxStates, SameList
<1> QED BY <1>2, <1>6, FlagsKeep

\* check_t_reassembly keeps the invariant.
LEMMA ExpiryKeeps ==
  ASSUME NEW r, RxInv(r), r.reassembling, NEW u, u = check_t_reassembly(r)
  PROVE  RxInv(u)
<1>1. r \in RxStates /\ RxCore(r) /\ TriggerIn(r)
  BY DEF RxInv, RxCore
<1>2. PICK b \in Sns, h \in Sns, tr \in Sns, l \in Seq(RxPdus) :
        /\ b = r.rx_next /\ h = r.rx_next_highest /\ tr = r.rx_next_status_trigger
        /\ l = r.rx_list
  BY <1>1, RxFields
<1>3. Off(b, tr) <= Off(b, h)
  BY <1>1, <1>2 DEF TriggerIn
<1>4. PICK c \in Nat : Undelivered(r, tr, c)
  BY <1>1, <1>2, <1>3, FirstUndeliveredIs
<1>5. PICK sn : sn = Plus(tr, c)
  OBVIOUS
<1>6. Off(b, tr) + c <= Off(b, h) /\ NotDone(l, sn) /\ FirstUndelivered(r, tr) = sn
  BY <1>2, <1>4, <1>5 DEF Undelivered
<1>7. sn \in Sns /\ Off(b, sn) <= Off(b, h)
  <2>1. PICK ox \in Nat, oh \in Nat : ox = Off(b, tr) /\ oh = Off(b, h) /\ oh < SnModulus
    BY OffType
  <2>2. ox + c < SnModulus /\ c <= SnModulus /\ ox + c <= oh
    BY <1>6, <2>1, Constants
  <2>3. sn \in Sns
    BY <1>5, <2>2, PlusIs
  <2>4. Off(b, sn) = ox + c
    BY <1>5, <2>1, <2>2, OffPlus
  <2> QED BY <2>1, <2>2, <2>3, <2>4
<1>8. PICK v : v = [r EXCEPT !.reassembling = FALSE, !.status_triggered = TRUE,
                             !.rx_highest_status = sn]
  OBVIOUS
<1>9. v \in RxStates
  BY <1>1, <1>7, <1>8 DEF RxStates
<1>10. /\ SameList(r, v) /\ v.rx_highest_status = sn /\ v.reassembling = FALSE
  BY <1>1, <1>8, <1>9 DEF RxStates, SameList
<1>11. RxCore(v)
  BY <1>1, <1>2, <1>7, <1>10 DEF RxCore, SameList
<1>12. NotDone(v.rx_list, v.rx_highest_status) /\ TriggerIn(v)
  BY <1>2, <1>6, <1>10 DEF TriggerIn, SameList
<1>13. RxMid(v)
  BY <1>11, <1>12 DEF RxMid
<1>14. u = TimeGapAfter(v, sn)
  BY <1>2, <1>6, <1>8 DEF check_t_reassembly, ReportUpTo
<1> QED BY <1>10, <1>13, <1>14, TimeGapKeeps

\* The receiver starts in the invariant.
LEMMA FreshRxInv == RxInv(FreshRx)
<1>1. 0 \in Sns /\ Off(0, 0) = 0 /\ 0 <= WindowSize /\ WindowSize \in Nat /\ RxMaxSize \in Nat
  BY Constants, OffSelf, RlcRxAssumption
<1>2. FreshRx \in RxStates
  BY <1>1 DEF FreshRx, RxStates
<1>3. /\ FreshRx.rx_next = 0 /\ FreshRx.rx_next_highest = 0 /\ FreshRx.rx_highest_status = 0
      /\ FreshRx.rx_list = <<>> /\ FreshRx.rx_size = 0 /\ FreshRx.reassembling = FALSE
  BY DEF FreshRx
<1>4. Sum(<<>>, OpenW) = 0
  BY SumEmpty, OpenWType
<1>5. RxCore(FreshRx)
  BY <1>1, <1>2, <1>3, <1>4 DEF RxCore, InOrder, GroupsDone, DoneCovered
<1>6. NotDone(FreshRx.rx_list, FreshRx.rx_highest_status) /\ TriggerIn(FreshRx)
  BY <1>3 DEF NotDone, TriggerIn
<1>7. GapTimed(FreshRx)
  <2>1. ~GapAfter(FreshRx, 0)
    <3>1. PICK p \in Sns : p = (0 + 1) % SnModulus /\ p = 1
      BY Constants
    <3>2. Off(0, p) \in Nat
      BY <1>1, <3>1, OffType
    <3>3. ~(sn_compare_rx(FreshRx, 0, p) > 0)
      BY <1>1, <1>3, <3>2 DEF sn_compare_rx, modulus_rx, Off
    <3> QED BY <1>3, <3>1, <3>3 DEF GapAfter
  <2> QED BY <1>3, <2>1 DEF GapTimed
<1> QED BY <1>5, <1>6, <1>7 DEF RxInv

\* Byte b is in one of the first n PDUs.
InFirst(q, n, b) == \E i \in 1 .. n : q[i].so <= b /\ b < q[i].so + q[i].size

(* Without a hole all bytes up to where the PDUs reach are there. *)
LEMMA NoHoleFills ==
  ASSUME NEW q \in Seq(RxPdus), ~HasHole(q)
  PROVE  \A n \in 0 .. Len(q) : \A b \in Nat : b < Reach(q, n) => InFirst(q, n, b)
<1>1. Len(q) \in Nat /\ DOMAIN q = 1 .. Len(q) /\ \A k \in 1 .. Len(q) : q[k] \in RxPdus
  BY SeqFacts
<1>2. \A j \in 1 .. Len(q) : ~(q[j].so > Reach(q, j - 1))
  BY <1>1 DEF HasHole
<1> DEFINE G == {n \in 0 .. Len(q) : \A b \in Nat : b < Reach(q, n) => InFirst(q, n, b)}
<1>3. 0 \in G
  <2>1. 0 \in 0 .. Len(q)
    BY <1>1
  <2>2. Reach(q, 0) = 0
    BY <2>1, ReachIs
  <2> QED BY <2>1, <2>2
<1>4. ASSUME NEW n \in 1 .. Len(q), n - 1 \in G PROVE n \in G
  <2>1. n \in 0 .. Len(q) /\ n - 1 \in 0 .. Len(q)
    BY <1>1
  <2>2. PICK x \in Nat, y \in Nat : x = Reach(q, n - 1) /\ y = Reach(q, n)
    <3>1. Reach(q, n) \in 0 .. SduSize /\ Reach(q, n - 1) \in 0 .. SduSize
      BY <2>1, ReachIs
    <3> QED BY <3>1, Constants
  <2>3. PICK so \in Nat, z \in Nat : so = q[n].so /\ z = q[n].size
    BY <1>1, RxPduTypes
  <2>4. so <= x
    BY <1>2, <2>2, <2>3
  <2>5. ASSUME NEW b \in Nat, b < y PROVE InFirst(q, n, b)
    <3>1. CASE b < x
      <4>1. InFirst(q, n - 1, b)
        BY <1>4, <2>2, <3>1
      <4>2. PICK i \in 1 .. n - 1 : q[i].so <= b /\ b < q[i].so + q[i].size
        BY <4>1 DEF InFirst
      <4>3. i \in 1 .. n
        BY <1>1
      <4> QED BY <4>2, <4>3 DEF InFirst
    <3>2. CASE ~(b < x)
      <4>1. \E k \in 1 .. n : y = q[k].so + q[k].size
        <5>1. y # 0
          BY <2>5
        <5> QED BY <2>1, <2>2, <5>1, ReachIs
      <4>2. PICK k \in 1 .. n : y = q[k].so + q[k].size
        BY <4>1
      <4>3. k = n
        <5>1. k \in 1 .. n - 1 \/ k = n
          BY <1>1
        <5>2. CASE k \in 1 .. n - 1
          <6>1. q[k].so + q[k].size <= x
            BY <2>1, <2>2, <5>2, ReachIs
          <6> QED BY <2>5, <3>2, <4>2, <6>1
        <5> QED BY <5>1, <5>2
      <4>4. q[n].so <= b /\ b < q[n].so + q[n].size /\ n \in 1 .. n
        BY <1>1, <2>3, <2>4, <2>5, <3>2, <4>2, <4>3
      <4> QED BY <4>4 DEF InFirst
    <3> QED BY <3>1, <3>2
  <2> QED BY <2>1, <2>2, <2>5
<1>5. \A n \in 0 .. Len(q) : n \in G
  <2> HIDE DEF G
  <2> QED BY <1>1, <1>3, <1>4, PlaceInduction
<1> QED BY <1>5

(* Every gap is timed or reported. *)
LEMMA GapTimedHolds ==
  ASSUME RxInv(rx)
  PROVE  GapIsTimed
<1>1. rx \in RxStates /\ RxCore(rx) /\ NotDone(rx.rx_list, rx.rx_highest_status) /\ GapTimed(rx)
  BY DEF RxInv, RxCore
<1>2. PICK b \in Sns, h \in Sns, hs \in Sns, l \in Seq(RxPdus) :
        b = rx.rx_next /\ h = rx.rx_next_highest /\ hs = rx.rx_highest_status /\ l = rx.rx_list
  BY <1>1, RxFields
<1>3. DOMAIN l = 1 .. Len(l) /\ Len(l) \in Nat /\ \A k \in 1 .. Len(l) : l[k] \in RxPdus
  BY SeqFacts
<1> SUFFICES ASSUME ~rx.reassembling, NEW k \in 1 .. Len(l), Off(b, l[k].sn) - Off(b, hs) >= 0
             PROVE  l[k].sn = hs /\ \A y \in 0 .. l[k].so - 1 : HasByte(rx, l[k].sn, y)
  BY <1>2, <1>3 DEF GapIsTimed, sn_compare_rx, modulus_rx, Off
<1>4. PICK sn \in Sns : sn = l[k].sn
  BY <1>3, RxPduTypes
<1>5. PICK oh \in Nat, os \in Nat, ok \in Nat :
        oh = Off(b, h) /\ os = Off(b, hs) /\ ok = Off(b, sn)
  <2>1. Off(b, h) \in Nat /\ Off(b, hs) \in Nat /\ Off(b, sn) \in Nat
    BY OffType
  <2> QED BY <2>1
<1>6. ok >= os /\ ok < oh /\ oh < SnModulus /\ Off(b, b) = 0
  <2>1. ok < oh
    BY <1>1, <1>2, <1>4, <1>5 DEF RxCore
  <2>2. Off(b, h) < SnModulus /\ Off(b, b) = 0
    BY OffType, OffSelf
  <2> QED BY <1>4, <1>5, <2>1, <2>2
<1>7. ASSUME NEW s \in Sns, ~GapAfter(rx, s), os >= Off(b, s), s = b \/ s = hs
      PROVE  sn = hs /\ s = hs /\ ~sdu_has_missing_bytes(rx, hs)
  <2>1. PICK o \in Nat : o = Off(b, s)
    BY OffType
  <2>2. 1 \in Nat /\ 1 <= SnModulus
    BY Constants
  <2>3. PICK p \in Sns : p = Plus(s, 1)
    <3>1. Plus(s, 1) \in Sns
      BY <2>2, PlusIs
    <3> QED BY <3>1
  <2>4. PICK op \in Nat : op = Off(b, p)
    BY OffType
  <2>5. op = IF o + 1 < SnModulus THEN o + 1 ELSE o + 1 - SnModulus
    BY <2>1, <2>2, <2>3, <2>4, OffPlus
  <2>6. ~(oh - op > 0) /\ (h = p => ~sdu_has_missing_bytes(rx, s))
    BY <1>2, <1>5, <1>7, <2>3, <2>4 DEF GapAfter, sn_compare_rx, modulus_rx, Off, Plus
  <2>7. o < SnModulus /\ SnModulus \in Nat
    BY <2>1, OffType, Constants
  <2>8. oh = o + 1 /\ op = oh /\ ok = o /\ os = o
    BY <1>5, <1>6, <1>7, <2>1, <2>5, <2>6, <2>7, SMTT(40)
  <2>9. h = p
    BY <1>5, <2>4, <2>8, OffInjective
  <2>10. sn = s /\ hs = s
    BY <1>5, <2>1, <2>8, OffInjective
  <2> QED BY <2>6, <2>9, <2>10
<1>8. sn = hs /\ ~sdu_has_missing_bytes(rx, hs)
  <2>1. CASE ~GapAfter(rx, b)
    <3>1. os >= Off(b, b)
      BY <1>5, <1>6
    <3> QED BY <1>7, <2>1, <3>1
  <2>2. CASE ~GapAfter(rx, hs)
    <3>1. os >= Off(b, hs)
      BY <1>5
    <3> QED BY <1>7, <2>2, <3>1
  <2> QED BY <1>1, <1>2, <2>1, <2>2 DEF GapTimed
<1>9. PICK q \in Seq(RxPdus) : q = OfSn(rx, hs)
  BY <1>2, OfSnPicks
<1>10. ~HasHole(q)
  <2>1. GroupsDone(l)
    BY <1>1, <1>2 DEF RxCore
  <2>2. ~\E i \in 1 .. Len(l) : l[i].sn = hs /\ l[i].done
    BY <1>1, <1>2 DEF NotDone
  <2>3. ~sdu_delivered(rx, hs)
    BY <1>2, <2>1, <2>2, DeliveredIs
  <2> QED BY <1>8, <1>9, <2>3 DEF sdu_has_missing_bytes
<1>11. PICK p : Placed(l, hs, q, p)
  BY <1>2, <1>9, OfSnPicks
<1>12. PICK j \in 1 .. Len(q) : q[j] = l[k]
  <2>1. PICK j \in 1 .. Len(q) : p[j] = k
    BY <1>4, <1>8, <1>11 DEF Placed
  <2>2. q[j] = l[p[j]]
    BY <1>11 DEF Placed
  <2> QED BY <2>1, <2>2
<1>13. Len(q) \in Nat /\ DOMAIN q = 1 .. Len(q)
  BY SeqFacts
<1>14. PICK so \in Nat : so = l[k].so
  BY <1>3, RxPduTypes
<1>15. j - 1 \in 0 .. Len(q) /\ ~(so > Reach(q, j - 1))
  <2>1. \A i \in 1 .. Len(q) : ~(q[i].so > Reach(q, i - 1))
    BY <1>10, <1>13 DEF HasHole
  <2> QED BY <1>12, <1>13, <1>14, <2>1
<1>16. ASSUME NEW y \in 0 .. so - 1 PROVE HasByte(rx, hs, y)
  <2>1. Reach(q, j - 1) \in Nat
    <3>1. Reach(q, j - 1) \in 0 .. SduSize
      BY <1>15, ReachIs
    <3> QED BY <3>1, Constants
  <2>2. y \in Nat /\ y < Reach(q, j - 1)
    BY <1>14, <1>15, <2>1
  <2>3. InFirst(q, j - 1, y)
    BY <1>10, <1>15, <2>2, NoHoleFills
  <2>4. PICK i \in 1 .. j - 1 : q[i].so <= y /\ y < q[i].so + q[i].size
    BY <2>3 DEF InFirst
  <2>5. i \in 1 .. Len(q)
    BY <1>13
  <2>6. p[i] \in 1 .. Len(l) /\ q[i] = l[p[i]] /\ l[p[i]].sn = hs
    BY <1>11, <2>5 DEF Placed
  <2>7. p[i] \in DOMAIN rx.rx_list /\ rx.rx_list[p[i]] = q[i] /\ q[i].sn = hs
    BY <1>2, <1>3, <2>6
  <2> QED BY <2>4, <2>7 DEF HasByte
<1> QED BY <1>4, <1>8, <1>14, <1>16

-----------------------------------------------------------------------------
(* The gaps that a status PDU reports.                                      *)

\* Everything received lies below rx_highest_status.
Below(r) ==
  \A k \in 1 .. Len(r.rx_list) : Off(r.rx_next, r.rx_list[k].sn) < Off(r.rx_next, r.rx_highest_status)

GapEnds == [sn : Sns, so : Nat \cup {-1}]

Reports(n) ==
  [ack_sn : Sns \cup {-1}, sn_start : Sns \cup {-1}, so_start : Nat, sn_end : Sns,
   so_end : Nat \cup {-1}, next : 0 .. n]

\* A gap within one SDU does not end before it starts, and no gap ends before it starts
\* when all that was received lies below rx_highest_status.
GapOk(r, m) ==
  /\ m \in Reports(Len(r.rx_list))
  /\ m.sn_start # -1 /\ m.sn_end = m.sn_start => m.so_end = -1 \/ m.so_start <= m.so_end
  /\ m.sn_start # -1 /\ Below(r) =>
        /\ Off(r.rx_next, m.sn_start) <= Off(r.rx_next, m.sn_end)
        /\ Off(r.rx_next, m.sn_end) < WindowSize

\* The distance of the sequence number before a.
LEMMA OffLess ==
  ASSUME NEW b \in Sns, NEW a \in Sns, Off(b, a) >= 1
  PROVE  Off(b, (a - 1) % SnModulus) = Off(b, a) - 1 /\ (a - 1) % SnModulus \in Sns
<1>1. PICK p \in Sns : p = (a - 1) % SnModulus
  BY LessOne
<1>2. p = IF a = 0 THEN SnModulus - 1 ELSE a - 1
  BY <1>1, LessOne
<1>3. Off(b, a) = (IF a >= b THEN a - b ELSE a - b + SnModulus)
  BY OffIs
<1>4. Off(b, p) = (IF p >= b THEN p - b ELSE p - b + SnModulus)
  BY OffIs
<1>5. PICK M \in Nat : M = SnModulus /\ M >= 2 /\ a \in 0 .. M - 1 /\ b \in 0 .. M - 1
  BY Constants
<1>6. Off(b, p) = Off(b, a) - 1
  BY <1>2, <1>3, <1>4, <1>5
<1> QED BY <1>1, <1>6

\* max_so is an offset.
LEMMA MaxSoType ==
  ASSUME NEW r, NEW l \in Seq(RxPdus), l = r.rx_list, NEW i \in 1 .. Len(l), NEW k \in i .. Len(l)
  PROVE  MaxSo(r, i, k) \in Nat
<1>1. PICK J : J = {m \in i .. k : l[m].sn = l[k].sn}
  OBVIOUS
<1>2. PICK R : R = {l[j].so + l[j].size - 1 : j \in J}
  OBVIOUS
<1>3. \A j \in J : l[j].so + l[j].size - 1 \in 0 .. SduSize
  <2> SUFFICES ASSUME NEW j \in J PROVE l[j].so + l[j].size - 1 \in 0 .. SduSize
    OBVIOUS
  <2>1. j \in 1 .. Len(l)
    <3>1. Len(l) \in Nat /\ j \in i .. k
      BY <1>1, SeqFacts
    <3> QED BY <3>1
  <2>2. l[j] \in RxPdus
    BY <2>1, SeqFacts
  <2>3. l[j].so \in Nat /\ l[j].size \in Nat /\ l[j].size >= 1 /\ l[j].so + l[j].size <= SduSize
    BY <2>2, RxPduTypes
  <2>4. SduSize \in Nat
    BY Constants
  <2>5. PICK x \in Nat, y \in Nat, z \in Nat :
          x = l[j].so /\ y = l[j].size /\ z = SduSize /\ y >= 1 /\ x + y <= z
    BY <2>3, <2>4
  <2>51. y >= 1 /\ x + y <= z
    BY <2>5
  <2>6. x + y - 1 \in Int /\ 0 <= x + y - 1 /\ x + y - 1 <= z
    BY <2>51
  <2> QED BY <2>5, <2>6
<1>4. {0} \cup R \subseteq 0 .. SduSize /\ {0} \cup R # {} /\ SduSize \in Nat
  <2>1. R \subseteq 0 .. SduSize
    BY <1>2, <1>3
  <2> QED BY <2>1, Constants
<1>5. Max({0} \cup R) \in {0} \cup R
  BY <1>4, MaxIs
<1>6. MaxSo(r, i, k) = Max({0} \cup R)
  BY <1>1, <1>2 DEF MaxSo
<1> QED BY <1>4, <1>5, <1>6

\* next_missing stops at the end of the list or at a discontinuity.
LEMMA StopsAtIs ==
  ASSUME NEW r, NEW l \in Seq(RxPdus), l = r.rx_list, NEW i \in 1 .. Len(l), NEW k, k = StopsAt(r, i)
  PROVE  k \in i .. Len(l) /\ (k = Len(l) \/ ~Continuous(r, i, k))
<1>1. PICK n \in Nat : n = Len(l)
  BY SeqFacts
<1>2. PICK I : I = {x \in i .. n : \A j \in i .. x - 1 : Continuous(r, i, j)}
  OBVIOUS
<1>3. k = Max(I)
  BY <1>1, <1>2 DEF StopsAt
<1>4. i \in I
  <2>1. i \in i .. n /\ \A j \in i .. i - 1 : FALSE
    BY <1>1
  <2> QED BY <1>2, <2>1
<1>5. I \subseteq i .. n /\ i .. n \subseteq 0 .. n
  BY <1>1, <1>2
<1>6. k \in I /\ \A x \in I : x <= k
  <2>1. I \subseteq 0 .. n /\ I # {}
    BY <1>4, <1>5
  <2> QED BY <1>3, <2>1, MaxIs
<1>7. k \in i .. n /\ \A j \in i .. k - 1 : Continuous(r, i, j)
  BY <1>2, <1>6
<1>8. ASSUME k # n, Continuous(r, i, k) PROVE FALSE
  <2>1. k + 1 \in i .. n /\ \A j \in i .. (k + 1) - 1 : j \in i .. k - 1 \/ j = k
    BY <1>1, <1>7, <1>8
  <2>2. k + 1 \in I
    BY <1>2, <1>7, <1>8, <2>1
  <2> QED BY <1>6, <1>7, <2>2
<1> QED BY <1>1, <1>7, <1>8

\* The ack_sn of next_missing.
LEMMA AckType ==
  ASSUME NEW r, NEW l \in Seq(RxPdus), l = r.rx_list, NEW D, D \subseteq 1 .. Len(l)
  PROVE  AckOf(r, D) \in Sns \cup {-1}
<1>1. CASE D = {}
  BY <1>1 DEF AckOf
<1>2. CASE D # {}
  <2>1. Len(l) \in Nat /\ D \subseteq 0 .. Len(l)
    BY SeqFacts
  <2>2. Max(D) \in 1 .. Len(l)
    BY <1>2, <2>1, MaxIs
  <2>3. l[Max(D)] \in RxPdus
    BY <2>2, SeqFacts
  <2>4. PICK a \in Sns : a = l[Max(D)].sn
    BY <2>3, RxPduTypes
  <2>5. (a + 1) % SnModulus \in Sns
    <3>1. Plus(a, 1) \in Sns
      <4>1. 1 \in Nat /\ 1 <= SnModulus
        BY Constants
      <4> QED BY <4>1, PlusIs
    <3> QED BY <3>1 DEF Plus
  <2> QED BY <1>2, <2>4, <2>5 DEF AckOf
<1> QED BY <1>1, <1>2

\* The fields that next_missing reads.
Reads(r, b, h, hs, l) ==
  /\ b \in Sns /\ h \in Sns /\ hs \in Sns /\ l \in Seq(RxPdus)
  /\ b = r.rx_next /\ h = r.rx_next_highest /\ hs = r.rx_highest_status /\ l = r.rx_list
  /\ InOrder(b, l) /\ (\A k \in 1 .. Len(l) : Off(b, l[k].sn) < Off(b, h))
  /\ Off(b, h) <= WindowSize /\ Off(b, hs) <= Off(b, h)

\* What next_missing reads.
LEMMA RxReads ==
  ASSUME NEW r, RxCore(r)
  PROVE  Reads(r, r.rx_next, r.rx_next_highest, r.rx_highest_status, r.rx_list)
<1>1. r \in RxStates
  BY DEF RxCore
<1> QED BY <1>1, RxFields DEF RxCore, Reads

\* A gap is reported when it starts below rx_highest_status.
LEMMA ReportedIs ==
  ASSUME NEW r, NEW b, NEW h, NEW hs, NEW l, Reads(r, b, h, hs, l), NEW sn
  PROVE  Reported(r, sn) <=> Off(b, hs) - Off(b, sn) > 0
BY DEF Reported, sn_compare_rx, modulus_rx, Off, Reads

\* What is in the list lies in the window.
LEMMA PlacesIn ==
  ASSUME NEW r, NEW b, NEW h, NEW hs, NEW l, Reads(r, b, h, hs, l), NEW k \in 1 .. Len(l)
  PROVE  /\ l[k] \in RxPdus /\ l[k].sn \in Sns /\ Off(b, l[k].sn) \in Nat
         /\ Off(b, l[k].sn) < WindowSize
<1>1. l[k] \in RxPdus
  BY SeqFacts DEF Reads
<1>2. l[k].sn \in Sns /\ b \in Sns /\ h \in Sns
  BY <1>1, RxPduTypes DEF Reads
<1>3. PICK x \in Nat, y \in Nat, w \in Nat : x = Off(b, l[k].sn) /\ y = Off(b, h) /\ w = WindowSize
  <2>1. Off(b, l[k].sn) \in Nat /\ Off(b, h) \in Nat
    BY <1>2, OffType
  <2>2. WindowSize \in Nat
    BY Constants
  <2> QED BY <2>1, <2>2
<1>4. x < y /\ y <= w
  BY <1>3 DEF Reads
<1>5. x < w
  BY <1>4
<1> QED BY <1>1, <1>2, <1>3, <1>5

\* Where a gap before PDU n ends.
EndOk(r, b, l, n, e) ==
  /\ e \in GapEnds
  /\ e.so # -1 => e.sn = l[n].sn
  /\ Below(r) /\ (l[n].sn # b \/ ~l[n].first) =>
        Off(b, e.sn) <= Off(b, l[n].sn) /\ Off(b, l[n].sn) - 1 <= Off(b, e.sn)

\* set_end_different_sdu ends a gap where the next PDU starts.
LEMMA GapEndIs ==
  ASSUME NEW r, NEW b, NEW h, NEW hs, NEW l, Reads(r, b, h, hs, l), NEW n \in 1 .. Len(l),
         NEW stack \in Sns
  PROVE  EndOk(r, b, l, n, GapEnd(r, n, stack))
<1>0. PICK e : e = GapEnd(r, n, stack)
  OBVIOUS
<1>1. l[n] \in RxPdus /\ l[n].sn \in Sns /\ Off(b, l[n].sn) \in Nat
  BY PlacesIn
<1>2. PICK cur \in RxPdus, sn \in Sns, on \in Nat : cur = l[n] /\ sn = cur.sn /\ on = Off(b, sn)
  BY <1>1
<1>3. b \in Sns /\ hs \in Sns /\ l = r.rx_list /\ b = r.rx_next /\ hs = r.rx_highest_status
  BY DEF Reads
<1>4. PICK os \in Nat : os = Off(b, hs)
  <2>1. Off(b, hs) \in Nat
    BY <1>3, OffType
  <2> QED BY <2>1
<1>5. sn_compare_rx(r, hs, sn) = os - on
  BY <1>2, <1>3, <1>4 DEF sn_compare_rx, modulus_rx, Off
<1>6. e = IF os - on <= 0 THEN [sn |-> stack, so |-> -1]
          ELSE IF cur.first THEN [sn |-> (sn - 1) % SnModulus, so |-> -1]
          ELSE [sn |-> sn, so |-> cur.so - 1]
  BY <1>0, <1>2, <1>3, <1>5 DEF GapEnd
<1>7. CASE os - on <= 0
  <2>1. e = [sn |-> stack, so |-> -1]
    BY <1>6, <1>7
  <2>2. e \in GapEnds /\ e.so = -1
    BY <2>1 DEF GapEnds
  <2>3. ~Below(r)
    <3>1. ~(on < os)
      BY <1>7
    <3> QED BY <1>2, <1>3, <1>4, <3>1 DEF Below
  <2> QED BY <1>0, <2>2, <2>3 DEF EndOk
<1>8. CASE ~(os - on <= 0) /\ cur.first
  <2>1. e = [sn |-> (sn - 1) % SnModulus, so |-> -1]
    BY <1>6, <1>8
  <2>2. (sn - 1) % SnModulus \in Sns
    BY LessOne
  <2>3. e \in GapEnds /\ e.so = -1 /\ e.sn = (sn - 1) % SnModulus
    BY <2>1, <2>2 DEF GapEnds
  <2>4. ASSUME sn # b PROVE Off(b, e.sn) = on - 1
    <3>1. on >= 1
      <4>1. on # 0
        BY <1>2, <1>3, <2>4, OffSelf
      <4> QED BY <4>1
    <3> QED BY <1>2, <1>3, <2>3, <3>1, OffLess
  <2>5. Below(r) /\ (l[n].sn # b \/ ~l[n].first) =>
           Off(b, e.sn) <= Off(b, l[n].sn) /\ Off(b, l[n].sn) - 1 <= Off(b, e.sn)
    <3> SUFFICES ASSUME l[n].sn # b \/ ~l[n].first
                 PROVE  Off(b, e.sn) <= Off(b, l[n].sn) /\ Off(b, l[n].sn) - 1 <= Off(b, e.sn)
      OBVIOUS
    <3>1. Off(b, e.sn) = on - 1
      BY <1>2, <1>8, <2>4
    <3>2. on - 1 <= on /\ on - 1 <= on - 1
      OBVIOUS
    <3> QED BY <1>2, <3>1, <3>2
  <2> QED BY <1>0, <2>3, <2>5 DEF EndOk
<1>9. CASE ~(os - on <= 0) /\ ~cur.first
  <2>1. e = [sn |-> sn, so |-> cur.so - 1]
    BY <1>6, <1>9
  <2>2. cur.so \in Nat /\ cur.so # 0
    BY <1>9, RxPduTypes
  <2>3. cur.so - 1 \in Nat
    BY <2>2
  <2>4. e \in GapEnds /\ e.sn = sn
    BY <2>1, <2>3 DEF GapEnds
  <2>5. on <= on /\ on - 1 <= on
    OBVIOUS
  <2>6. Off(b, e.sn) <= Off(b, l[n].sn) /\ Off(b, l[n].sn) - 1 <= Off(b, e.sn)
    BY <1>2, <2>4, <2>5
  <2>7. e.sn = l[n].sn
    BY <1>2, <2>4
  <2> QED BY <1>0, <2>4, <2>6, <2>7 DEF EndOk
<1> QED BY <1>7, <1>8, <1>9

\* Nothing to report.
LEMMA NoReportOk ==
  ASSUME NEW r, NEW l \in Seq(RxPdus), l = r.rx_list, NEW ack \in Sns \cup {-1}
  PROVE  GapOk(r, NoReport(ack))
<1>1. PICK m : m = NoReport(ack)
  OBVIOUS
<1>2. m = [ack_sn |-> ack, sn_start |-> -1, so_start |-> 0, sn_end |-> 0, so_end |-> 0, next |-> 0]
  BY <1>1 DEF NoReport, Report
<1>3. 0 \in Sns /\ 0 \in 0 .. Len(r.rx_list) /\ 0 \in Nat
  BY Constants, SeqFacts
<1>4. m \in Reports(Len(r.rx_list))
  BY <1>2, <1>3 DEF Reports
<1>5. m.sn_start = -1
  BY <1>2
<1> QED BY <1>1, <1>4, <1>5 DEF GapOk

(* A report with its fields. *)
LEMMA ReportOk ==
  ASSUME NEW r, NEW n, n = Len(r.rx_list), NEW ack \in Sns \cup {-1}, NEW s \in Sns, NEW so \in Nat,
         NEW es \in Sns, NEW eo \in Nat \cup {-1}, NEW nx \in 0 .. n,
         es = s => eo = -1 \/ so <= eo,
         Below(r) => Off(r.rx_next, s) <= Off(r.rx_next, es) /\ Off(r.rx_next, es) < WindowSize
  PROVE  GapOk(r, Report(ack, s, so, es, eo, nx))
<1>1. PICK m : m = Report(ack, s, so, es, eo, nx)
  OBVIOUS
<1>2. m = [ack_sn |-> ack, sn_start |-> s, so_start |-> so, sn_end |-> es, so_end |-> eo, next |-> nx]
  BY <1>1 DEF Report
<1>3. m \in Reports(Len(r.rx_list))
  BY <1>2 DEF Reports
<1>4. m.sn_start = s /\ m.sn_end = es /\ m.so_start = so /\ m.so_end = eo
  BY <1>2
<1> QED BY <1>1, <1>3, <1>4 DEF GapOk

\* The gap before the head of the list.
LEMMA HeadOk ==
  ASSUME NEW r, NEW b, NEW h, NEW hs, NEW l, Reads(r, b, h, hs, l), NEW i \in 1 .. Len(l),
         NEW stack \in Sns, l[i].sn # b \/ ~l[i].first
  PROVE  GapOk(r, MissingAtHead(r, i, stack))
<1>1. b \in Sns /\ l \in Seq(RxPdus) /\ l = r.rx_list /\ b = r.rx_next
  BY DEF Reads
<1>2. -1 \in Sns \cup {-1}
  OBVIOUS
<1>3. CASE ~Reported(r, l[i].sn)
  <2>1. MissingAtHead(r, i, stack) = NoReport(-1)
    BY <1>1, <1>3 DEF MissingAtHead
  <2>2. GapOk(r, NoReport(-1))
    BY <1>1, <1>2, NoReportOk
  <2> QED BY <2>1, <2>2
<1>4. CASE Reported(r, l[i].sn)
  <2>1. PICK e : e = GapEnd(r, i, stack)
    OBVIOUS
  <2>2. EndOk(r, b, l, i, e)
    BY <2>1, GapEndIs
  <2>3. MissingAtHead(r, i, stack) = Report(-1, b, 0, e.sn, e.so, i)
    BY <1>1, <1>4, <2>1 DEF MissingAtHead, GapBetween
  <2>4. PICK es \in Sns, eo \in Nat \cup {-1} : es = e.sn /\ eo = e.so
    BY <2>2 DEF EndOk, GapEnds
  <2>5. PICK n \in Nat : n = Len(r.rx_list) /\ i \in 0 .. n
    BY <1>1, SeqFacts
  <2>6. eo = -1 \/ 0 <= eo
    BY <2>4
  <2>7. ASSUME Below(r) PROVE Off(b, b) <= Off(b, es) /\ Off(b, es) < WindowSize
    <3>1. Off(b, es) <= Off(b, l[i].sn)
      BY <2>2, <2>4, <2>7 DEF EndOk
    <3>2. Off(b, l[i].sn) \in Nat /\ Off(b, l[i].sn) < WindowSize
      BY PlacesIn
    <3>3. Off(b, es) \in Nat /\ Off(b, b) = 0
      BY <1>1, OffType, OffSelf
    <3> QED BY <3>1, <3>2, <3>3, Constants
  <2>8. GapOk(r, Report(-1, b, 0, es, eo, i))
    BY <1>1, <1>2, <2>5, <2>6, <2>7, ReportOk
  <2> QED BY <2>3, <2>4, <2>8
<1> QED BY <1>3, <1>4

\* The gap after the end of the list.
LEMMA FromOk ==
  ASSUME NEW r, NEW b, NEW h, NEW hs, NEW l, Reads(r, b, h, hs, l), NEW ack \in Sns \cup {-1},
         NEW s \in Sns, NEW so \in Nat
  PROVE  GapOk(r, MissingFrom(r, ack, s, so))
<1>1. b \in Sns /\ hs \in Sns /\ h \in Sns /\ l \in Seq(RxPdus) /\ l = r.rx_list /\ b = r.rx_next
      /\ hs = r.rx_highest_status
  BY DEF Reads
<1>2. CASE ~Reported(r, s)
  <2>1. MissingFrom(r, ack, s, so) = NoReport(ack)
    BY <1>2 DEF MissingFrom
  <2>2. GapOk(r, NoReport(ack))
    BY <1>1, NoReportOk
  <2> QED BY <2>1, <2>2
<1>3. CASE Reported(r, s)
  <2>1. PICK os \in Nat, o \in Nat, oh \in Nat : os = Off(b, hs) /\ o = Off(b, s) /\ oh = Off(b, h)
    <3>1. Off(b, hs) \in Nat /\ Off(b, s) \in Nat /\ Off(b, h) \in Nat
      BY <1>1, OffType
    <3> QED BY <3>1
  <2>2. os > o /\ os <= oh /\ oh <= WindowSize /\ WindowSize \in Nat
    <3>1. os - o > 0
      BY <1>3, <2>1, ReportedIs
    <3>2. os <= oh /\ oh <= WindowSize
      BY <2>1 DEF Reads
    <3> QED BY <3>1, <3>2, Constants
  <2>3. PICK es : es = (hs - 1) % SnModulus
    OBVIOUS
  <2>4. es \in Sns /\ Off(b, es) = os - 1
    BY <1>1, <2>1, <2>2, <2>3, OffLess
  <2>5. Off(b, s) <= Off(b, es) /\ Off(b, es) < WindowSize
    BY <2>1, <2>2, <2>4
  <2>6. MissingFrom(r, ack, s, so) = Report(ack, s, so, es, -1, 0)
    BY <1>1, <1>3, <2>3 DEF MissingFrom
  <2>7. PICK n \in Nat : n = Len(r.rx_list) /\ 0 \in 0 .. n
    BY <1>1, SeqFacts
  <2>8. GapOk(r, Report(ack, s, so, es, -1, 0))
    BY <1>1, <2>4, <2>5, <2>7, ReportOk
  <2> QED BY <2>6, <2>8
<1> QED BY <1>2, <1>3

\* The gap between two PDUs of the list.
LEMMA AfterOk ==
  ASSUME NEW r, NEW b, NEW h, NEW hs, NEW l, Reads(r, b, h, hs, l), NEW ack \in Sns \cup {-1},
         NEW i \in 1 .. Len(l), NEW k \in i .. Len(l), k # Len(l), ~Continuous(r, i, k),
         NEW stack \in Sns
  PROVE  GapOk(r, MissingAfter(r, i, k, l[k], ack, stack))
<1>1. b \in Sns /\ l \in Seq(RxPdus) /\ l = r.rx_list /\ b = r.rx_next
  BY DEF Reads
<1>2. PICK n \in Nat : n = Len(l)
  BY <1>1, SeqFacts
<1>3. k \in 1 .. Len(l) /\ k + 1 \in 1 .. Len(l) /\ k + 1 \in 0 .. n
  BY <1>2
<1>4. CASE ~Reported(r, l[k].sn)
  <2>1. MissingAfter(r, i, k, l[k], ack, stack) = NoReport(ack)
    BY <1>4 DEF MissingAfter
  <2>2. GapOk(r, NoReport(ack))
    BY <1>1, NoReportOk
  <2> QED BY <2>1, <2>2
<1>5. CASE Reported(r, l[k].sn)
  <2>1. /\ l[k] \in RxPdus /\ l[k].sn \in Sns /\ Off(b, l[k].sn) \in Nat /\ Off(b, l[k].sn) < WindowSize
        /\ l[k + 1] \in RxPdus /\ l[k + 1].sn \in Sns /\ Off(b, l[k + 1].sn) \in Nat
        /\ Off(b, l[k + 1].sn) < WindowSize
    BY <1>3, PlacesIn
  <2>2. PICK sn \in Sns, ns \in Sns, nso \in Nat :
          sn = l[k].sn /\ ns = l[k + 1].sn /\ nso = l[k + 1].so
    BY <2>1, RxPduTypes
  <2>3. PICK o \in Nat, on \in Nat, w \in Nat :
          o = Off(b, sn) /\ on = Off(b, ns) /\ w = WindowSize /\ o < w /\ on < w
    BY <2>1, <2>2, Constants
  <2>4. PICK ms \in Nat : ms = MaxSo(r, i, k)
    BY <1>1, MaxSoType
  <2>5. PICK so \in Nat : so = ms + 1
    OBVIOUS
  <2>6. CASE ns = sn
    <3>1. ~(ms >= nso - 1)
      BY <1>1, <2>2, <2>4, <2>6 DEF Continuous
    <3>2. PICK eo \in Nat \cup {-1} : eo = nso - 1 /\ so <= eo
      BY <2>5, <3>1
    <3>3. MissingAfter(r, i, k, l[k], ack, stack) = Report(ack, sn, so, sn, eo, k + 1)
      BY <1>1, <1>5, <2>2, <2>4, <2>5, <2>6, <3>2 DEF MissingAfter, GapBetween
    <3>4. Off(b, sn) <= Off(b, sn) /\ Off(b, sn) < WindowSize
      BY <2>3
    <3>5. GapOk(r, Report(ack, sn, so, sn, eo, k + 1))
      BY <1>1, <1>2, <1>3, <3>2, <3>4, ReportOk
    <3> QED BY <3>3, <3>5
  <2>7. CASE ns # sn
    <3>1. PICK e : e = GapEnd(r, k + 1, stack)
      OBVIOUS
    <3>2. EndOk(r, b, l, k + 1, e)
      BY <1>3, <3>1, GapEndIs
    <3>3. PICK es \in Sns, eo \in Nat \cup {-1} : es = e.sn /\ eo = e.so
      BY <3>2 DEF EndOk, GapEnds
    <3>4. MissingAfter(r, i, k, l[k], ack, stack) = Report(ack, sn, so, es, eo, k + 1)
      BY <1>1, <1>5, <2>2, <2>4, <2>5, <2>7, <3>1, <3>3 DEF MissingAfter, GapBetween
    <3>5. es = sn => eo = -1
      BY <2>2, <2>7, <3>2, <3>3 DEF EndOk
    <3>6. o < on
      <4>1. o <= on
        BY <1>3, <2>2, <2>3 DEF Reads, InOrder
      <4>2. o # on
        BY <1>1, <2>3, <2>7, OffInjective
      <4> QED BY <4>1, <4>2
    <3>7. ns # b
      <4>1. on # 0
        BY <3>6
      <4>2. Off(b, b) = 0
        BY <1>1, OffSelf
      <4> QED BY <2>3, <4>1, <4>2
    <3>8. ASSUME Below(r) PROVE Off(b, sn) <= Off(b, es) /\ Off(b, es) < WindowSize
      <4>1. Off(b, es) <= on /\ on - 1 <= Off(b, es)
        BY <2>2, <2>3, <3>2, <3>3, <3>7, <3>8 DEF EndOk
      <4>2. Off(b, es) \in Nat
        BY <1>1, OffType
      <4> QED BY <2>3, <3>6, <4>1, <4>2
    <3>9. GapOk(r, Report(ack, sn, so, es, eo, k + 1))
      BY <1>1, <1>2, <1>3, <3>5, <3>8, ReportOk
    <3> QED BY <3>4, <3>9
  <2> QED BY <2>6, <2>7
<1> QED BY <1>4, <1>5

\* Every gap that next_missing reports is well formed.
LEMMA NextMissingOk ==
  ASSUME NEW r, RxCore(r), NEW i \in 1 .. Len(r.rx_list), NEW check, NEW stack \in Sns
  PROVE  GapOk(r, next_missing(r, i, check, stack))
<1>1. PICK b, h, hs, l : Reads(r, b, h, hs, l)
  BY RxReads
<1>2. b = r.rx_next /\ l = r.rx_list /\ l \in Seq(RxPdus) /\ i \in 1 .. Len(l)
  BY <1>1 DEF Reads
<1>3. CASE check /\ (l[i].sn # b \/ ~l[i].first)
  <2>1. next_missing(r, i, check, stack) = MissingAtHead(r, i, stack)
    BY <1>2, <1>3 DEF next_missing
  <2>2. GapOk(r, MissingAtHead(r, i, stack))
    BY <1>1, <1>2, <1>3, HeadOk
  <2> QED BY <2>1, <2>2
<1>4. CASE ~(check /\ (l[i].sn # b \/ ~l[i].first))
  <2>1. PICK k : k = StopsAt(r, i)
    OBVIOUS
  <2>2. k \in i .. Len(l) /\ (k = Len(l) \/ ~Continuous(r, i, k))
    BY <1>2, <2>1, StopsAtIs
  <2>3. k \in 1 .. Len(l)
    BY <1>2, <2>2, SeqFacts
  <2>4. PICK ack \in Sns \cup {-1} : ack = AckOf(r, {j \in i .. k : l[j].done})
    <3>1. {j \in i .. k : l[j].done} \subseteq 1 .. Len(l)
      <4>1. Len(l) \in Nat
        BY <1>2, SeqFacts
      <4> QED BY <2>2, <4>1
    <3>2. AckOf(r, {j \in i .. k : l[j].done}) \in Sns \cup {-1}
      BY <1>2, <3>1, AckType
    <3> QED BY <3>2
  <2>5. next_missing(r, i, check, stack) = MissingAt(r, i, k, ack, stack)
    BY <1>2, <1>4, <2>1, <2>4 DEF next_missing, MissingPast
  <2>6. CASE k # Len(l)
    <3>1. MissingAt(r, i, k, ack, stack) = MissingAfter(r, i, k, l[k], ack, stack)
      BY <1>2, <2>6 DEF MissingAt
    <3>2. GapOk(r, MissingAfter(r, i, k, l[k], ack, stack))
      BY <1>1, <1>2, <2>2, <2>6, AfterOk
    <3> QED BY <2>5, <3>1, <3>2
  <2>7. CASE k = Len(l)
    <3>1. MissingAt(r, i, k, ack, stack) = MissingAtEnd(r, i, l[k], ack)
      BY <1>2, <2>7 DEF MissingAt
    <3>2. PICK sn \in Sns : sn = l[k].sn
      BY <1>1, <2>3, PlacesIn
    <3>3. PICK ms \in Nat : ms = MaxSo(r, i, Len(r.rx_list))
      BY <1>2, <2>2, <2>7, MaxSoType
    <3>4. (sn + 1) % SnModulus \in Sns
      <4>1. 1 \in Nat /\ 1 <= SnModulus
        BY Constants
      <4>2. Plus(sn, 1) \in Sns
        BY <4>1, PlusIs
      <4> QED BY <4>2 DEF Plus
    <3>5. \/ MissingAtEnd(r, i, l[k], ack) = MissingFrom(r, ack, (sn + 1) % SnModulus, 0)
          \/ MissingAtEnd(r, i, l[k], ack) = MissingFrom(r, ack, sn, ms + 1)
      BY <3>2, <3>3 DEF MissingAtEnd
    <3>6. 0 \in Nat /\ ms + 1 \in Nat
      OBVIOUS
    <3>7. GapOk(r, MissingFrom(r, ack, (sn + 1) % SnModulus, 0)) /\ GapOk(r, MissingFrom(r, ack, sn, ms + 1))
      BY <1>1, <3>4, <3>6, FromOk
    <3> QED BY <2>5, <3>1, <3>5, <3>7
  <2> QED BY <2>6, <2>7
<1> QED BY <1>3, <1>4

-----------------------------------------------------------------------------
(* The NACKs of a gap.                                                      *)

\* The number of NACKs over a gap: all but the last cover MaxRange.
LEMMA PiecesIs ==
  ASSUME NEW count \in Nat, count >= 1, NEW R \in Nat, R >= 1
  PROVE  \E q \in Nat : /\ q = (count + R - 1) \div R /\ q >= 1
                        /\ (q - 1) * R \in Nat /\ (q - 1) * R + 1 <= count
<1>1. PICK a \in Nat : a = count + R - 1 /\ a >= R
  OBVIOUS
<1>2. PICK q \in Int : q = a \div R
  BY <1>1
<1>3. q * R <= a /\ a < q * R + R
  BY <1>1, <1>2
<1>4. q >= 1
  <2>1. ASSUME q <= 0 PROVE FALSE
    <3>1. q * R <= 0
      BY <2>1
    <3> QED BY <1>1, <1>3, <3>1
  <2> QED BY <2>1
<1>5. PICK t \in Int : t = q * R
  OBVIOUS
<1>6. (q - 1) * R = t - R
  BY <1>5
<1>7. (q - 1) * R >= 0
  BY <1>4
<1>8. (q - 1) * R \in Nat /\ (q - 1) * R + 1 <= count
  BY <1>1, <1>3, <1>5, <1>6, <1>7
<1> QED BY <1>1, <1>2, <1>4, <1>8

\* generate_missing counts at least one sequence number.
LEMMA CountIs ==
  ASSUME NEW r, NEW m, GapOk(r, m), m.sn_start # -1
  PROVE  /\ GeneratedCount(m) \in Nat /\ GeneratedCount(m) >= 1
         /\ GeneratedCount(m) = 1 => m.sn_end = m.sn_start
<1>1. m.sn_start \in Sns /\ m.sn_end \in Sns
  BY DEF GapOk, Reports
<1>2. GeneratedCount(m) = Off(m.sn_start, m.sn_end) + 1
  BY DEF GeneratedCount, Off
<1>3. Off(m.sn_start, m.sn_end) \in Nat
  BY <1>1, OffType
<1>4. Off(m.sn_start, m.sn_end) = 0 => m.sn_end = m.sn_start
  BY <1>1, OffSelf
<1> QED BY <1>2, <1>3, <1>4

\* generate_missing and missing_size count the same, unless an end was not assigned.
LEMMA CountsAgree ==
  ASSUME NEW r, r.rx_next \in Sns, NEW m, GapOk(r, m), m.sn_start # -1, Below(r)
  PROVE  MissingCount(m) = GeneratedCount(m)
<1>1. PICK s \in Sns, e \in Sns, b \in Sns : s = m.sn_start /\ e = m.sn_end /\ b = r.rx_next
  <2>1. m.sn_start \in Sns /\ m.sn_end \in Sns
    BY DEF GapOk, Reports
  <2> QED BY <2>1
<1>2. Off(b, s) <= Off(b, e) /\ Off(b, e) < WindowSize
  BY <1>1 DEF GapOk
<1>3. Off(b, s) = (IF s >= b THEN s - b ELSE s - b + SnModulus)
  BY OffIs
<1>4. Off(b, e) = (IF e >= b THEN e - b ELSE e - b + SnModulus)
  BY OffIs
<1>5. Off(s, e) = (IF e >= s THEN e - s ELSE e - s + SnModulus)
  BY OffIs
<1>6. PICK M \in Nat, W \in Nat :
        /\ M = SnModulus /\ W = WindowSize /\ M >= 2 /\ W + 1 <= M
        /\ s \in 0 .. M - 1 /\ e \in 0 .. M - 1 /\ b \in 0 .. M - 1
  BY Constants
<1>7. PICK c \in Int : c = e - s + 1
  BY <1>6
<1>8. MissingCount(m) = IF c < 0 THEN c + M ELSE c
  BY <1>1, <1>6, <1>7 DEF MissingCount
<1>9. GeneratedCount(m) = Off(s, e) + 1
  BY <1>1 DEF GeneratedCount, Off
<1>10. e - s + 1 # 0
  BY <1>2, <1>3, <1>4, <1>6
<1>11. CASE e >= s
  BY <1>5, <1>6, <1>7, <1>8, <1>9, <1>11
<1>12. CASE ~(e >= s)
  <2>1. c < 0
    BY <1>6, <1>7, <1>10, <1>12
  <2>2. Off(s, e) = e - s + M
    BY <1>5, <1>6, <1>12
  <2> QED BY <1>6, <1>7, <1>8, <1>9, <2>1, <2>2
<1> QED BY <1>11, <1>12

\* The NACKs of a gap are well formed, however it is split.
LEMMA NacksType ==
  ASSUME NEW r, NEW m, GapOk(r, m), m.sn_start # -1
  PROVE  Nacks(m, GeneratedCount(m)) \in Seq(NackRecs)
<1>1. PICK count \in Nat : count = GeneratedCount(m) /\ count >= 1 /\ (count = 1 => m.sn_end = m.sn_start)
  BY CountIs
<1>2. PICK R \in Nat : R = MaxRange /\ R >= 1
  BY RlcRxAssumption
<1>3. PICK q \in Nat : /\ q = (count + R - 1) \div R /\ q >= 1
                       /\ (q - 1) * R \in Nat /\ (q - 1) * R + 1 <= count
  BY <1>1, <1>2, PiecesIs
<1>4. m.sn_start \in Sns /\ m.so_start \in Nat /\ m.so_end \in Nat \cup {-1}
  BY DEF GapOk, Reports
<1>5. m.sn_end = m.sn_start => m.so_end = -1 \/ m.so_start <= m.so_end
  BY DEF GapOk
<1>6. PICK n : n = [p \in 1 .. q |->
           [sn |-> (m.sn_start + (p - 1) * R) % SnModulus,
            range |-> IF p = q THEN count - (p - 1) * R ELSE R,
            so_start |-> IF p = 1 THEN m.so_start ELSE 0,
            so_end |-> IF p = q THEN m.so_end ELSE -1]]
  OBVIOUS
<1>7. Nacks(m, count) = n
  BY <1>2, <1>3, <1>6 DEF Nacks
<1>8. ASSUME NEW p \in 1 .. q PROVE n[p] \in NackRecs
  <2>1. PICK x : x = n[p]
    OBVIOUS
  <2>2. /\ x = [sn |-> (m.sn_start + (p - 1) * R) % SnModulus,
                range |-> IF p = q THEN count - (p - 1) * R ELSE R,
                so_start |-> IF p = 1 THEN m.so_start ELSE 0,
                so_end |-> IF p = q THEN m.so_end ELSE -1]
    BY <1>6, <1>8, <2>1
  <2>3. (m.sn_start + (p - 1) * R) % SnModulus \in Sns
    <3>1. m.sn_start + (p - 1) * R \in Int
      <4>1. m.sn_start \in Int
        BY <1>4, Constants
      <4> QED BY <4>1, <1>8
    <3>2. PICK y \in Int : y = m.sn_start + (p - 1) * R
      BY <3>1
    <3>3. y % SnModulus \in Sns
      BY Constants
    <3> QED BY <3>2, <3>3
  <2>4. PICK g \in Nat : g = (IF p = q THEN count - (p - 1) * R ELSE R) /\ g >= 1
    <3>1. CASE p = q
      <4>1. PICK t \in Nat : t = (q - 1) * R /\ t + 1 <= count
        BY <1>3
      <4>2. count - t \in Nat /\ count - t >= 1
        BY <4>1
      <4> QED BY <3>1, <4>1, <4>2
    <3>2. CASE p # q
      BY <1>2, <3>2
    <3> QED BY <3>1, <3>2
  <2>5. PICK a \in Nat : a = IF p = 1 THEN m.so_start ELSE 0
    BY <1>4
  <2>6. PICK e \in Nat \cup {-1} : e = IF p = q THEN m.so_end ELSE -1
    BY <1>4
  <2>7. ASSUME g = 1, e # -1 PROVE a <= e
    <3>1. p = q /\ e = m.so_end
      BY <2>6, <2>7
    <3>2. CASE p = 1
      <4>1. g = count - (1 - 1) * R
        BY <2>4, <3>1, <3>2
      <4>2. count = 1
        BY <2>7, <4>1
      <4> QED BY <1>1, <1>5, <2>5, <2>7, <3>1, <3>2, <4>2
    <3>3. CASE p # 1
      <4>1. a = 0 /\ e \in Nat
        BY <2>5, <2>6, <2>7, <3>3
      <4> QED BY <4>1
    <3> QED BY <3>2, <3>3
  <2>8. PICK z \in Sns : z = (m.sn_start + (p - 1) * R) % SnModulus
    BY <2>3
  <2>9. x = [sn |-> z, range |-> g, so_start |-> a, so_end |-> e]
    BY <2>2, <2>4, <2>5, <2>6, <2>8
  <2> QED BY <2>1, <2>4, <2>7, <2>9 DEF NackRecs
<1>9. n \in [1 .. q -> NackRecs]
  BY <1>6, <1>8
<1>10. n \in Seq(NackRecs)
  BY <1>9
<1> QED BY <1>1, <1>7, <1>10

-----------------------------------------------------------------------------
(* The loop of generate_status and of status_size.                          *)

NackStepBytes(q, f) ==
  [n \in 0 .. Len(q) |-> IF n = 0 THEN 0 ELSE f[n - 1] + nack_size(q[n])]

\* No NACK takes no byte.
LEMMA NoNackBytes == NackBytes(<<>>) = 0
<1>1. Len(<<>>) = 0
  OBVIOUS
<1>2. PICK f : f = [n \in 0 .. 0 |-> 0]
  OBVIOUS
<1>3. f = NackStepBytes(<<>>, f)
  <2>1. NackStepBytes(<<>>, f) = [n \in 0 .. 0 |-> IF n = 0 THEN 0 ELSE f[n - 1] + nack_size(<<>>[n])]
    BY <1>1 DEF NackStepBytes
  <2>2. \A n \in 0 .. 0 : n = 0
    OBVIOUS
  <2> QED BY <1>2, <2>1, <2>2
<1>4. PICK g : g = CHOOSE h : h = NackStepBytes(<<>>, h)
  OBVIOUS
<1>5. g = NackStepBytes(<<>>, g)
  BY <1>3, <1>4
<1>6. NackBytes(<<>>) = g[Len(<<>>)]
  BY <1>4, Zenon DEF NackBytes, NackStepBytes
<1>7. NackStepBytes(<<>>, g)[0] = 0
  BY <1>1 DEF NackStepBytes
<1> QED BY <1>1, <1>5, <1>6, <1>7

\* What the loop may hold after any number of rounds on a list of n PDUs.
LoopStates(n, size) ==
  {s \in [ack_sn : Sns, nacks : Seq(NackRecs), i : 0 .. n] : 3 + NackBytes(s.nacks) <= size}

\* The NACKs that fit in the grant fit.
LEMMA FittingIs ==
  ASSUME NEW size, NEW q \in Seq(NackRecs), 3 + NackBytes(q) <= size, NEW new \in Seq(NackRecs),
         NEW fit, fit = Fitting(q, new, size)
  PROVE  /\ fit \in 0 .. Len(new)
         /\ q \o SubSeq(new, 1, fit) \in Seq(NackRecs)
         /\ 3 + NackBytes(q \o SubSeq(new, 1, fit)) <= size
<1>1. PICK n \in Nat : n = Len(new)
  BY SeqFacts
<1>2. PICK K : K = {k \in 0 .. n : 3 + NackBytes(q \o SubSeq(new, 1, k)) <= size}
  OBVIOUS
<1>3. PICK z : z = q \o SubSeq(new, 1, 0) /\ z = q
  <2>1. SubSeq(new, 1, 0) = <<>>
    OBVIOUS
  <2>2. q \o <<>> = q
    BY ConcatEmptySeq
  <2> QED BY <2>1, <2>2
<1>4. 0 \in K
  <2>1. 3 + NackBytes(q \o SubSeq(new, 1, 0)) <= size
    BY <1>3, Zenon
  <2> QED BY <1>1, <1>2, <2>1
<1>5. K \subseteq 0 .. n /\ K # {}
  BY <1>2, <1>4
<1>6. Max(K) \in K
  BY <1>5, MaxIs
<1>7. fit = Max(K)
  BY <1>1, <1>2 DEF Fitting
<1>8. fit \in K
  BY <1>6, <1>7
<1>9. fit \in 0 .. n /\ 3 + NackBytes(q \o SubSeq(new, 1, fit)) <= size
  BY <1>2, <1>8
<1>10. SubSeq(new, 1, fit) \in Seq(NackRecs)
  BY <1>1, <1>9, SubSeqProperties
<1>11. q \o SubSeq(new, 1, fit) \in Seq(NackRecs)
  BY <1>10, ConcatProperties
<1> QED BY <1>1, <1>9, <1>11

\* The loop never outgrows the grant.
LEMMA AddFittingKeeps ==
  ASSUME NEW n \in Nat, NEW size, NEW s \in LoopStates(n, size), NEW new \in Seq(NackRecs),
         NEW next \in 0 .. n
  PROVE  AddFitting(s, new, size, next) \in LoopStates(n, size)
<1>1. PICK q \in Seq(NackRecs) : q = s.nacks /\ 3 + NackBytes(q) <= size
  BY DEF LoopStates
<1>2. PICK fit : fit = Fitting(q, new, size)
  OBVIOUS
<1>3. PICK z \in Seq(NackRecs) : z = q \o SubSeq(new, 1, fit) /\ 3 + NackBytes(z) <= size
  BY <1>1, <1>2, FittingIs
<1>4. PICK j \in 0 .. n : j = IF fit = Len(new) THEN next ELSE 0
  OBVIOUS
<1>5. AddFitting(s, new, size, next) = [s EXCEPT !.nacks = z, !.i = j]
  BY <1>1, <1>2, <1>3, <1>4 DEF AddFitting, AddNacks
<1>6. [s EXCEPT !.nacks = z, !.i = j] \in [ack_sn : Sns, nacks : Seq(NackRecs), i : 0 .. n]
  BY DEF LoopStates
<1>7. [s EXCEPT !.nacks = z, !.i = j].nacks = z
  BY DEF LoopStates
<1> QED BY <1>3, <1>5, <1>6, <1>7 DEF LoopStates

\* One round of the loop, in generate_status and in status_size.
LEMMA StatusStepKeeps ==
  ASSUME NEW r, RxCore(r), NEW n \in Nat, n = Len(r.rx_list), NEW size, NEW stack \in Sns,
         NEW s \in LoopStates(n, size)
  PROVE  /\ StatusStep(r, size, stack, s, TRUE) \in LoopStates(n, size)
         /\ Below(r) => StatusStep(r, size, stack, s, FALSE) = StatusStep(r, size, stack, s, TRUE)
<1>1. CASE s.i = 0
  BY <1>1 DEF StatusStep
<1>2. CASE s.i # 0
  <2>1. PICK i \in 1 .. n : i = s.i
    <3>1. s.i \in 0 .. n
      BY DEF LoopStates
    <3> QED BY <1>2, <3>1
  <2>2. PICK m : m = next_missing(r, i, s.nacks = <<>>, stack)
    OBVIOUS
  <2>3. GapOk(r, m)
    BY <2>1, <2>2, NextMissingOk
  <2>4. \A w \in BOOLEAN : StatusStep(r, size, stack, s, w) = StatusAdd(s, m, size, w)
    BY <1>2, <2>1, <2>2 DEF StatusStep
  <2>5. m.ack_sn \in Sns \cup {-1} /\ m.next \in 0 .. n
    BY <2>3 DEF GapOk, Reports
  <2>6. r.rx_next \in Sns
    BY RxFields DEF RxCore
  <2>7. PICK a \in Sns : a = IF m.ack_sn # -1 THEN m.ack_sn ELSE s.ack_sn
    <3>1. s.ack_sn \in Sns
      BY DEF LoopStates
    <3> QED BY <2>5, <3>1
  <2>8. \A v \in LoopStates(n, size) :
          [v EXCEPT !.ack_sn = a] \in LoopStates(n, size)
    <3> SUFFICES ASSUME NEW v \in LoopStates(n, size)
                 PROVE  [v EXCEPT !.ack_sn = a] \in LoopStates(n, size)
      OBVIOUS
    <3>1. [v EXCEPT !.ack_sn = a] \in [ack_sn : Sns, nacks : Seq(NackRecs), i : 0 .. n]
      BY DEF LoopStates
    <3>2. [v EXCEPT !.ack_sn = a].nacks = v.nacks
      BY DEF LoopStates
    <3> QED BY <3>1, <3>2 DEF LoopStates
  <2>9. CASE m.sn_start = -1
    <3>1. PICK v : v = [s EXCEPT !.i = 0]
      OBVIOUS
    <3>2. v \in LoopStates(n, size) /\ v.ack_sn = s.ack_sn
      <4>1. v \in [ack_sn : Sns, nacks : Seq(NackRecs), i : 0 .. n]
        BY <3>1 DEF LoopStates
      <4>2. v.nacks = s.nacks /\ v.ack_sn = s.ack_sn
        BY <3>1 DEF LoopStates
      <4> QED BY <4>1, <4>2 DEF LoopStates
    <3>3. \A w \in BOOLEAN : StatusAdd(s, m, size, w) = [v EXCEPT !.ack_sn = a]
      BY <2>7, <2>9, <3>1, <3>2 DEF StatusAdd
    <3> QED BY <2>4, <2>8, <3>2, <3>3
  <2>10. CASE m.sn_start # -1
    <3>1. PICK new \in Seq(NackRecs) : new = Nacks(m, GeneratedCount(m))
      BY <2>3, <2>10, NacksType
    <3>2. PICK v : v = AddFitting(s, new, size, m.next)
      OBVIOUS
    <3>3. v \in LoopStates(n, size)
      BY <2>5, <3>2, AddFittingKeeps
    <3>4. v.ack_sn = s.ack_sn
      BY <3>2 DEF AddFitting, AddNacks, LoopStates
    <3>5. StatusAdd(s, m, size, TRUE) = [v EXCEPT !.ack_sn = a]
      BY <2>7, <2>10, <3>1, <3>2, <3>4 DEF StatusAdd
    <3>6. ASSUME Below(r) PROVE StatusAdd(s, m, size, FALSE) = [v EXCEPT !.ack_sn = a]
      <4>1. MissingCount(m) = GeneratedCount(m)
        BY <2>3, <2>6, <2>10, <3>6, CountsAgree
      <4> QED BY <2>7, <2>10, <3>1, <3>2, <3>4, <4>1 DEF StatusAdd
    <3> QED BY <2>4, <2>8, <3>3, <3>5, <3>6
  <2> QED BY <2>9, <2>10
<1> QED BY <1>1, <1>2

LoopStep(r, size, stack, w, f) ==
  [n \in 0 .. Len(r.rx_list) + 1 |->
     IF n = 0 THEN StatusStart(r) ELSE StatusStep(r, size, stack, f[n - 1], w)]

\* The states of the loop, round by round.
Rounds(r, size, stack, w, n, f) ==
  /\ f[0] = StatusStart(r)
  /\ \A i \in 1 .. n + 1 : f[i] = StatusStep(r, size, stack, f[i - 1], w)

\* The rounds are determined by the first.
LEMMA RoundsUnique ==
  ASSUME NEW r, NEW size, NEW stack, NEW w, NEW n \in Nat, NEW f, NEW g,
         Rounds(r, size, stack, w, n, f), Rounds(r, size, stack, w, n, g)
  PROVE  g[n + 1] = f[n + 1]
<1>1. PICK k \in Nat : k = n + 1
  OBVIOUS
<1>2. g[0] = f[0]
  BY DEF Rounds
<1>3. \A i \in 1 .. k : g[i - 1] = f[i - 1] => g[i] = f[i]
  BY <1>1 DEF Rounds
<1>4. \A i \in 0 .. k : g[i] = f[i]
  BY <1>2, <1>3, RecursionUnique
<1> QED BY <1>1, <1>4

\* The loop computes what the rounds say.
LEMMA LoopIs ==
  ASSUME NEW r, NEW n \in Nat, n = Len(r.rx_list), NEW size, NEW stack, NEW w, NEW X,
         NEW f \in [0 .. n + 1 -> X], Rounds(r, size, stack, w, n, f)
  PROVE  StatusLoop(r, size, stack, w) = f[n + 1]
<1>1. f = LoopStep(r, size, stack, w, f)
  <2>1. \A i \in 0 .. n + 1 :
          f[i] = IF i = 0 THEN StatusStart(r) ELSE StatusStep(r, size, stack, f[i - 1], w)
    BY DEF Rounds
  <2>2. f = [i \in 0 .. n + 1 |-> f[i]]
    OBVIOUS
  <2> QED BY <2>1, <2>2 DEF LoopStep
<1>2. PICK g : g = CHOOSE h : h = LoopStep(r, size, stack, w, h)
  OBVIOUS
<1>3. g = LoopStep(r, size, stack, w, g)
  BY <1>1, <1>2
<1>4. StatusLoop(r, size, stack, w) = g[n + 1]
  BY <1>2, Zenon DEF StatusLoop, LoopStep
<1>5. \A i \in 0 .. n + 1 :
        g[i] = IF i = 0 THEN StatusStart(r) ELSE StatusStep(r, size, stack, g[i - 1], w)
  <2> SUFFICES ASSUME NEW i \in 0 .. n + 1
               PROVE  g[i] = IF i = 0 THEN StatusStart(r) ELSE StatusStep(r, size, stack, g[i - 1], w)
    OBVIOUS
  <2>1. LoopStep(r, size, stack, w, g)[i] =
          IF i = 0 THEN StatusStart(r) ELSE StatusStep(r, size, stack, g[i - 1], w)
    BY DEF LoopStep
  <2> QED BY <1>3, <2>1
<1>6. Rounds(r, size, stack, w, n, g)
  BY <1>5 DEF Rounds
<1>7. g[n + 1] = f[n + 1]
  BY <1>6, RoundsUnique
<1> QED BY <1>4, <1>7

\* generate_status and status_size find the same NACKs, all of them well formed.
LEMMA StatusLoopIs ==
  ASSUME NEW r, RxCore(r), NEW size \in Nat, size >= 3, NEW stack \in Sns
  PROVE  /\ StatusLoop(r, size, stack, TRUE).ack_sn \in Sns
         /\ StatusLoop(r, size, stack, TRUE).nacks \in Seq(NackRecs)
         /\ Below(r) => StatusLoop(r, size, stack, FALSE) = StatusLoop(r, size, stack, TRUE)
<1>1. PICK l \in Seq(RxPdus) : l = r.rx_list
  BY RxFields DEF RxCore
<1>2. PICK n \in Nat : n = Len(r.rx_list)
  BY <1>1, SeqFacts
<1>3. PICK X : X = LoopStates(n, size)
  OBVIOUS
<1>4. StatusStart(r) \in X
  <2>1. PICK j \in 0 .. n : j = IF r.rx_list = <<>> THEN 0 ELSE 1
    BY <1>1, <1>2, SeqFacts
  <2>2. PICK a \in Sns : a = r.rx_next
    BY RxFields DEF RxCore
  <2>3. <<>> \in Seq(NackRecs)
    OBVIOUS
  <2>4. PICK q \in Seq(NackRecs) : q = <<>>
    BY <2>3
  <2>5. StatusStart(r) = [ack_sn |-> a, nacks |-> q, i |-> j]
    BY <2>1, <2>2, <2>4 DEF StatusStart
  <2>6. 3 + NackBytes(q) <= size
    BY <2>4, NoNackBytes
  <2> QED BY <1>3, <2>5, <2>6 DEF LoopStates
<1>5. PICK k \in Nat : k = n + 1
  OBVIOUS
<1>6. PICK F : F = [i \in 1 .. k |-> [s \in X |-> StatusStep(r, size, stack, s, TRUE)]]
  OBVIOUS
<1>7. \A s \in X : /\ StatusStep(r, size, stack, s, TRUE) \in X
                   /\ Below(r) => StatusStep(r, size, stack, s, FALSE) = StatusStep(r, size, stack, s, TRUE)
  BY <1>2, <1>3, StatusStepKeeps
<1>8. F \in [1 .. k -> [X -> X]]
  BY <1>6, <1>7
<1>9. PICK f \in [0 .. k -> X] : Iterates(F, StatusStart(r), k, f)
  BY <1>4, <1>8, RecursionExists
<1>10. f[0] = StatusStart(r) /\ \A i \in 1 .. k : f[i] = StatusStep(r, size, stack, f[i - 1], TRUE)
  <2>1. f[0] = StatusStart(r) /\ \A i \in 1 .. k : f[i] = F[i][f[i - 1]]
    BY <1>9 DEF Iterates
  <2>2. ASSUME NEW i \in 1 .. k PROVE f[i] = StatusStep(r, size, stack, f[i - 1], TRUE)
    <3>1. f[i - 1] \in X
      BY <1>5, <1>9
    <3> QED BY <1>6, <2>1, <3>1
  <2> QED BY <2>1, <2>2
<1>11. f \in [0 .. n + 1 -> X]
  BY <1>5, <1>9
<1>12. Rounds(r, size, stack, TRUE, n, f)
  BY <1>5, <1>10 DEF Rounds
<1>13. StatusLoop(r, size, stack, TRUE) = f[n + 1]
  BY <1>2, <1>11, <1>12, LoopIs
<1>14. f[n + 1] \in X
  BY <1>11
<1>15. ASSUME Below(r) PROVE StatusLoop(r, size, stack, FALSE) = f[n + 1]
  <2>1. \A i \in 1 .. n + 1 : f[i - 1] \in X
    BY <1>11
  <2>2. Rounds(r, size, stack, FALSE, n, f)
    BY <1>5, <1>7, <1>10, <1>15, <2>1 DEF Rounds
  <2> QED BY <1>2, <1>11, <2>2, LoopIs
<1>16. f[n + 1].ack_sn \in Sns /\ f[n + 1].nacks \in Seq(NackRecs)
  BY <1>3, <1>14 DEF LoopStates
<1> QED BY <1>13, <1>15, <1>16

-----------------------------------------------------------------------------
(* What the receiver sends, and the bounds of both halves.                  *)

StatusPdus == [ack_sn : Sns, nacks : Seq(NackRecs)]

\* A status PDU that generate_status writes is well formed.
LEMMA StatusPduType ==
  ASSUME NEW r, RxCore(r), NEW size \in Nat, size >= 3, NEW stack \in Sns
  PROVE  generate_status(r, size, stack) \in StatusPdus
BY StatusLoopIs DEF generate_status, StatusPdu, StatusPdus

\* The consistency check accepts what is in flight.
LEMMA StatusesParsed ==
  ASSUME status \in Seq(StatusPdus)
  PROVE  StatusesParse
<1> SUFFICES ASSUME NEW j \in DOMAIN status, NEW k \in DOMAIN status[j].nacks,
                    NEW n, n = status[j].nacks[k]
             PROVE  n.range >= 1 /\ (n.range = 1 => n.so_end = -1 \/ n.so_start <= n.so_end)
  BY DEF StatusesParse
<1>1. j \in 1 .. Len(status)
  BY SeqFacts
<1>2. status[j] \in StatusPdus
  BY <1>1, SeqFacts
<1>3. PICK q \in Seq(NackRecs) : q = status[j].nacks
  BY <1>2 DEF StatusPdus
<1>4. DOMAIN q = 1 .. Len(q) /\ \A i \in 1 .. Len(q) : q[i] \in NackRecs
  BY SeqFacts
<1>5. n \in NackRecs
  BY <1>3, <1>4
<1> QED BY <1>5 DEF NackRecs

\* The size announced is the size written.
LEMMA StatusSizesAgree ==
  ASSUME RxCore(rx)
  PROVE  StatusSizeAgrees
<1> SUFFICES ASSUME \A k \in DOMAIN rx.rx_list :
                      sn_compare_rx(rx, rx.rx_highest_status, rx.rx_list[k].sn) > 0,
                    NEW size \in StatusSizes, size >= 3
             PROVE  status_size(rx, size, 0) = 3 + NackBytes(generate_status(rx, size, 0).nacks)
  BY DEF StatusSizeAgrees
<1>1. PICK l \in Seq(RxPdus) : l = rx.rx_list
  BY RxFields DEF RxCore
<1>2. rx.rx_next \in Sns /\ rx.rx_highest_status \in Sns
  BY RxFields DEF RxCore
<1>3. Below(rx)
  <2> SUFFICES ASSUME NEW k \in 1 .. Len(rx.rx_list)
               PROVE  Off(rx.rx_next, rx.rx_list[k].sn) < Off(rx.rx_next, rx.rx_highest_status)
    BY DEF Below
  <2>1. k \in DOMAIN rx.rx_list /\ l[k] \in RxPdus
    BY <1>1, SeqFacts
  <2>2. sn_compare_rx(rx, rx.rx_highest_status, rx.rx_list[k].sn) > 0
    BY <2>1
  <2>3. Off(rx.rx_next, rx.rx_highest_status) - Off(rx.rx_next, rx.rx_list[k].sn) > 0
    BY <2>2 DEF sn_compare_rx, modulus_rx, Off
  <2>4. rx.rx_list[k].sn \in Sns
    BY <1>1, <2>1, RxPduTypes
  <2>5. Off(rx.rx_next, rx.rx_highest_status) \in Nat /\ Off(rx.rx_next, rx.rx_list[k].sn) \in Nat
    BY <1>2, <2>4, OffType
  <2>6. PICK x \in Nat, y \in Nat :
          x = Off(rx.rx_next, rx.rx_highest_status) /\ y = Off(rx.rx_next, rx.rx_list[k].sn)
    BY <2>5
  <2> QED BY <2>3, <2>6
<1>4. size \in Nat /\ 0 \in Sns
  BY RlcAmAssumption, Constants
<1>5. StatusLoop(rx, size, 0, FALSE) = StatusLoop(rx, size, 0, TRUE)
  BY <1>3, <1>4, StatusLoopIs
<1> QED BY <1>5 DEF status_size, generate_status, StatusPdu

\* The invariant implies the type invariant of the receiver.
LEMMA RxTyped ==
  ASSUME NEW r, RxInv(r)
  PROVE  RxTypeOK(r)
<1>1. RxCore(r) /\ r \in RxStates
  BY DEF RxInv, RxCore
<1>2. {r.rx_next, r.rx_next_status_trigger, r.rx_highest_status, r.rx_next_highest} \subseteq Sns
  BY <1>1, RxFields
<1>3. {r.status_triggered, r.reassembling, r.prohibited} \subseteq BOOLEAN
  BY <1>1 DEF RxStates
<1>4. PICK l \in Seq(RxPdus) : l = r.rx_list
  BY <1>1, RxFields
<1>5. Sum(l, OpenW) \in Nat
  BY OpenWType, SumBounds
<1>6. r.rx_size \in Nat /\ r.rx_size <= RxMaxSize /\ RxMaxSize \in Nat
  BY <1>1, <1>4, <1>5, RlcRxAssumption DEF RxCore
<1>7. r.rx_size \in 0 .. RxMaxSize
  BY <1>6
<1> QED BY <1>2, <1>3, <1>7 DEF RxTypeOK

\* The invariant implies that the window variables are in order.
LEMMA WindowsHold ==
  ASSUME TxInv(tx, held), RxInv(rx)
  PROVE  WindowsInOrder
<1>1. RxCore(rx) /\ rx \in RxStates /\ NotDone(rx.rx_list, rx.rx_highest_status)
  BY DEF RxInv, RxCore
<1>2. modulus_rx(rx, rx.rx_highest_status) <= modulus_rx(rx, rx.rx_next_highest)
  BY <1>1 DEF RxCore, modulus_rx, Off
<1>3. modulus_rx(rx, rx.rx_next_highest) <= WindowSize
  BY <1>1 DEF RxCore, modulus_rx, Off
<1>4. PICK l \in Seq(RxPdus) : l = rx.rx_list
  BY <1>1, RxFields
<1>5. GroupsDone(l) /\ NotDone(l, rx.rx_highest_status)
  BY <1>1, <1>4 DEF RxCore
<1>6. sdu_delivered(rx, rx.rx_highest_status)
        <=> \E k \in 1 .. Len(l) : l[k].sn = rx.rx_highest_status /\ l[k].done
  BY <1>4, <1>5, DeliveredIs
<1>7. ~sdu_delivered(rx, rx.rx_highest_status)
  BY <1>5, <1>6 DEF NotDone
<1>8. modulus_tx(tx, tx.tx_next) <= WindowSize
  BY DEF TxInv, TxWindow, modulus_tx, Off
<1> QED BY <1>2, <1>3, <1>7, <1>8 DEF WindowsInOrder

\* A PDU taken out of a channel.
LEMMA RemoveType ==
  ASSUME NEW X, NEW s \in Seq(X), NEW k \in 1 .. Len(s)
  PROVE  RemoveAt(s, k) \in Seq(X) /\ Len(RemoveAt(s, k)) <= Len(s)
<1>1. PICK n \in Nat : n = Len(s)
  BY SeqFacts
<1>2. PICK a \in Seq(X) : a = SubSeq(s, 1, k - 1) /\ Len(a) = k - 1
  <2>1. \A i \in 1 .. k - 1 : s[i] \in X
    BY <1>1, SeqFacts
  <2>2. SubSeq(s, 1, k - 1) \in Seq(X)
    BY <1>1, <2>1
  <2>3. Len(SubSeq(s, 1, k - 1)) = k - 1
    BY <1>1
  <2> QED BY <2>2, <2>3
<1>3. PICK b \in Seq(X) : b = SubSeq(s, k + 1, n) /\ Len(b) = n - k
  <2>1. \A i \in k + 1 .. n : s[i] \in X
    BY <1>1, SeqFacts
  <2>2. SubSeq(s, k + 1, n) \in Seq(X)
    BY <1>1, <2>1
  <2>3. Len(SubSeq(s, k + 1, n)) = n - k
    BY <1>1
  <2> QED BY <2>2, <2>3
<1>4. RemoveAt(s, k) = a \o b
  BY <1>1, <1>2, <1>3 DEF RemoveAt
<1>5. a \o b \in Seq(X) /\ Len(a \o b) = Len(a) + Len(b)
  BY ConcatProperties
<1>6. Len(a \o b) = (k - 1) + (n - k)
  BY <1>2, <1>3, <1>5
<1> QED BY <1>1, <1>4, <1>5, <1>6

\* tx_size counts the SDUs that are held, and the ones that were discarded.
Sized(t, H, discards) ==
  /\ IsFiniteSet(H) /\ t.tx_size \in Nat /\ SduSize * Cardinality(H) <= t.tx_size
  /\ discards = 0 => t.tx_size = SduSize * Cardinality(H)

\* An SDU that is accepted.
LEMMA SizedMore ==
  ASSUME NEW t, NEW H, NEW d, Sized(t, H, d), NEW i, i \notin H,
         NEW u, u.tx_size = t.tx_size + SduSize
  PROVE  Sized(u, H \cup {i}, d)
<1>1. IsFiniteSet(H) /\ t.tx_size \in Nat
  BY DEF Sized
<1>2. IsFiniteSet(H \cup {i}) /\ Cardinality(H \cup {i}) = Cardinality(H) + 1
  BY <1>1, FS_AddElement
<1>3. Cardinality(H) \in Nat
  BY <1>1, FS_CardinalityType
<1>4. PICK c \in Nat, x \in Nat, S \in Nat : c = Cardinality(H) /\ x = t.tx_size /\ S = SduSize
  BY <1>1, <1>3, Constants
<1>5. S * (c + 1) = S * c + S /\ S * c \in Nat
  BY <1>4
<1>6. PICK y \in Nat : y = S * c
  BY <1>5
<1>7. y <= x /\ (d = 0 => x = y)
  BY <1>4, <1>6 DEF Sized
<1>8. u.tx_size = x + S /\ SduSize * Cardinality(H \cup {i}) = y + S
  BY <1>2, <1>4, <1>5, <1>6
<1>9. x + S \in Nat /\ y + S <= x + S
  BY <1>7
<1> QED BY <1>2, <1>7, <1>8, <1>9 DEF Sized

\* SDUs that are confirmed.
LEMMA SizedLess ==
  ASSUME NEW t, NEW H, NEW d, Sized(t, H, d), NEW C, C \subseteq H,
         NEW u, u.tx_size = t.tx_size - SduSize * Cardinality(C)
  PROVE  Sized(u, H \ C, d)
<1>1. IsFiniteSet(H) /\ t.tx_size \in Nat
  BY DEF Sized
<1>2. IsFiniteSet(C) /\ Cardinality(C) \in Nat /\ Cardinality(H) \in Nat /\ Cardinality(C) <= Cardinality(H)
  <2>1. IsFiniteSet(C) /\ Cardinality(C) <= Cardinality(H)
    BY <1>1, FS_Subset
  <2> QED BY <1>1, <2>1, FS_CardinalityType
<1>3. IsFiniteSet(H \ C) /\ Cardinality(H \ C) = Cardinality(H) - Cardinality(C)
  <2>1. IsFiniteSet(H \ C) /\ Cardinality(H \ C) = Cardinality(H) - Cardinality(H \cap C)
    BY <1>1, FS_Difference
  <2>2. H \cap C = C
    OBVIOUS
  <2> QED BY <2>1, <2>2
<1>4. PICK c \in Nat, e \in Nat, x \in Nat, S \in Nat :
        c = Cardinality(H) /\ e = Cardinality(C) /\ x = t.tx_size /\ S = SduSize /\ e <= c
  BY <1>1, <1>2, Constants
<1>5. S * (c - e) = S * c - S * e /\ S * c \in Nat /\ S * e \in Nat /\ S * (c - e) >= 0
  BY <1>4
<1>6. PICK y \in Nat, z \in Nat : y = S * c /\ z = S * e
  BY <1>5
<1>7. y <= x /\ (d = 0 => x = y)
  BY <1>4, <1>6 DEF Sized
<1>8. u.tx_size = x - z /\ SduSize * Cardinality(H \ C) = y - z /\ y - z >= 0
  BY <1>3, <1>4, <1>5, <1>6
<1>9. x - z \in Nat /\ y - z <= x - z
  BY <1>7, <1>8
<1> QED BY <1>3, <1>7, <1>8, <1>9 DEF Sized

\* An SDU that is discarded: its bytes stay counted.
LEMMA SizedDiscard ==
  ASSUME NEW t, NEW H, NEW d, Sized(t, H, d), NEW i, NEW e, e # 0, NEW u, u.tx_size = t.tx_size
  PROVE  Sized(u, H \ {i}, e)
<1>1. IsFiniteSet(H) /\ t.tx_size \in Nat
  BY DEF Sized
<1>2. IsFiniteSet(H \ {i}) /\ Cardinality(H \ {i}) <= Cardinality(H)
  BY <1>1, FS_Subset
<1>3. Cardinality(H) \in Nat /\ Cardinality(H \ {i}) \in Nat
  BY <1>1, <1>2, FS_CardinalityType
<1>4. PICK c \in Nat, g \in Nat, S \in Nat :
        c = Cardinality(H) /\ g = Cardinality(H \ {i}) /\ S = SduSize /\ g <= c
  BY <1>2, <1>3, Constants
<1>5. S * g <= S * c /\ S * g \in Nat /\ S * c \in Nat
  <2>1. S * (c - g) >= 0 /\ S * (c - g) = S * c - S * g
    BY <1>4
  <2> QED BY <2>1
<1>6. S * c <= t.tx_size
  BY <1>4 DEF Sized
<1>7. S * g <= t.tx_size
  BY <1>1, <1>5, <1>6
<1> QED BY <1>1, <1>2, <1>4, <1>7 DEF Sized

-----------------------------------------------------------------------------
(* The two entities and the channels between them.                          *)

Counters == [faults : Nat, polls : Nat, discards : Nat, clears : Nat]

Channels(d, s) ==
  /\ d \in Seq(DataPdus) /\ Len(d) <= DataCap
  /\ s \in Seq(StatusPdus) /\ Len(s) <= StatusCap

\* The inductive invariant: each half is well formed whatever it received, and what is
\* in flight is what the other half can produce.
RlcInv ==
  /\ TxInv(tx, held) /\ RxInv(rx) /\ Sized(tx, held, used.discards)
  /\ Channels(data, status) /\ used \in Counters
  /\ submitted \in 0 .. Sdus /\ held \subseteq 1 .. submitted /\ confirmed \subseteq SduIds
  /\ RejectedOnlyWhenFull

\* What is held was submitted.
LEMMA HeldAreSdus ==
  ASSUME submitted \in 0 .. Sdus, held \subseteq 1 .. submitted
  PROVE  held \subseteq SduIds
BY Constants

\* The inductive invariant implies EntitiesConsistent.
LEMMA Consistent ==
  ASSUME RlcInv
  PROVE  EntitiesConsistent
<1>1. TxTypeOK(tx)
  BY TxTyped DEF RlcInv, Sized
<1>2. RxTypeOK(rx)
  BY RxTyped DEF RlcInv
<1>3. RlcTypeOK
  BY <1>1, <1>2, HeldAreSdus DEF RlcInv, RlcTypeOK, Channels
<1>4. SegmentsPartition /\ BufferStatusExact
  BY PartitionHolds, BufferStatusHolds DEF RlcInv
<1>5. WindowsInOrder
  BY WindowsHold DEF RlcInv
<1> QED BY <1>3, <1>4, <1>5 DEF RlcInv, EntitiesConsistent

\* The inductive invariant implies StatusRight.
LEMMA StatusHolds ==
  ASSUME RlcInv
  PROVE  StatusRight
<1>1. GapIsTimed
  BY GapTimedHolds DEF RlcInv
<1>2. StatusesParse
  BY StatusesParsed DEF RlcInv, Channels
<1>3. StatusSizeAgrees
  BY StatusSizesAgree DEF RlcInv, RxInv
<1> QED BY <1>1, <1>2, <1>3 DEF StatusRight

\* The bounds and the grants.
LEMMA CapsType == DataCap \in Nat /\ StatusCap \in Nat /\ DataSizes \subseteq Nat
                  /\ StatusSizes \subseteq Nat /\ StackValues \subseteq Sns
BY RlcAmAssumption

\* The inductive invariant holds at the start.
LEMMA InitHolds ==
  ASSUME Init
  PROVE  RlcInv
<1>1. TxInv(tx, held) /\ tx.tx_size = 0 /\ held = {}
  BY FreshTxInv DEF Init
<1>2. RxInv(rx)
  BY FreshRxInv DEF Init
<1>3. Sized(tx, held, used.discards)
  <2>1. IsFiniteSet({}) /\ Cardinality({}) = 0
    BY FS_EmptySet
  <2>2. SduSize * 0 = 0
    BY Constants
  <2> QED BY <1>1, <2>1, <2>2 DEF Sized
<1>4. Channels(data, status)
  <2>1. data = <<>> /\ status = <<>>
    BY DEF Init
  <2>2. <<>> \in Seq(DataPdus) /\ <<>> \in Seq(StatusPdus) /\ Len(<<>>) = 0
    OBVIOUS
  <2> QED BY <2>1, <2>2, CapsType DEF Channels
<1>5. used \in Counters
  BY DEF Init, Counters
<1>6. submitted \in 0 .. Sdus /\ held \subseteq 1 .. submitted /\ confirmed \subseteq SduIds
  BY Constants DEF Init
<1>7. RejectedOnlyWhenFull
  BY DEF Init, RejectedOnlyWhenFull
<1> QED BY <1>1, <1>2, <1>3, <1>4, <1>5, <1>6, <1>7 DEF RlcInv

\* nr_rlc_entity_am_recv_sdu, with and without room for the SDU.
LEMMA RecvSduStep ==
  ASSUME RlcInv, RecvSdu
  PROVE  RlcInv'
<1>1. rx' = rx /\ data' = data /\ status' = status /\ used' = used /\ confirmed' = confirmed
  BY DEF RecvSdu, chanVars, histVars
<1>2. /\ submitted \in 0 .. Sdus /\ submitted < Sdus
      /\ submitted' = submitted + 1 /\ held \subseteq 1 .. submitted
  BY DEF RecvSdu, RlcInv
<1>3. PICK i \in SduIds : i = submitted + 1 /\ i \notin held
  <2>1. submitted + 1 \in SduIds
    BY <1>2, Constants
  <2>2. submitted + 1 \notin held
    BY <1>2
  <2> QED BY <2>1, <2>2
<1>4. submitted' \in 0 .. Sdus
  BY <1>2, Constants
<1>5. CASE /\ CanAccept(tx) /\ tx' = recv_sdu(tx, i) /\ held' = held \cup {i}
           /\ wronglyRejected' = wronglyRejected
  <2>1. TxInv(tx', held') /\ tx'.tx_size = tx.tx_size + SduSize
    BY <1>3, <1>5, RecvSduKeeps DEF RlcInv
  <2>2. Sized(tx', held', used.discards)
    BY <1>3, <1>5, <2>1, SizedMore DEF RlcInv
  <2>3. held' \subseteq 1 .. submitted'
    BY <1>2, <1>3, <1>5
  <2>4. RejectedOnlyWhenFull'
    BY <1>1, <1>5 DEF RlcInv, RejectedOnlyWhenFull
  <2> QED BY <1>1, <1>4, <2>1, <2>2, <2>3, <2>4 DEF RlcInv
<1>6. CASE /\ ~CanAccept(tx) /\ tx' = tx /\ held' = held
           /\ wronglyRejected' =
                (wronglyRejected \/ SduSize * (Cardinality(held) + 1) <= TxMaxSize)
  <2>1. held' \subseteq 1 .. submitted'
    BY <1>2, <1>6
  <2>2. ASSUME used.discards = 0 PROVE ~(SduSize * (Cardinality(held) + 1) <= TxMaxSize)
    <3>1. IsFiniteSet(held) /\ tx.tx_size = SduSize * Cardinality(held)
      BY <2>2 DEF RlcInv, Sized
    <3>2. Cardinality(held) \in Nat
      BY <3>1, FS_CardinalityType
    <3>3. PICK c \in Nat, S \in Nat : c = Cardinality(held) /\ S = SduSize
      BY <3>2, Constants
    <3>4. S * (c + 1) = S * c + S
      OBVIOUS
    <3>5. ~(S * c + S <= TxMaxSize)
      BY <1>6, <3>1, <3>3 DEF CanAccept
    <3> QED BY <3>3, <3>4, <3>5
  <2>3. used.discards = 0 => ~wronglyRejected
    BY DEF RlcInv, RejectedOnlyWhenFull
  <2>4. used'.discards = 0 => ~wronglyRejected'
    BY <1>1, <1>6, <2>2, <2>3
  <2>5. RejectedOnlyWhenFull'
    BY <2>4 DEF RejectedOnlyWhenFull
  <2> QED BY <1>1, <1>4, <1>6, <2>1, <2>5 DEF RlcInv
<1> QED BY <1>3, <1>5, <1>6 DEF RecvSdu

\* The data part of nr_rlc_entity_am_generate_pdu.
LEMMA GenerateStep ==
  ASSUME RlcInv, NEW size \in DataSizes, GeneratePdu(size)
  PROVE  RlcInv'
<1>1. /\ rx' = rx /\ status' = status /\ used' = used /\ confirmed' = confirmed
      /\ submitted' = submitted /\ held' = held /\ wronglyRejected' = wronglyRejected
  BY DEF GeneratePdu, histVars
<1>2. PICK g : g = Generated(tx, size) /\ tx' = g.t /\ data' = Append(data, g.pdu)
  BY DEF GeneratePdu
<1>3. TxInv(tx', held) /\ tx'.tx_size = tx.tx_size /\ g.pdu \in DataPdus
  BY <1>2, GenerateKeeps, CapsType DEF GeneratePdu, RlcInv
<1>4. Sized(tx', held, used.discards)
  BY <1>3 DEF RlcInv, Sized
<1>5. data' \in Seq(DataPdus) /\ Len(data') = Len(data) + 1 /\ Len(data) \in Nat
  BY <1>2, <1>3, AppendProperties DEF RlcInv, Channels
<1>6. Len(data) < DataCap /\ DataCap \in Nat
  BY CapsType DEF GeneratePdu
<1>7. Channels(data', status')
  BY <1>1, <1>5, <1>6 DEF RlcInv, Channels
<1> QED BY <1>1, <1>3, <1>4, <1>7 DEF RlcInv, RejectedOnlyWhenFull

\* The status part of nr_rlc_entity_am_generate_pdu.
LEMMA SendStatusStep ==
  ASSUME RlcInv, NEW size \in StatusSizes, NEW stack \in StackValues, SendStatus(size, stack)
  PROVE  RlcInv'
<1>1. /\ tx' = tx /\ data' = data /\ used' = used /\ confirmed' = confirmed
      /\ submitted' = submitted /\ held' = held /\ wronglyRejected' = wronglyRejected
  BY DEF SendStatus, histVars
<1>2. size \in Nat /\ size >= 3 /\ stack \in Sns /\ RxInv(rx) /\ RxCore(rx) /\ rx \in RxStates
  BY CapsType DEF SendStatus, RlcInv, RxInv, RxCore
<1>3. PICK s \in StatusPdus : s = generate_status(rx, size, stack)
  BY <1>2, StatusPduType
<1>4. status' = Append(status, s) /\ Len(status) < StatusCap /\ StatusCap \in Nat
  BY <1>3, CapsType DEF SendStatus
<1>5. status' \in Seq(StatusPdus) /\ Len(status') = Len(status) + 1 /\ Len(status) \in Nat
  BY <1>4, AppendProperties DEF RlcInv, Channels
<1>6. Channels(data', status')
  BY <1>1, <1>4, <1>5 DEF RlcInv, Channels
<1>7. PICK u : u = [rx EXCEPT !.status_triggered = FALSE, !.prohibited = TRUE]
  OBVIOUS
<1>8. rx' = u
  BY <1>7 DEF SendStatus, StatusSent
<1>9. u \in RxStates
  BY <1>2, <1>7 DEF RxStates
<1>10. /\ SameList(rx, u) /\ u.rx_highest_status = rx.rx_highest_status
       /\ u.rx_next_status_trigger = rx.rx_next_status_trigger /\ u.reassembling = rx.reassembling
  BY <1>2, <1>7, <1>9 DEF RxStates, SameList
<1>11. RxInv(u)
  BY <1>2, <1>10, FlagsKeep
<1> QED BY <1>1, <1>6, <1>8, <1>11 DEF RlcInv, RejectedOnlyWhenFull

\* The counters of the bounds.
LEMMA CountersType ==
  ASSUME NEW c, c \in Counters
  PROVE  /\ c.faults \in Nat /\ c.polls \in Nat /\ c.discards \in Nat /\ c.clears \in Nat
         /\ \A n \in Nat : /\ [c EXCEPT !.faults = n] \in Counters
                           /\ [c EXCEPT !.faults = n].discards = c.discards
         /\ \A n \in Nat : /\ [c EXCEPT !.polls = n] \in Counters
                           /\ [c EXCEPT !.polls = n].discards = c.discards
         /\ \A n \in Nat : /\ [c EXCEPT !.discards = n] \in Counters
                           /\ [c EXCEPT !.discards = n].discards = n
         /\ \A n \in Nat : /\ [c EXCEPT !.clears = n] \in Counters
                           /\ [c EXCEPT !.clears = n].discards = c.discards
BY DEF Counters

\* A data PDU arrives, in order or not.
LEMMA ReceiveDataStep ==
  ASSUME RlcInv, NEW k, ReceiveData(k)
  PROVE  RlcInv'
<1>1. /\ tx' = tx /\ status' = status /\ confirmed' = confirmed
      /\ submitted' = submitted /\ held' = held /\ wronglyRejected' = wronglyRejected
  BY DEF ReceiveData
<1>2. used \in Counters
  BY DEF RlcInv
<1>3. PICK n \in Nat : n = used.faults + (IF k > 1 THEN 1 ELSE 0)
  BY <1>2, CountersType
<1>4. used' = [used EXCEPT !.faults = n]
  BY <1>3 DEF ReceiveData
<1>5. used' \in Counters /\ used'.discards = used.discards
  BY <1>2, <1>4, CountersType
<1>6. k \in 1 .. Len(data) /\ data \in Seq(DataPdus)
  BY DEF ReceiveData, RlcInv, Channels
<1>7. PICK d \in DataPdus : d = data[k]
  BY <1>6, SeqFacts
<1>8. RxInv(rx')
  <2>1. rx' = recv_data_pdu(rx, d)
    BY <1>7 DEF ReceiveData
  <2> QED BY <2>1, RecvDataKeeps DEF RlcInv
<1>9. data' = RemoveAt(data, k)
  BY DEF ReceiveData
<1>10. data' \in Seq(DataPdus) /\ Len(data') <= Len(data) /\ Len(data) \in Nat /\ Len(data') \in Nat
  <2>1. data' \in Seq(DataPdus) /\ Len(data') <= Len(data)
    BY <1>6, <1>9, RemoveType
  <2> QED BY <1>6, <2>1, SeqFacts
<1>11. Channels(data', status')
  BY <1>1, <1>10, CapsType DEF RlcInv, Channels
<1> QED BY <1>1, <1>5, <1>8, <1>11 DEF RlcInv, RejectedOnlyWhenFull

\* A status PDU arrives, in order or not.
LEMMA ReceiveStatusStep ==
  ASSUME RlcInv, NEW k, ReceiveStatus(k)
  PROVE  RlcInv'
<1>1. /\ rx' = rx /\ data' = data /\ used' = used
      /\ submitted' = submitted /\ wronglyRejected' = wronglyRejected
  BY DEF ReceiveStatus
<1>2. k \in 1 .. Len(status) /\ status \in Seq(StatusPdus)
  BY DEF ReceiveStatus, RlcInv, Channels
<1>3. PICK s \in StatusPdus : s = status[k]
  BY <1>2, SeqFacts
<1>4. s.nacks \in Seq(NackRecs)
  BY DEF StatusPdus
<1>5. PICK v : v = AfterAckNack(tx, s)
  OBVIOUS
<1>6. PICK C : C = ConfirmedSdus(v)
  OBVIOUS
<1>7. /\ tx' = finalize_ack_nack_processing(v) /\ confirmed' = confirmed \cup C
      /\ held' = held \ C
  BY <1>3, <1>5, <1>6 DEF ReceiveStatus
<1>8. TxInv(tx, held)
  BY DEF RlcInv
<1>9. /\ TxInv(tx', held') /\ C \subseteq held
      /\ tx'.tx_size = tx.tx_size - SduSize * Cardinality(C)
  BY <1>4, <1>5, <1>6, <1>7, <1>8, StatusKeeps, ZenonT(60)
<1>10. Sized(tx', held', used.discards)
  BY <1>7, <1>9, SizedLess DEF RlcInv
<1>11. status' = RemoveAt(status, k)
  BY DEF ReceiveStatus
<1>12. /\ status' \in Seq(StatusPdus) /\ Len(status') <= Len(status)
       /\ Len(status) \in Nat /\ Len(status') \in Nat
  <2>1. status' \in Seq(StatusPdus) /\ Len(status') <= Len(status)
    BY <1>2, <1>11, RemoveType
  <2> QED BY <1>2, <2>1, SeqFacts
<1>13. Channels(data', status')
  BY <1>1, <1>12, CapsType DEF RlcInv, Channels
<1>14. held \subseteq SduIds
  BY HeldAreSdus DEF RlcInv
<1>15. confirmed' \subseteq SduIds /\ held' \subseteq 1 .. submitted
  BY <1>7, <1>9, <1>14 DEF RlcInv
<1> QED BY <1>1, <1>9, <1>10, <1>13, <1>15 DEF RlcInv, RejectedOnlyWhenFull

\* The MAC loses a PDU.
LEMMA LoseStep ==
  ASSUME RlcInv, Lose
  PROVE  RlcInv'
<1>1. /\ tx' = tx /\ rx' = rx /\ confirmed' = confirmed
      /\ submitted' = submitted /\ held' = held /\ wronglyRejected' = wronglyRejected
  BY DEF Lose, histVars
<1>2. used \in Counters
  BY DEF RlcInv
<1>3. PICK n \in Nat : n = used.faults + 1
  BY <1>2, CountersType
<1>4. used' = [used EXCEPT !.faults = n]
  BY <1>3 DEF Lose
<1>5. used' \in Counters /\ used'.discards = used.discards
  BY <1>2, <1>4, CountersType
<1>6. data \in Seq(DataPdus) /\ status \in Seq(StatusPdus)
  BY DEF RlcInv, Channels
<1>7. DOMAIN data = 1 .. Len(data) /\ DOMAIN status = 1 .. Len(status)
      /\ Len(data) \in Nat /\ Len(status) \in Nat
  BY <1>6, SeqFacts
<1>8. Channels(data', status')
  <2>1. CASE \E k \in DOMAIN data : data' = RemoveAt(data, k) /\ status' = status
    <3>1. PICK k \in 1 .. Len(data) : data' = RemoveAt(data, k)
      BY <1>7, <2>1
    <3>2. data' \in Seq(DataPdus) /\ Len(data') <= Len(data)
      BY <1>6, <3>1, RemoveType
    <3>3. Len(data') \in Nat
      BY <3>2, SeqFacts
    <3> QED BY <1>7, <2>1, <3>2, <3>3, CapsType DEF RlcInv, Channels
  <2>2. CASE \E k \in DOMAIN status : status' = RemoveAt(status, k) /\ data' = data
    <3>1. PICK k \in 1 .. Len(status) : status' = RemoveAt(status, k)
      BY <1>7, <2>2
    <3>2. status' \in Seq(StatusPdus) /\ Len(status') <= Len(status)
      BY <1>6, <3>1, RemoveType
    <3>3. Len(status') \in Nat
      BY <3>2, SeqFacts
    <3> QED BY <1>7, <2>2, <3>2, <3>3, CapsType DEF RlcInv, Channels
  <2> QED BY <2>1, <2>2 DEF Lose
<1> QED BY <1>1, <1>5, <1>8 DEF RlcInv, RejectedOnlyWhenFull

\* t_poll_retransmit expires.
LEMMA ExpirePollStep ==
  ASSUME RlcInv, ExpirePoll
  PROVE  RlcInv'
<1>1. /\ rx' = rx /\ data' = data /\ status' = status /\ confirmed' = confirmed
      /\ submitted' = submitted /\ held' = held /\ wronglyRejected' = wronglyRejected
  BY DEF ExpirePoll, chanVars
<1>2. used \in Counters
  BY DEF RlcInv
<1>3. PICK n \in Nat : n = used.polls + 1
  BY <1>2, CountersType
<1>4. used' = [used EXCEPT !.polls = n]
  BY <1>3 DEF ExpirePoll
<1>5. used' \in Counters /\ used'.discards = used.discards
  BY <1>2, <1>4, CountersType
<1>6. TxInv(tx', held) /\ tx'.tx_size = tx.tx_size
  <2>1. CASE tx' = tx
    BY <2>1 DEF RlcInv
  <2>2. CASE tx' = check_t_poll_retransmit(tx)
    BY <2>2, PollKeeps DEF RlcInv
  <2> QED BY <2>1, <2>2 DEF ExpirePoll
<1>7. Sized(tx', held, used.discards)
  BY <1>6 DEF RlcInv, Sized
<1> QED BY <1>1, <1>5, <1>6, <1>7 DEF RlcInv, RejectedOnlyWhenFull

\* t_reassembly or t_status_prohibit expires.
LEMMA ExpireRxStep ==
  ASSUME RlcInv, ExpireReassembly \/ ExpireProhibit
  PROVE  RlcInv'
<1>1. /\ tx' = tx /\ data' = data /\ status' = status /\ confirmed' = confirmed /\ used' = used
      /\ submitted' = submitted /\ held' = held /\ wronglyRejected' = wronglyRejected
  BY DEF ExpireReassembly, ExpireProhibit, chanVars, histVars
<1>2. RxInv(rx) /\ rx \in RxStates
  BY DEF RlcInv, RxInv, RxCore
<1>3. RxInv(rx')
  <2>1. CASE ExpireReassembly
    BY <1>2, <2>1, ExpiryKeeps DEF ExpireReassembly
  <2>2. CASE ExpireProhibit
    <3>1. PICK u : u = [rx EXCEPT !.prohibited = FALSE]
      OBVIOUS
    <3>2. u \in RxStates
      BY <1>2, <3>1 DEF RxStates
    <3>3. /\ SameList(rx, u) /\ u.rx_highest_status = rx.rx_highest_status
          /\ u.rx_next_status_trigger = rx.rx_next_status_trigger
          /\ u.reassembling = rx.reassembling
      BY <1>2, <3>1, <3>2 DEF RxStates, SameList
    <3>4. RxInv(u)
      BY <1>2, <3>3, FlagsKeep
    <3> QED BY <2>2, <3>1, <3>4 DEF ExpireProhibit
  <2> QED BY <2>1, <2>2
<1> QED BY <1>1, <1>3 DEF RlcInv, RejectedOnlyWhenFull

\* nr_rlc_entity_am_discard_sdu.
LEMMA DiscardStep ==
  ASSUME RlcInv, NEW i \in SduIds, Discard(i)
  PROVE  RlcInv'
<1>1. /\ rx' = rx /\ data' = data /\ status' = status /\ confirmed' = confirmed
      /\ submitted' = submitted /\ wronglyRejected' = wronglyRejected /\ held' = held \ {i}
  BY DEF Discard, chanVars, histVars
<1>2. used \in Counters
  BY DEF RlcInv
<1>3. PICK n \in Nat : n = used.discards + 1 /\ n # 0
  BY <1>2, CountersType
<1>4. used' = [used EXCEPT !.discards = n]
  BY <1>3 DEF Discard
<1>5. used' \in Counters /\ used'.discards = n
  BY <1>2, <1>4, CountersType
<1>6. TxInv(tx', held') /\ tx'.tx_size = tx.tx_size
  BY <1>1, DiscardKeeps DEF Discard, RlcInv
<1>7. Sized(tx', held', used'.discards)
  BY <1>1, <1>3, <1>5, <1>6, SizedDiscard DEF RlcInv
<1>8. RejectedOnlyWhenFull'
  BY <1>3, <1>5 DEF RejectedOnlyWhenFull
<1> QED BY <1>1, <1>5, <1>6, <1>7, <1>8 DEF RlcInv

\* nr_rlc_entity_am_reestablishment.
LEMMA ReestablishStep ==
  ASSUME RlcInv, Reestablish
  PROVE  RlcInv'
<1>1. /\ tx' = FreshTx /\ rx' = FreshRx /\ data' = <<>> /\ status' = <<>> /\ held' = {}
      /\ confirmed' = confirmed /\ submitted' = submitted /\ wronglyRejected' = wronglyRejected
  BY DEF Reestablish, histVars
<1>2. used \in Counters
  BY DEF RlcInv
<1>3. PICK n \in Nat : n = used.clears + 1
  BY <1>2, CountersType
<1>4. used' = [used EXCEPT !.clears = n]
  BY <1>3 DEF Reestablish
<1>5. used' \in Counters /\ used'.discards = used.discards
  BY <1>2, <1>4, CountersType
<1>6. TxInv(tx', held') /\ RxInv(rx') /\ tx'.tx_size = 0
  BY <1>1, FreshTxInv, FreshRxInv
<1>7. Sized(tx', held', used'.discards)
  <2>1. IsFiniteSet({}) /\ Cardinality({}) = 0
    BY FS_EmptySet
  <2>2. SduSize * 0 = 0
    BY Constants
  <2> QED BY <1>1, <1>6, <2>1, <2>2 DEF Sized
<1>8. Channels(data', status')
  <2>1. <<>> \in Seq(DataPdus) /\ <<>> \in Seq(StatusPdus) /\ Len(<<>>) = 0
    OBVIOUS
  <2> QED BY <1>1, <2>1, CapsType DEF Channels
<1>9. held' \subseteq 1 .. submitted'
  BY <1>1
<1> QED BY <1>1, <1>5, <1>6, <1>7, <1>8, <1>9 DEF RlcInv, RejectedOnlyWhenFull

\* A step that changes nothing.
LEMMA StutterStep ==
  ASSUME RlcInv, UNCHANGED vars
  PROVE  RlcInv'
<1>1. /\ tx' = tx /\ rx' = rx /\ data' = data /\ status' = status /\ confirmed' = confirmed
      /\ submitted' = submitted /\ held' = held /\ wronglyRejected' = wronglyRejected
      /\ used' = used
  BY DEF vars
<1> QED BY <1>1 DEF RlcInv, RejectedOnlyWhenFull

\* RlcInv is inductive.
LEMMA RlcInvHolds == Spec => []RlcInv
<1>1. Init => RlcInv
  BY InitHolds
<1>2. RlcInv /\ [Next]_vars => RlcInv'
  <2> SUFFICES ASSUME RlcInv, [Next]_vars PROVE RlcInv'
    OBVIOUS
  <2>1. CASE RecvSdu
    BY <2>1, RecvSduStep
  <2>2. ASSUME NEW size \in DataSizes, GeneratePdu(size) PROVE RlcInv'
    BY <2>2, GenerateStep
  <2>3. ASSUME NEW size \in StatusSizes, NEW stack \in StackValues, SendStatus(size, stack)
        PROVE  RlcInv'
    BY <2>3, SendStatusStep
  <2>4. ASSUME NEW k \in 1 .. DataCap, ReceiveData(k) PROVE RlcInv'
    BY <2>4, ReceiveDataStep
  <2>5. ASSUME NEW k \in 1 .. StatusCap, ReceiveStatus(k) PROVE RlcInv'
    BY <2>5, ReceiveStatusStep
  <2>6. CASE Lose
    BY <2>6, LoseStep
  <2>7. CASE ExpirePoll
    BY <2>7, ExpirePollStep
  <2>8. CASE ExpireReassembly \/ ExpireProhibit
    BY <2>8, ExpireRxStep
  <2>9. ASSUME NEW i \in SduIds, Discard(i) PROVE RlcInv'
    BY <2>9, DiscardStep
  <2>10. CASE Reestablish
    BY <2>10, ReestablishStep
  <2>11. CASE UNCHANGED vars
    BY <2>11, StutterStep
  <2> QED BY <2>1, <2>2, <2>3, <2>4, <2>5, <2>6, <2>7, <2>8, <2>9, <2>10, <2>11 DEF Next
<1> QED BY <1>1, <1>2, PTL DEF Spec

(* In each entity, whatever the other one sends and the MAC loses or          *)
(* reorders: every byte of an SDU that is held is in exactly one segment of   *)
(* the four lists and ref_count counts them, bstatus is the size of what is   *)
(* to be sent, the window variables are in order and the windows not too      *)
(* wide, and no SDU is rejected while there is room (unless one was           *)
(* discarded).                                                                *)
THEOREM EntitiesStayConsistent == Spec => []EntitiesConsistent
<1>1. RlcInv => EntitiesConsistent
  BY Consistent
<1> QED BY <1>1, RlcInvHolds, PTL

(* The receiver times or reports every gap, generate_status writes only NACKs *)
(* that the other side's consistency check accepts, and what status_size      *)
(* announces is what generate_status writes when all that was received lies   *)
(* below rx_highest_status.                                                   *)
THEOREM StatusesAreRight == Spec => []StatusRight
<1>1. RlcInv => StatusRight
  BY StatusHolds
<1> QED BY <1>1, RlcInvHolds, PTL
=============================================================================
