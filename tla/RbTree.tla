------------------------------- MODULE RbTree -------------------------------
(***************************************************************************)
(* The red-black tree under every map of the E2 agent and of the near-RT   *)
(* RIC (assoc_rb_tree.c): insertion, extraction and iteration, pointer by  *)
(* pointer. left and right are the two values of a side, so the mirrored   *)
(* branches of the code are one definition. ok turns false when one of the *)
(* code's assertions fails.                                                *)
(***************************************************************************)
EXTENDS Integers, Sequences, FiniteSets

CONSTANT Nodes          \* addresses of nodes, positive integers

ASSUME NodesAssumption == Nodes \subseteq Nat \ {0} /\ IsFiniteSet(Nodes)

Dummy == 0              \* tree->dummy: every leaf and the root's parent
Null == -1              \* NULL, or a field of a freed node

Sides == {"left", "right"}
Other(d) == IF d = "left" THEN "right" ELSE "left"

\* Mutant: the dummy keeps the colour init_node gives it.
EmptyTreeRed ==
    [root   |-> Dummy,
     child  |-> [d \in Sides |-> [n \in Nodes \cup {Dummy} |-> Null]],
     parent |-> [n \in Nodes \cup {Dummy} |-> Null],
     color  |-> [n \in Nodes \cup {Dummy} |-> "red"],
     key    |-> [n \in Nodes |-> Null],
     value  |-> [n \in Nodes |-> Null],
     size   |-> 0,
     ok     |-> TRUE]

EmptyTree ==
    [root   |-> Dummy,
     child  |-> [d \in Sides |-> [n \in Nodes \cup {Dummy} |-> Null]],
     parent |-> [n \in Nodes \cup {Dummy} |-> Null],
     color  |-> [n \in Nodes \cup {Dummy} |-> IF n = Dummy THEN "black" ELSE "red"],
     key    |-> [n \in Nodes |-> Null],
     value  |-> [n \in Nodes |-> Null],
     size   |-> 0,
     ok     |-> TRUE]

Check(t, cond) == [t EXCEPT !.ok = @ /\ cond]

\* p's child u, or the root, becomes v.
Replace(t, p, u, v) ==
    CASE p = Dummy -> [t EXCEPT !.root = v]
      [] p # Dummy /\ t.child["left"][p] = u -> [t EXCEPT !.child["left"][p] = v]
      [] OTHER -> [t EXCEPT !.child["right"][p] = v]

\* Mutant: the subtree that changes sides keeps its old parent.
RotateKeepsParent(t, x, d) ==
    LET y == t.child[Other(d)][x]
        moved == [t EXCEPT !.child[Other(d)][x] = t.child[d][y],
                           !.parent[y] = t.parent[x]]
    IN  [Replace(moved, t.parent[x], x, y) EXCEPT !.child[d][y] = x, !.parent[x] = y]

\* left_rotate is Rotate(t, x, "left"), right_rotate is Rotate(t, x, "right").
Rotate(t, x, d) ==
    LET y == t.child[Other(d)][x]
        b == t.child[d][y]
        moved == [Check(t, y # Dummy) EXCEPT
                     !.child[Other(d)][x] = b,
                     !.parent = [n \in DOMAIN @ |-> IF n = b /\ b # Dummy THEN x
                                                    ELSE IF n = y THEN t.parent[x] ELSE @[n]]]
    IN  [Replace(moved, t.parent[x], x, y) EXCEPT !.child[d][y] = x, !.parent[x] = y]
-----------------------------------------------------------------------------
\* Mutant: colours are flipped, but nothing is rotated.
RECURSIVE insert_fixup_flips(_, _)
insert_fixup_flips(t, z) ==
    LET p == t.parent[z]
        g == t.parent[p]
        d == IF p = t.child["left"][g] THEN "left" ELSE "right"
        uncle == t.child[Other(d)][g]
    IN  IF t.color[p] = "red" /\ t.color[uncle] = "red"
          THEN insert_fixup_flips([t EXCEPT !.color[p] = "black", !.color[uncle] = "black",
                                            !.color[g] = "red"], g)
          ELSE [t EXCEPT !.color[t.root] = "black"]

\* The side of its parent on which x is.
SideOf(t, x) == IF x = t.child["left"][t.parent[x]] THEN "left" ELSE "right"

\* Case 3: an outer red node under p, which is on side d of g.
RotateGrandparent(t, p, g, d) ==
    Rotate([t EXCEPT !.color[p] = "black", !.color[g] = "red"], g, Other(d))

\* Case 1: the uncle is red, flip colours and go on above. Case 2: turn an inner
\* z outwards, which makes it the parent of p; then case 3.
RECURSIVE insert_fixup(_, _)
insert_fixup(t, z) ==
    LET p == t.parent[z]
        g == t.parent[p]
        d == SideOf(t, p)
        uncle == t.child[Other(d)][g]
    IN  CASE t.color[p] = "black" -> [t EXCEPT !.color[t.root] = "black"]
          [] t.color[p] = "red" /\ t.color[uncle] = "red" ->
               insert_fixup([t EXCEPT !.color[p] = "black", !.color[uncle] = "black",
                                      !.color[g] = "red"], g)
          [] OTHER ->
               IF z = t.child[Other(d)][p]
                 THEN insert_fixup(RotateGrandparent(Rotate(t, p, d), z, g, d), p)
                 ELSE insert_fixup(RotateGrandparent(t, p, g, d), z)

\* Where the search for key k ends below x: the last node before a leaf.
RECURSIVE Leaf(_, _, _, _)
Leaf(t, x, y, k) ==
    IF x = Dummy THEN y
    ELSE Leaf(t, t.child[IF k < t.key[x] THEN "left" ELSE "right"][x], x, k)

\* assoc_rb_tree_insert, with z the node malloc returns. An equal key goes to
\* the right of the ones that are there.
assoc_rb_tree_insert(t, k, v, z) ==
    LET y == Leaf(t, t.root, Dummy, k)
        made == [t EXCEPT !.key[z] = k, !.value[z] = v, !.color[z] = "red",
                          !.parent[z] = y, !.size = @ + 1,
                          !.child = [d \in Sides |-> [@[d] EXCEPT ![z] = Dummy]]]
        linked == CASE y = Dummy -> [made EXCEPT !.root = z]
                    [] y # Dummy /\ k < t.key[y] -> [made EXCEPT !.child["left"][y] = z]
                    [] OTHER -> [made EXCEPT !.child["right"][y] = z]
    IN  insert_fixup(linked, z)
-----------------------------------------------------------------------------
RECURSIVE minimum(_, _)
minimum(t, x) ==
    IF x = Dummy \/ t.child["left"][x] = Dummy THEN x ELSE minimum(t, t.child["left"][x])

RECURSIVE find_rb_tree(_, _, _)
find_rb_tree(t, x, k) ==
    IF x = Dummy \/ k = t.key[x] THEN x
    ELSE find_rb_tree(t, t.child[IF k < t.key[x] THEN "left" ELSE "right"][x], k)

transplant(t, u, v) ==
    [Replace(Check(t, u # Dummy), t.parent[u], u, v) EXCEPT !.parent[v] = t.parent[u]]

\* delete_fixup: the side d of p, where x is, is one black short; w is x's sibling.
\* Case 1: w is red.
RotateRedSibling(t, p, d, w) ==
    IF t.color[w] = "red"
      THEN Rotate([t EXCEPT !.color[w] = "black", !.color[p] = "red"], p, d)
      ELSE t

\* Case 3: of w's children only the one near x is red.
TurnNephewOutwards(t, d, w) ==
    IF t.color[t.child[Other(d)][w]] = "black"
      THEN Rotate([Check(t, t.color[t.child[d][w]] = "red") EXCEPT
                      !.color[t.child[d][w]] = "black", !.color[w] = "red"], w, Other(d))
      ELSE t

\* Case 4: w's child far from x is red; x then is the root, which ends the loop.
RotateFarNephew(t, p, d) ==
    LET w == t.child[Other(d)][p]
        far == t.child[Other(d)][w]
    IN  Rotate([Check(t, t.color[w] = "black" /\ t.color[far] = "red") EXCEPT
                   !.color[w] = t.color[p], !.color[p] = "black", !.color[far] = "black"],
               p, d)

BlackRoot(t) == [t EXCEPT !.color[t.root] = "black"]

RECURSIVE delete_fixup(_, _)

\* Cases 2 to 4, with a black w.
FixBlackSibling(t, p, d, w) ==
    IF \A s \in Sides : t.color[t.child[s][w]] = "black"
      THEN delete_fixup([Check(t, t.color[w] = "black") EXCEPT !.color[w] = "red"], p)  \* Case 2
      ELSE BlackRoot(RotateFarNephew(
               TurnNephewOutwards(Check(t, t.color[w] = "black"), d, w), p, d))

FixSide(t, p, d) == FixBlackSibling(t, p, d, t.child[Other(d)][p])

delete_fixup(t, x) ==
    IF x = t.root \/ t.color[x] = "red" THEN [t EXCEPT !.color[x] = "black"]
    ELSE LET p == t.parent[x]
             d == SideOf(t, x)
         IN  FixSide(RotateRedSibling(t, p, d, t.child[Other(d)][p]), p, d)

Freed(t, z) ==
    [t EXCEPT !.child = [d \in Sides |-> [@[d] EXCEPT ![z] = Null]],
              !.parent[z] = Null, !.color[z] = "red", !.key[z] = Null, !.value[z] = Null]

\* z with two children: its successor y takes its place and its colour.
SpliceSuccessor(t, z) ==
    LET y == minimum(t, t.child["right"][z])
        x == t.child["right"][y]
        t1 == IF t.parent[y] = z
                THEN [t EXCEPT !.parent[x] = y]     \* x may be the dummy
                ELSE LET u == [transplant(t, y, x) EXCEPT !.child["right"][y] = t.child["right"][z]]
                     IN  [u EXCEPT !.parent[u.child["right"][y]] = y]
        t2 == [transplant(t1, z, y) EXCEPT !.child["left"][y] = t.child["left"][z],
                                           !.color[y] = t.color[z]]
    IN  [tree |-> [t2 EXCEPT !.parent[t.child["left"][z]] = y], x |-> x, color |-> t.color[y]]

\* The tree with z unlinked, the node x that took its place and the colour that
\* is missing there.
Unlink(t, z) ==
    LET l == t.child["left"][z]
        r == t.child["right"][z]
    IN  CASE l = Dummy -> [tree |-> transplant(t, z, r), x |-> r, color |-> t.color[z]]
          [] l # Dummy /\ r = Dummy ->
               [tree |-> transplant(t, z, l), x |-> l, color |-> t.color[z]]
          [] OTHER -> SpliceSuccessor(t, z)

Fixed(t, cut) == IF cut.color = "black" THEN delete_fixup(t, cut.x) ELSE t

Extracted(t, z, cut) ==
    [tree |-> [Check(Fixed(Freed(cut.tree, z), cut), t.size # 0) EXCEPT !.size = @ - 1],
     value |-> t.value[z]]

ExtractNode(t, z) == Extracted(t, z, Unlink(t, z))

\* assoc_rb_tree_extract: the tree without one node of key k, and its value.
assoc_rb_tree_extract(t, k) == ExtractNode(t, find_rb_tree(t, t.root, k))
-----------------------------------------------------------------------------
assoc_rb_tree_front(t) == minimum(t, t.root)

\* Up from n to the first node reached from its left.
RECURSIVE Climb(_, _)
Climb(t, n) ==
    LET p == t.parent[n]
    IN  IF p = Dummy \/ t.child["left"][p] = n THEN p ELSE Climb(t, p)

\* Mutant: the successor below n is not looked for.
NextOnlyClimbs(t, n) == Climb(t, n)

assoc_rb_tree_next(t, n) ==
    IF t.child["right"][n] # Dummy THEN minimum(t, t.child["right"][n]) ELSE Climb(t, n)

\* The nodes an iteration visits, from front to end.
RECURSIVE Visit(_, _, _)
Visit(t, n, seen) ==
    IF n = Dummy \/ Len(seen) > Cardinality(Nodes) THEN seen
    ELSE Visit(t, assoc_rb_tree_next(t, n), Append(seen, n))

Walk(t) == Visit(t, assoc_rb_tree_front(t), <<>>)
-----------------------------------------------------------------------------
\* What the tree holds, by following child pointers only.
RECURSIVE Below(_, _)
Below(t, n) ==
    IF n = Dummy THEN {}
    ELSE {n} \cup Below(t, t.child["left"][n]) \cup Below(t, t.child["right"][n])

InTree(t) == Below(t, t.root)

\* The numbers of black nodes on the paths from n down to a leaf.
RECURSIVE BlackHeights(_, _)
BlackHeights(t, n) ==
    IF n = Dummy THEN {0}
    ELSE {h + (IF t.color[n] = "black" THEN 1 ELSE 0) :
             h \in BlackHeights(t, t.child["left"][n]) \cup BlackHeights(t, t.child["right"][n])}
=============================================================================
