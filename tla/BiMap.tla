------------------------------- MODULE BiMap -------------------------------
(***************************************************************************)
(* The bidirectional map (bimap.c) that holds the pending events and the   *)
(* indication events: one red-black tree from file descriptors to events   *)
(* and one back. A pair's node has the descriptor as its address in both   *)
(* trees, the descriptor being that of a timer of its own.                 *)
(***************************************************************************)
EXTENDS RbTree

CONSTANTS Pairs         \* the pairs <<fd, event>> that are inserted

ASSUME PairsAssumption == Pairs \subseteq Nodes \X (Nat \ {0})

VARIABLES left, right

vars == <<left, right>>

Init == left = EmptyTree /\ right = EmptyTree

\* Mutant: the left tree is given the descriptor as its value.
insert_own_key(fd, ev) ==
    /\ fd \notin InTree(left)
    /\ left' = assoc_rb_tree_insert(left, fd, fd, fd)
    /\ right' = assoc_rb_tree_insert(right, ev, fd, fd)

\* bi_map_insert, with the descriptor of a new timer.
bi_map_insert(fd, ev) ==
    /\ fd \notin InTree(left)
    /\ left' = assoc_rb_tree_insert(left, fd, ev, fd)
    /\ right' = assoc_rb_tree_insert(right, ev, fd, fd)

SameSize(l, r) == l.size = r.size

\* Mutant: the entry of the left tree stays.
extract_right_only(ev) ==
    /\ \E n \in InTree(right) : right.key[n] = ev
    /\ right' = assoc_rb_tree_extract(right, ev).tree
    /\ UNCHANGED left

\* Mutant: the consistency check of bi_map_extract_left.
extract_right_as_left(ev) ==
    /\ \E n \in InTree(right) : right.key[n] = ev
    /\ \E r \in {assoc_rb_tree_extract(right, ev)} :
       \E l \in {assoc_rb_tree_extract(left, r.value)} :
          /\ right' = Check(r.tree, l.value = r.value /\ SameSize(l.tree, r.tree))
          /\ left' = l.tree

\* bi_map_extract_right; its callers look up what they have inserted.
bi_map_extract_right(ev) ==
    /\ \E n \in InTree(right) : right.key[n] = ev
    /\ \E r \in {assoc_rb_tree_extract(right, ev)} :
       \E l \in {assoc_rb_tree_extract(left, r.value)} :
          /\ right' = Check(r.tree, l.value = ev /\ SameSize(l.tree, r.tree))
          /\ left' = l.tree

\* bi_map_extract_left compares the event with the descriptor, as descriptors.
bi_map_extract_left(fd) ==
    /\ \E n \in InTree(left) : left.key[n] = fd
    /\ \E l \in {assoc_rb_tree_extract(left, fd)} :
       \E r \in {assoc_rb_tree_extract(right, l.value)} :
          /\ left' = Check(l.tree, l.value = r.value /\ SameSize(l.tree, r.tree))
          /\ right' = r.tree

Insert == \E p \in Pairs : bi_map_insert(p[1], p[2])
Extract == \E p \in Pairs : bi_map_extract_right(p[2])

Next == Insert \/ Extract

Spec == Init /\ [][Next]_vars

\* The same with the extraction by descriptor, which the program does not use.
SpecLeft == Init /\ [][Next \/ \E p \in Pairs : bi_map_extract_left(p[1])]_vars

\* find_if_bi_map_left from bi_map_front_left to bi_map_end_left.
bi_map_end_left(t) == assoc_rb_tree_front(t)

RECURSIVE find_if_left(_, _, _, _)
find_if_left(t, it, end, fd) ==
    IF it = end \/ t.key[it] = fd THEN it
    ELSE find_if_left(t, assoc_rb_tree_next(t, it), end, fd)
-----------------------------------------------------------------------------
Colors == {"red", "black"}

TreeTypeOK(t) ==
    /\ t.root \in Nodes \cup {Dummy} /\ t.size \in 0 .. Cardinality(Nodes)
    /\ t.color \in [Nodes \cup {Dummy} -> Colors]

\* Both trees are built from nodes, and the dummy stays black (a red dummy
\* would mislead every fix-up).
MapTypeOK == \A t \in {left, right} : TreeTypeOK(t) /\ t.color[Dummy] = "black"

\* Properties 2 to 5 that assoc_rb_tree.c lists, after every insertion and
\* extraction: black root, no red node under a red one, as many black nodes on
\* every path.
RedBlack ==
    \A t \in {left, right} :
        /\ t.color[t.root] = "black"
        /\ \A n \in InTree(t), d \in Sides :
             t.color[n] = "red" => t.color[t.child[d][n]] = "black"
        /\ Cardinality(BlackHeights(t, t.root)) = 1

\* Child and parent pointers agree, and the root's parent is the dummy.
ParentsAgree ==
    \A t \in {left, right} :
        /\ t.root # Dummy => t.parent[t.root] = Dummy
        /\ \A n \in InTree(t), d \in Sides :
             t.child[d][n] # Dummy => t.parent[t.child[d][n]] = n

\* An iteration from front to end meets every node exactly once, in the order
\* of the keys, equal ones included; size counts them.
WalkIsSorted ==
    \A t \in {left, right} :
        LET w == Walk(t)
        IN  /\ Len(w) = t.size /\ {w[i] : i \in DOMAIN w} = InTree(t)
            /\ Cardinality(InTree(t)) = t.size
            /\ \A i \in 1 .. Len(w) - 1 : t.key[w[i]] <= t.key[w[i + 1]]

\* No assertion of the trees or of the map fails.
NoAssertFails == left.ok /\ right.ok

Content(t) == {<<t.key[n], t.value[n]>> : n \in InTree(t)}

\* The two trees say the same: the right one is the left one turned round.
Mirrored == Content(right) = {<<p[2], p[1]>> : p \in Content(left)}

\* After any sequence of bimap operations both trees are red-black, linked and
\* sorted, they hold the same pairs, and none of the code's assertions has failed.
TreesWellFormed ==
    MapTypeOK /\ RedBlack /\ ParentsAgree /\ WalkIsSorted /\ NoAssertFails /\ Mirrored

\* A search from bi_map_front_left to bi_map_end_left finds the descriptors
\* that are in the map (e2_agent.c uses assoc_end and names bi_map_end_left in
\* a comment as its equal).
FindLeftFinds ==
    \A n \in InTree(left) :
        find_if_left(left, assoc_rb_tree_front(left), bi_map_end_left(left), left.key[n]) = n
        /\ bi_map_end_left(left) # n
-----------------------------------------------------------------------------
Rel == INSTANCE BiRelation WITH Pairs <- Pairs, pairs <- Content(left)

\* The map is a set of pairs to which insertion adds one and from which
\* extraction takes one that has the event.
ImplementsRelation == Rel!Spec
=============================================================================
