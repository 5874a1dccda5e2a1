----------------------------- MODULE BiRelation -----------------------------
(***************************************************************************)
(* What a bidirectional map promises its users (bimap.h): a set of pairs,  *)
(* unique on the left, from which a pair is taken by its right element.    *)
(***************************************************************************)
CONSTANT Pairs
VARIABLE pairs

Init == pairs = {}

Insert(p) == (\A q \in pairs : q[1] # p[1]) /\ pairs' = pairs \cup {p}

ExtractRight(p) == p \in pairs /\ pairs' = pairs \ {p}

Next == \E p \in Pairs : Insert(p) \/ ExtractRight(p)

Spec == Init /\ [][Next]_pairs
=============================================================================
