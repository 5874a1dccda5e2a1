------------------------------ MODULE MCBiMap ------------------------------
(* Instances of the bidirectional map for TLC. *)
EXTENDS BiMap

\* Events against the order of the descriptors, and two descriptors of one event.
Mixed == {<<n, IF n = 7 THEN 8 ELSE 10 - n>> : n \in Nodes}
=============================================================================
