------------------------------ MODULE MCNrPdcp ------------------------------
(* Instances of the PDCP entities for TLC. *)
EXTENDS NrPdcp

\* One finite t-Reordering, and "infinity".
MCReorderings == {1, -1}
=============================================================================
