---------------------------- MODULE MCE2System ----------------------------
(***************************************************************************)
(* E2System for TLC.  The API threads are interchangeable, and so are the  *)
(* agents; RAN functions are not (only some support control).              *)
(***************************************************************************)
EXTENDS E2System, TLC

Symmetry == Permutations(Threads) \cup Permutations(Agents)

===========================================================================
