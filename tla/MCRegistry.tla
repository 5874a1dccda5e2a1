---------------------------- MODULE MCRegistry ----------------------------
(***************************************************************************)
(* RegistryMachine for TLC, with two interchangeable values.               *)
(***************************************************************************)
EXTENDS RegistryMachine, TLC

CONSTANTS v1, v2

ValueSymmetry == Permutations(Values)

===========================================================================
