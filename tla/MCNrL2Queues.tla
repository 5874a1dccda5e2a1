---------------------------- MODULE MCNrL2Queues ----------------------------
(* Instances of the PDCP and RLC threads for TLC. *)
EXTENDS NrL2Queues

CONSTANTS u1, u2
=============================================================================
