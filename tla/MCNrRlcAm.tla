----------------------------- MODULE MCNrRlcAm -----------------------------
(* Instances of the RLC AM entities for TLC. *)
EXTENDS NrRlcAm

\* poll_pdu and poll_byte "infinity".
NoPoll == Infinity
=============================================================================
