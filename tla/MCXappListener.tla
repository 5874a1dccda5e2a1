--------------------------- MODULE MCXappListener ---------------------------
(* Instances of the xApp listener for TLC. *)
EXTENDS XappListener

CONSTANTS x1, x2
=============================================================================
