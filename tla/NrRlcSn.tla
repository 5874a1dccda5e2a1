------------------------------ MODULE NrRlcSn ------------------------------
(* What the two halves of an NR RLC AM entity share: the sequence numbers,  *)
(* as new_nr_rlc_entity_am derives them from sn_field_length, and the loops *)
(* that take elements out of a list. They are recursive functions on the    *)
(* places of a list, which the proofs can unfold.                           *)
EXTENDS Integers, Sequences, SequencesExt

CONSTANT SnModulus      \* sn_modulus: 4096 or 262144

ASSUME SnAssumption == SnModulus \in Nat \ {0} /\ SnModulus % 2 = 0

Sns == 0 .. SnModulus - 1

WindowSize == SnModulus \div 2

\* The elements of list that are in S, in their order.
Those(list, S) ==
    LET those[n \in 0 .. Len(list)] ==
            IF n = 0 THEN <<>>
            ELSE IF list[n] \in S THEN Append(those[n - 1], list[n]) ELSE those[n - 1]
    IN  those[Len(list)]

\* What is left of list when they are taken out.
Others(list, S) == Those(list, ToSet(list) \ S)
=============================================================================
