----------------------------- MODULE MCAverages -----------------------------
(* Instances of Averages: parameter p reads 0 (no answer) or 2, q reads 5. *)
EXTENDS Averages

CONSTANTS p, q

MCReads == [x \in {p, q} |-> IF x = p THEN {0, 2} ELSE {5}]
MCSlots == {0}
=============================================================================
