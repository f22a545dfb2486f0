--------------------------- MODULE MCCurriculumPlan ---------------------------
(* CurriculumPlan for TLC. *)
EXTENDS CurriculumPlan

CONSTANTS a, b

BNeedsA == [x \in Concept |-> IF x = b THEN {a} ELSE {}]
TwoCoverages == {<<a, b>>, <<a, a>>}
=============================================================================
