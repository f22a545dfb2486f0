------------------------ MODULE MCEvaluationSession ------------------------
(* EvaluationSession for TLC. *)
EXTENDS EvaluationSession, TLC

\* Requests are interchangeable.
RequestSymmetry == Permutations(Request)
=============================================================================
