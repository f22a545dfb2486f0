------------------------- MODULE MCClassroomAssignment -------------------------
(* ClassroomAssignment for TLC. *)
EXTENDS ClassroomAssignment, TLC

CONSTANTS s1, s2, r1, r2

Interchangeable == Permutations(Students) \union Permutations(Requests)
=============================================================================
