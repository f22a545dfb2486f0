------------------------- MODULE MCCourseProgress -------------------------
(* CourseProgress for TLC. *)
EXTENDS CourseProgress, TLC

\* Requests are interchangeable.
RequestSymmetry == Permutations(Request)
=============================================================================
