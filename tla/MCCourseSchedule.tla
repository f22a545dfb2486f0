------------------------- MODULE MCCourseSchedule -------------------------
(* CourseSchedule for TLC. *)
EXTENDS CourseSchedule

\* Requests are interchangeable.
RequestSymmetry == Permutations(Request)
=============================================================================
