-------------------------- MODULE MCCourseCreation --------------------------
(* CourseCreation for TLC. *)
EXTENDS CourseCreation, TLC
=============================================================================
