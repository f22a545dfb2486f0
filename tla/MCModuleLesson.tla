--------------------------- MODULE MCModuleLesson ---------------------------
(* ModuleLesson for TLC. *)
EXTENDS ModuleLesson, TLC

\* Requests are interchangeable.
RequestSymmetry == Permutations(Request)
=============================================================================
