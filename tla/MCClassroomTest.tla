-------------------------- MODULE MCClassroomTest --------------------------
(* ClassroomTest for TLC. *)
EXTENDS ClassroomTest, TLC

\* Students are interchangeable, and so are the requests of one person.
StudentSymmetry == Permutations(Student)
SlotSymmetry    == Permutations(Slot)
=============================================================================
