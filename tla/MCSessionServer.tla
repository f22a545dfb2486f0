--------------------------- MODULE MCSessionServer ---------------------------
(* SessionServer for TLC. *)
EXTENDS SessionServer, TLC

\* Students, and sessions, are interchangeable (safety runs only).
ServerSymmetry == Permutations(Student) \cup Permutations(Session)
=============================================================================
