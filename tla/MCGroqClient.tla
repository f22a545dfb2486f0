---------------------------- MODULE MCGroqClient ----------------------------
(* GroqClient for TLC. *)
EXTENDS GroqClient, TLC

\* Calls are interchangeable (safety runs only).
CallSymmetry == Permutations(Call)
=============================================================================
