---------------------------- MODULE MCTeachingLoop ----------------------------
(* TeachingLoop for TLC. *)
EXTENDS TeachingLoop

CONSTANTS a, b, c

PlanOf2 == <<a, b>>
RemedyOf1 == <<c>>

\* b and c differ in a space and an underscore only.
NamesOf3 == a :> a @@ b :> b @@ c :> b
=============================================================================
