------------------------- MODULE EvaluationContract -------------------------
(***************************************************************************)
(* What an evaluation promises the student, whatever handles the requests: *)
(* a session opens, takes answers one by one and keeps them, and closes    *)
(* once, with its last answer, after an evaluation was put on record.      *)
(***************************************************************************)
EXTENDS Naturals, Sequences

CONSTANTS Session, Answer

VARIABLES phase, answers, records

vars == <<phase, answers, records>>

Init ==
    /\ phase = [s \in Session |-> "absent"]
    /\ answers = [s \in Session |-> <<>>]
    /\ records = [s \in Session |-> 0]

Open(s) ==
    /\ phase[s] = "absent"
    /\ phase' = [phase EXCEPT ![s] = "active"]
    /\ UNCHANGED <<answers, records>>

Take(s, a) ==
    /\ phase[s] = "active"
    /\ answers' = [answers EXCEPT ![s] = Append(@, a)]
    /\ UNCHANGED <<phase, records>>

\* Recorded again only when the closing of the session failed.
Record(s) ==
    /\ phase[s] = "active"
    /\ records' = [records EXCEPT ![s] = @ + 1]
    /\ UNCHANGED <<phase, answers>>

Close(s, a) ==
    /\ phase[s] = "active"
    /\ records[s] > 0
    /\ phase' = [phase EXCEPT ![s] = "completed"]
    /\ answers' = [answers EXCEPT ![s] = Append(@, a)]
    /\ UNCHANGED records

Next ==
    \E s \in Session :
      \/ Open(s) \/ Record(s)
      \/ \E a \in Answer : Take(s, a) \/ Close(s, a)

Spec == Init /\ [][Next]_vars
=============================================================================
