----------------------- MODULE ClassroomAssignment_proofs -----------------------
(***************************************************************************)
(* Proofs about ClassroomAssignment: what an assignment has reached when   *)
(* it ends, how many courses a student can get of one, and that nobody is  *)
(* left out one request at a time; for every set of students, templates,   *)
(* courses and requests, any number of requests at once and all bounds.    *)
(***************************************************************************)
EXTENDS ClassroomAssignment, FiniteSetTheorems, TLAPS

CourseStatus == {"none", "draft", "approved", "assigned", "deleted"}

Op == {"idle", "accept", "removed", "left", "register", "approve", "assign"}

Step == {"idle", "membership", "upsert", "mark", "list", "clone", "write",
         "insert", "members"}

Req == [op : Op, at : Step, student : Students \union {"none"},
        course : CourseIds \union {0}, template : Templates \union {"none"},
        todo : SUBSET Pairs, missing : SUBSET Pairs,
        total : SUBSET Students, failed : SUBSET Students]

TypeOK ==
    /\ invitations \in [Students -> {"none", "invited", "accepted", "revoked"}]
    /\ members \in [Students -> {"none", "active", "left", "removed"}]
    /\ templates \subseteq Templates
    /\ courses \in [CourseIds -> [template : Templates \union {"none"},
                                  status : CourseStatus]]
    /\ assigned \subseteq Pairs
    /\ clones \in [Pairs -> Nat]
    /\ request \in [Requests -> Req]
    /\ limit \in Nat
    /\ deleted \subseteq Pairs
    /\ faults \in Nat

\* No more requests are in flight than may be.
Admitted == IsFiniteSet(InFlight) /\ Cardinality(InFlight) <= limit

\* What a request holds at the place where it stands.
InStep(q) ==
    /\ q.at = "clone" => q.op \in {"accept", "assign"}
    /\ q.at # "clone" => q.todo = {} /\ q.missing = {} /\ q.failed = {}
    /\ q.op \in {"accept", "removed", "left"} => q.student \in Students
    /\ q.op \in {"approve", "assign"} => q.course \in CourseIds
    /\ q.op \in {"removed", "left"} => q.at = "write"
    /\ q.op = "idle" => q = Idle
    /\ \A p, o \in q.missing : p = o
    /\ q.op = "assign" => \A p \in q.todo \union q.missing : p[1] = q.course

StepsOK == \A r \in Requests : InStep(request[r])

\* Nobody can lose the row of p any more, or has it, or never will need it.
Settled(p) == p \in assigned \union deleted \/ courses[p[1]].status = "deleted"

\* A request has p before it, or has found it missing.
Pending(r, p) == p \in request[r].todo \union request[r].missing

\* An assignment that is cloning still has before it every member it has read,
\* but those who have the course and those whose clone failed.
ReachOK(r) ==
    request[r].op = "assign" /\ request[r].at = "clone" =>
        \A s \in request[r].total \ request[r].failed :
            LET p == <<request[r].course, s>> IN Settled(p) \/ Pending(r, p)

\* The requests that have found p missing and will clone it.
Holders(p) == {r \in Requests : p \in request[r].missing}

\* The courses a student has, and those on their way: a request can only be on
\* its way to a second one if it looked before the first was made.
SpareOK(p) ==
    p \notin deleted =>
        /\ clones[p] <= limit
        /\ courses[p[1]].status # "deleted" =>
              /\ p \notin assigned => clones[p] = 0
              /\ clones[p] + Cardinality(Holders(p)) <= limit

BaseInv == TypeOK /\ StepsOK /\ Admitted

CountInv == BaseInv /\ \A p \in Pairs : SpareOK(p)

ReachInv == BaseInv /\ \A r \in Requests : ReachOK(r)

\* One request at a time and nothing fails: a member without a course that is
\* assigned is a member whose acceptance is not over.
Joining(r, p) ==
    /\ request[r].op = "accept" /\ request[r].student = p[2]
    /\ request[r].at \in {"mark", "list"} \/ Pending(r, p)

Gap(p) == members[p[2]] = "active" /\ courses[p[1]].status = "assigned" /\ ~Settled(p)

Alone == limit = 1 /\ faults = 0

GapsHeld == \A p \in Pairs : Gap(p) => \E r \in Requests : Joining(r, p)

TotalHeld(r) ==
    request[r].op = "assign" /\ request[r].at = "clone" =>
        /\ request[r].total = {s \in Students : members[s] = "active"}
        /\ request[r].failed = {} \/ courses[request[r].course].status = "deleted"

AloneInv ==
    /\ ReachInv
    /\ Alone => GapsHeld /\ \A r \in Requests : TotalHeld(r)

-----------------------------------------------------------------------------
(* Types, places and the number of requests. *)

USE DEF CourseStatus, Op, Step

LEMMA IdleTyped == Idle \in Req /\ InStep(Idle)
BY DEF Idle, Req, InStep

\* A request that goes on or ends leaves the others alone.
Turn(r) ==
    /\ request[r] # Idle
    /\ request' = [request EXCEPT ![r] = request'[r]]

LEMMA TurnKeeps ==
    ASSUME BaseInv, NEW r \in Requests, Turn(r), UNCHANGED limit,
           request'[r] \in Req, InStep(request'[r])
    PROVE  /\ request' \in [Requests -> Req]
           /\ StepsOK' /\ Admitted'
<1>1. InFlight' \in SUBSET InFlight
  BY DEF Turn, InFlight, BaseInv, TypeOK
<1>2. Admitted'
  BY <1>1, FS_Subset, FS_CardinalityType DEF BaseInv, TypeOK, Admitted
<1> QED BY <1>2 DEF Turn, BaseInv, TypeOK, StepsOK

LEMMA BeginKeeps ==
    ASSUME BaseInv, NEW r \in Requests, NEW req \in Req, InStep(req),
           Begin(r, req), UNCHANGED limit
    PROVE  /\ request' \in [Requests -> Req]
           /\ StepsOK' /\ Admitted'
<1>1. InFlight' \in SUBSET (InFlight \union {r})
  BY DEF Begin, InFlight, BaseInv, TypeOK
<1>2. /\ IsFiniteSet(InFlight \union {r})
      /\ Cardinality(InFlight \union {r}) <= Cardinality(InFlight) + 1
      /\ Cardinality(InFlight) \in Nat
  <2>1. IsFiniteSet(InFlight) /\ Cardinality(InFlight) \in Nat
    BY FS_CardinalityType DEF BaseInv, Admitted
  <2> QED BY <2>1, FS_AddElement
<1>3. Admitted'
  BY <1>1, <1>2, FS_Subset, FS_CardinalityType DEF BaseInv, TypeOK, Admitted, Begin
<1> QED BY <1>3 DEF Begin, BaseInv, TypeOK, StepsOK

LEMMA InitBase == Init => BaseInv
<1> SUFFICES ASSUME Init PROVE BaseInv
  OBVIOUS
<1>1. TypeOK /\ StepsOK
  BY IdleTyped, BoundAssumption DEF Init, TypeOK, StepsOK, NoCourse
<1>2. InFlight = {}
  BY DEF Init, InFlight
<1>3. Admitted
  BY <1>1, <1>2, FS_EmptySet DEF Admitted, TypeOK
<1> QED BY <1>1, <1>3 DEF BaseInv

\* A status is written over one that is not final.
LEMMA SetStatusTyped ==
    ASSUME TypeOK, NEW c \in CourseIds, NEW status \in CourseStatus, SetStatus(c, status)
    PROVE  courses' \in [CourseIds -> [template : Templates \union {"none"},
                                      status : CourseStatus]]
BY DEF TypeOK, SetStatus

LEMMA BeginningKeepsBase ==
    ASSUME BaseInv, NEW r \in Requests,
           \/ \E s \in Students : Accept(r, s)
           \/ \E s \in Students : \E status \in {"removed", "left"} : Go(r, s, status)
           \/ \E t \in Templates : Register(r, t)
           \/ \E c \in CourseIds : Approve(r, c) \/ Assign(r, c)
    PROVE  BaseInv'
<1>1. ASSUME NEW s \in Students, Accept(r, s)
      PROVE  BaseInv'
  <2> DEFINE req == [Idle EXCEPT !.op = "accept", !.at = "membership", !.student = s]
  <2>1. req \in Req /\ InStep(req)
    BY DEF Idle, Req, InStep
  <2> QED BY <1>1, <2>1, BeginKeeps DEF Accept, BaseInv, TypeOK
<1>2. ASSUME NEW s \in Students, NEW status \in {"removed", "left"}, Go(r, s, status)
      PROVE  BaseInv'
  <2> DEFINE req == [Idle EXCEPT !.op = status, !.at = "write", !.student = s]
  <2>1. req \in Req /\ InStep(req)
    BY DEF Idle, Req, InStep
  <2> QED BY <1>2, <2>1, BeginKeeps DEF Go, BaseInv, TypeOK
<1>3. ASSUME NEW t \in Templates, Register(r, t)
      PROVE  BaseInv'
  <2> DEFINE req == [Idle EXCEPT !.op = "register", !.at = "insert", !.template = t]
  <2>1. req \in Req /\ InStep(req)
    BY DEF Idle, Req, InStep
  <2> QED BY <1>3, <2>1, BeginKeeps DEF Register, BaseInv, TypeOK
<1>4. ASSUME NEW c \in CourseIds, Approve(r, c)
      PROVE  BaseInv'
  <2> DEFINE req == [Idle EXCEPT !.op = "approve", !.at = "write", !.course = c]
  <2>1. req \in Req /\ InStep(req)
    BY DEF Idle, Req, InStep
  <2> QED BY <1>4, <2>1, BeginKeeps DEF Approve, BaseInv, TypeOK
<1>5. ASSUME NEW c \in CourseIds, Assign(r, c)
      PROVE  BaseInv'
  <2> DEFINE req == [Idle EXCEPT !.op = "assign", !.at = "members", !.course = c]
  <2>1. req \in Req /\ InStep(req)
    BY DEF Idle, Req, InStep
  <2> QED BY <1>5, <2>1, BeginKeeps DEF Assign, BaseInv, TypeOK
<1> QED BY <1>1, <1>2, <1>3, <1>4, <1>5

\* A request that stands anywhere but at its end is in flight.
LEMMA InFlightWhere ==
    ASSUME BaseInv, NEW r \in Requests, request[r].op # "idle" \/ request[r].at # "idle"
    PROVE  request[r] # Idle
BY DEF Idle

LEMMA EndKeeps ==
    ASSUME BaseInv, NEW r \in Requests, request[r] # Idle, End(r), UNCHANGED limit
    PROVE  /\ request' \in [Requests -> Req]
           /\ StepsOK' /\ Admitted'
<1>1. Turn(r) /\ request'[r] = Idle
  BY DEF End, Turn, BaseInv, TypeOK
<1> QED BY <1>1, IdleTyped, TurnKeeps

\* A request goes on to a step at which it holds nothing to clone.
LEMMA GotoKeeps ==
    ASSUME BaseInv, NEW r \in Requests, request[r] # Idle, request[r].at # "clone",
           request[r].op = "accept",
           NEW step \in {"upsert", "mark", "list"}, Goto(r, step), UNCHANGED limit
    PROVE  /\ request' \in [Requests -> Req]
           /\ StepsOK' /\ Admitted'
<1>1. request[r] \in Req /\ InStep(request[r])
  BY DEF BaseInv, TypeOK, StepsOK
<1>2. request'[r] = [request[r] EXCEPT !.at = step]
  BY DEF Goto, BaseInv, TypeOK
<1>3. request'[r] \in Req
  BY <1>1, <1>2 DEF Req
<1>4. InStep(request'[r])
  BY <1>1, <1>2, <1>3 DEF Req, InStep
<1>5. Turn(r)
  BY <1>2 DEF Goto, Turn, BaseInv, TypeOK
<1> QED BY <1>3, <1>4, <1>5, TurnKeeps

LEMMA AcceptanceKeepsBase ==
    ASSUME BaseInv, NEW r \in Requests,
           AcceptChecks(r) \/ AcceptJoins(r) \/ AcceptMarks(r) \/ AcceptLists(r) \/ AcceptEnds(r)
    PROVE  BaseInv'
<1> request[r] # Idle
  BY DEF AcceptChecks, AcceptJoins, AcceptMarks, AcceptLists, AcceptEnds, At, Idle
<1> request[r] \in Req /\ InStep(request[r])
  BY DEF BaseInv, TypeOK, StepsOK
<1>1. CASE AcceptChecks(r)
  BY <1>1, EndKeeps, GotoKeeps DEF AcceptChecks, At, BaseInv, TypeOK
<1>2. CASE AcceptJoins(r)
  <2>1. request[r].student \in Students
    BY <1>2 DEF AcceptJoins, At, InStep
  <2> QED BY <1>2, <2>1, GotoKeeps DEF AcceptJoins, At, BaseInv, TypeOK
<1>3. CASE AcceptMarks(r)
  <2>1. request[r].student \in Students
    BY <1>3 DEF AcceptMarks, At, InStep
  <2> QED BY <1>3, <2>1, GotoKeeps DEF AcceptMarks, At, BaseInv, TypeOK
<1>4. CASE AcceptLists(r)
  <2> DEFINE req == [request[r] EXCEPT !.at = "clone",
                         !.todo = LateCourses \X {request[r].student}]
  <2>1. request[r].student \in Students
    BY <1>4 DEF AcceptLists, At, InStep
  <2>2. LateCourses \X {request[r].student} \in SUBSET Pairs
    BY <2>1 DEF LateCourses, Pairs
  <2>3. Turn(r) /\ request'[r] = req
    BY <1>4 DEF AcceptLists, Turn, BaseInv, TypeOK
  <2>4. req \in Req
    BY <2>2 DEF Req
  <2>5. InStep(req)
    BY <1>4, <2>4 DEF Req, InStep, AcceptLists, At
  <2> QED BY <1>4, <2>3, <2>4, <2>5, TurnKeeps DEF AcceptLists, BaseInv, TypeOK
<1>5. CASE AcceptEnds(r)
  BY <1>5, EndKeeps DEF AcceptEnds, BaseInv, TypeOK
<1> QED BY <1>1, <1>2, <1>3, <1>4, <1>5

\* The requests of the teacher, and leaving and removal.
LEMMA WritesKeepBase ==
    ASSUME BaseInv, NEW r \in Requests,
           \/ Gone(r) \/ RegisterInserts(r) \/ ApproveWrites(r)
           \/ AssignReads(r) \/ AssignEnds(r)
    PROVE  BaseInv'
<1> request[r] # Idle
  BY InFlightWhere DEF Gone, RegisterInserts, ApproveWrites, AssignReads, AssignEnds, At
<1> request[r] \in Req /\ InStep(request[r])
  BY DEF BaseInv, TypeOK, StepsOK
<1>1. CASE Gone(r)
  <2>1. request[r].student \in Students
    BY <1>1 DEF Gone, InStep
  <2> QED BY <1>1, <2>1, EndKeeps DEF Gone, BaseInv, TypeOK
<1>2. CASE RegisterInserts(r)
  <2>1. courses' \in [CourseIds -> [template : Templates \union {"none"}, status : CourseStatus]]
    BY <1>2 DEF RegisterInserts, At, BaseInv, TypeOK, Req
  <2> QED BY <1>2, <2>1, EndKeeps DEF RegisterInserts, BaseInv, TypeOK
<1>3. CASE ApproveWrites(r)
  <2>1. request[r].course \in CourseIds
    BY <1>3 DEF ApproveWrites, At, InStep
  <2> QED BY <1>3, <2>1, EndKeeps, SetStatusTyped DEF ApproveWrites, BaseInv, TypeOK
<1>4. CASE AssignReads(r)
  <2> DEFINE active == {s \in Students : members[s] = "active"}
             req == [request[r] EXCEPT !.at = "clone", !.total = active,
                         !.todo = {request[r].course} \X active]
  <2>1. request[r].course \in CourseIds
    BY <1>4 DEF AssignReads, At, InStep
  <2>2. {request[r].course} \X active \in SUBSET Pairs
    BY <2>1 DEF Pairs
  <2>3. Turn(r) /\ request'[r] = req
    BY <1>4 DEF AssignReads, Turn, BaseInv, TypeOK
  <2>4. req \in Req
    BY <2>2 DEF Req
  <2>5. InStep(req)
    BY <1>4, <2>4 DEF Req, InStep, AssignReads, At
  <2> QED BY <1>4, <2>3, <2>4, <2>5, TurnKeeps DEF AssignReads, BaseInv, TypeOK
<1>5. CASE AssignEnds(r)
  <2>1. request[r].course \in CourseIds
    BY <1>5 DEF AssignEnds, InStep
  <2> QED BY <1>5, <2>1, EndKeeps, SetStatusTyped DEF AssignEnds, BaseInv, TypeOK
<1> QED BY <1>1, <1>2, <1>3, <1>4, <1>5

\* Looking up, cloning and failing to, for an assignment or an acceptance.
LEMMA CloningKeepsBase ==
    ASSUME BaseInv, NEW r \in Requests,
           \/ \E p \in Pairs : LooksUp(r, p)
           \/ Clones(r) \/ CloneFails(r)
    PROVE  BaseInv'
<1> request[r] \in Req /\ InStep(request[r])
  BY DEF BaseInv, TypeOK, StepsOK
<1>1. ASSUME NEW p \in Pairs, LooksUp(r, p)
      PROVE  BaseInv'
  <2> DEFINE req == [request[r] EXCEPT !.todo = @ \ {p},
                         !.missing = IF AssignmentOf(p) THEN {} ELSE {p}]
  <2>1. Turn(r) /\ request'[r] = req
    BY <1>1, InFlightWhere DEF LooksUp, Turn, BaseInv, TypeOK
  <2>2. req \in Req
    BY DEF Req
  <2>3. InStep(req)
    BY <1>1, <2>2 DEF Req, InStep, LooksUp
  <2> QED BY <1>1, <2>1, <2>2, <2>3, TurnKeeps DEF LooksUp, BaseInv, TypeOK
<1>2. ASSUME NEW p \in request[r].missing, CloneFails(r) \/ Clones(r)
      PROVE  request[r] # Idle /\ request[r].at = "clone" /\ p \in Pairs
  BY <1>2 DEF InStep, Idle, Req
<1>3. CASE Clones(r)
  <2>1. PICK p \in request[r].missing :
          /\ clones' = [clones EXCEPT ![p] = @ + 1]
          /\ assigned' = assigned \union {p}
          /\ request' = [request EXCEPT ![r].missing = {}]
          /\ UNCHANGED <<invitations, members, templates, courses, limit, deleted, faults>>
    BY <1>3 DEF Clones
  <2> DEFINE req == [request[r] EXCEPT !.missing = {}]
  <2>2. Turn(r) /\ request'[r] = req
    BY <1>2, <1>3, <2>1 DEF Turn, BaseInv, TypeOK
  <2>3. req \in Req /\ InStep(req)
    BY <1>2, <1>3 DEF Req, InStep
  <2>4. p \in Pairs
    BY <1>2, <1>3
  <2>5. clones' \in [Pairs -> Nat] /\ assigned' \subseteq Pairs
    BY <2>1, <2>4 DEF BaseInv, TypeOK
  <2> QED BY <2>1, <2>2, <2>3, <2>5, TurnKeeps DEF BaseInv, TypeOK
<1>4. CASE CloneFails(r)
  <2>1. PICK p \in request[r].missing :
          /\ request' = [request EXCEPT ![r].missing = {}, ![r].failed = @ \union {p[2]}]
          /\ faults' \in {faults, faults + 1}
          /\ UNCHANGED <<invitations, members, templates, courses, assigned, clones,
                         limit, deleted>>
    BY <1>4 DEF CloneFails
  <2> DEFINE req == [request[r] EXCEPT !.missing = {}, !.failed = @ \union {p[2]}]
  <2>2. Turn(r) /\ request'[r] = req
    BY <1>2, <1>4, <2>1 DEF Turn, BaseInv, TypeOK
  <2>3. p \in Pairs
    BY <1>2, <1>4
  <2>4. p[2] \in Students
    BY <2>3 DEF Pairs
  <2>5. req \in Req
    BY <2>4 DEF Req
  <2>6. InStep(req)
    BY <1>2, <1>4, <2>5 DEF Req, InStep
  <2> QED BY <1>4, <2>1, <2>2, <2>5, <2>6, TurnKeeps DEF BaseInv, TypeOK
<1> QED BY <1>1, <1>3, <1>4

LEMMA AroundKeepsBase ==
    ASSUME BaseInv,
           \/ \E s \in Students : Invite(s) \/ Revoke(s)
           \/ \E r \in Requests : Dies(r)
           \/ \E p \in Pairs : DeleteClone(p)
           \/ \E t \in Templates : DeleteTemplate(t)
           \/ UNCHANGED vars
    PROVE  BaseInv'
<1>1. ASSUME UNCHANGED <<request, limit>>
      PROVE  StepsOK' /\ Admitted'
  BY <1>1 DEF BaseInv, StepsOK, Admitted, InFlight
<1>2. ASSUME NEW s \in Students, Invite(s) \/ Revoke(s)
      PROVE  BaseInv'
  BY <1>1, <1>2 DEF Invite, Revoke, BaseInv, TypeOK
<1>3. ASSUME NEW r \in Requests, Dies(r)
      PROVE  BaseInv'
  BY <1>3, EndKeeps DEF Dies, BaseInv, TypeOK
<1>4. ASSUME NEW p \in Pairs, DeleteClone(p)
      PROVE  BaseInv'
  <2>1. clones' \in [Pairs -> Nat]
    BY <1>4 DEF DeleteClone, BaseInv, TypeOK
  <2>2. assigned' \subseteq Pairs /\ deleted' \subseteq Pairs
    BY <1>4 DEF DeleteClone, BaseInv, TypeOK
  <2> QED BY <1>1, <1>4, <2>1, <2>2 DEF DeleteClone, BaseInv, TypeOK
<1>5. ASSUME NEW t \in Templates, DeleteTemplate(t)
      PROVE  BaseInv'
  BY <1>1, <1>5 DEF DeleteTemplate, BaseInv, TypeOK
<1>6. CASE UNCHANGED vars
  BY <1>1, <1>6 DEF vars, BaseInv, TypeOK
<1> QED BY <1>2, <1>3, <1>4, <1>5, <1>6

LEMMA BaseInductive == BaseInv /\ [Next]_vars => BaseInv'
BY BeginningKeepsBase, AcceptanceKeepsBase, WritesKeepBase, CloningKeepsBase, AroundKeepsBase
DEF Next, Work

-----------------------------------------------------------------------------
(* What an assignment reaches. *)

\* No step takes a course from a student but those that make it needless.
LEMMA SettledStays ==
    ASSUME BaseInv, [Next]_vars, NEW p \in Pairs, Settled(p)
    PROVE  Settled(p)'
<1> p[1] \in CourseIds
  BY DEF Pairs
<1>1. ASSUME UNCHANGED <<courses, assigned, deleted>>
      PROVE  Settled(p)'
  BY <1>1 DEF Settled
<1>2. ASSUME NEW c \in CourseIds, NEW status \in CourseStatus, SetStatus(c, status),
             UNCHANGED <<assigned, deleted>>
      PROVE  Settled(p)'
  BY <1>2 DEF SetStatus, Settled, BaseInv, TypeOK
<1>3. ASSUME NEW r \in Requests, Work(r)
      PROVE  Settled(p)'
  <2> request[r] \in Req /\ InStep(request[r])
    BY DEF BaseInv, TypeOK, StepsOK
  <2>1. CASE AcceptChecks(r) \/ AcceptJoins(r) \/ AcceptMarks(r) \/ AcceptLists(r)
             \/ AcceptEnds(r) \/ Gone(r) \/ AssignReads(r) \/ CloneFails(r)
             \/ \E q \in Pairs : LooksUp(r, q)
    BY <1>1, <2>1 DEF AcceptChecks, AcceptJoins, AcceptMarks, AcceptLists, AcceptEnds,
                      Gone, AssignReads, CloneFails, LooksUp
  <2>2. CASE RegisterInserts(r)
    BY <2>2 DEF RegisterInserts, NoCourse, Settled, BaseInv, TypeOK
  <2>3. CASE ApproveWrites(r)
    BY <1>2, <2>3 DEF ApproveWrites, At, InStep
  <2>4. CASE AssignEnds(r)
    BY <1>2, <2>4 DEF AssignEnds, InStep
  <2>5. CASE Clones(r)
    BY <2>5 DEF Clones, Settled
  <2> QED BY <1>3, <2>1, <2>2, <2>3, <2>4, <2>5 DEF Work
<1>4. ASSUME NEW q \in Pairs, DeleteClone(q)
      PROVE  Settled(p)'
  BY <1>4 DEF DeleteClone, Settled, BaseInv, TypeOK
<1>5. ASSUME NEW t \in Templates, DeleteTemplate(t)
      PROVE  Settled(p)'
  BY <1>5 DEF DeleteTemplate, Settled, BaseInv, TypeOK
<1>6. ASSUME NEW r \in Requests, NEW s \in Students,
             Accept(r, s) \/ \E status \in {"removed", "left"} : Go(r, s, status)
      PROVE  Settled(p)'
  BY <1>1, <1>6 DEF Accept, Go
<1>7. ASSUME NEW r \in Requests,
             \/ Dies(r)
             \/ \E t \in Templates : Register(r, t)
             \/ \E c \in CourseIds : Approve(r, c) \/ Assign(r, c)
      PROVE  Settled(p)'
  BY <1>1, <1>7 DEF Dies, Register, Approve, Assign
<1>8. ASSUME NEW s \in Students, Invite(s) \/ Revoke(s)
      PROVE  Settled(p)'
  BY <1>1, <1>8 DEF Invite, Revoke
<1>9. CASE UNCHANGED vars
  BY <1>1, <1>9 DEF vars
<1> QED BY <1>3, <1>4, <1>5, <1>6, <1>7, <1>8, <1>9 DEF Next

\* A request that is not cloning for an assignment has nothing to reach, and one
\* that stands still keeps what it has before it.
LEMMA ReachStays ==
    ASSUME BaseInv, [Next]_vars, NEW r \in Requests, ReachOK(r),
           \/ request'[r] = request[r]
           \/ ~(request'[r].op = "assign" /\ request'[r].at = "clone")
    PROVE  ReachOK(r)'
<1>1. CASE request'[r] = request[r]
  <2> request[r] \in Req /\ InStep(request[r])
    BY DEF BaseInv, TypeOK, StepsOK
  <2>1. ASSUME request[r].op = "assign", request[r].at = "clone",
               NEW s \in request[r].total \ request[r].failed
        PROVE  \E p \in Pairs :
                 /\ p = <<request[r].course, s>>
                 /\ Settled(p)' \/ p \in request[r].todo \union request[r].missing
    <3>1. <<request[r].course, s>> \in Pairs
      BY <2>1 DEF Req, InStep, Pairs
    <3>2. PICK p \in Pairs : p = <<request[r].course, s>>
      BY <3>1
    <3>3. Settled(p) \/ p \in request[r].todo \union request[r].missing
      BY <2>1, <3>2 DEF ReachOK, Pending
    <3> QED BY <3>2, <3>3, SettledStays
  <2> QED BY <1>1, <2>1 DEF ReachOK, Pending
<1>2. CASE ~(request'[r].op = "assign" /\ request'[r].at = "clone")
  BY <1>2 DEF ReachOK
<1> QED BY <1>1, <1>2

LEMMA ReadingReaches ==
    ASSUME BaseInv, NEW r \in Requests, AssignReads(r)
    PROVE  ReachOK(r)'
<1> DEFINE active == {s \in Students : members[s] = "active"}
<1> request[r] \in Req
  BY DEF BaseInv, TypeOK
<1>0. request'[r] = [request[r] EXCEPT !.at = "clone", !.total = active,
                                       !.todo = {request[r].course} \X active]
  BY DEF AssignReads, BaseInv, TypeOK
<1>1. /\ request'[r].course = request[r].course
      /\ request'[r].total = active
      /\ request'[r].todo = {request[r].course} \X active
  BY <1>0 DEF Req
<1> QED BY <1>1 DEF ReachOK, Pending

LEMMA CloningReaches ==
    ASSUME BaseInv, [Next]_vars, NEW r \in Requests, ReachOK(r),
           \/ \E p \in Pairs : LooksUp(r, p)
           \/ Clones(r) \/ CloneFails(r)
    PROVE  ReachOK(r)'
<1> request[r] \in Req /\ InStep(request[r])
  BY DEF BaseInv, TypeOK, StepsOK
<1> DEFINE Kept == /\ request'[r].op = request[r].op /\ request'[r].course = request[r].course
                   /\ request'[r].total = request[r].total
                   /\ request[r].failed \subseteq request'[r].failed
                   /\ request[r].at = "clone"
<1>1. Kept
  <2>1. ASSUME NEW p \in Pairs, LooksUp(r, p)
        PROVE  /\ request[r].at = "clone"
               /\ request'[r] = [request[r] EXCEPT !.todo = @ \ {p},
                                    !.missing = IF AssignmentOf(p) THEN {} ELSE {p}]
    BY <2>1 DEF LooksUp, BaseInv, TypeOK
  <2>2. ASSUME Clones(r)
        PROVE  /\ request[r].at = "clone"
               /\ request'[r] = [request[r] EXCEPT !.missing = {}]
    BY <2>2 DEF Clones, BaseInv, TypeOK, InStep
  <2>3. ASSUME CloneFails(r)
        PROVE  \E p \in request[r].missing :
                 /\ request[r].at = "clone"
                 /\ request'[r] = [request[r] EXCEPT !.missing = {},
                                                     !.failed = @ \union {p[2]}]
    BY <2>3 DEF CloneFails, BaseInv, TypeOK, InStep
  <2>4. ASSUME NEW p \in Pairs, LooksUp(r, p)
        PROVE  Kept
    BY <2>1, <2>4 DEF Req
  <2>5. ASSUME Clones(r)
        PROVE  Kept
    BY <2>2, <2>5 DEF Req
  <2>6. ASSUME CloneFails(r)
        PROVE  Kept
    BY <2>3, <2>6 DEF Req
  <2> QED BY <2>4, <2>5, <2>6
<1>2. ASSUME NEW s \in request[r].total \ request'[r].failed, request[r].op = "assign"
      PROVE  \E p \in Pairs : p = <<request[r].course, s>> /\ (Settled(p)' \/ Pending(r, p)')
  <2>1. PICK p \in Pairs : p = <<request[r].course, s>>
    BY <1>2 DEF Req, InStep, Pairs
  <2>2. Settled(p) \/ Pending(r, p)
    BY <1>1, <1>2, <2>1 DEF ReachOK
  <2>3. CASE Settled(p)
    BY <2>1, <2>3, SettledStays
  <2>4. ASSUME NEW q \in Pairs, LooksUp(r, q), ~Settled(p)
        PROVE  Pending(r, p)'
    <3>1. /\ request'[r].todo = request[r].todo \ {q}
          /\ request'[r].missing = IF AssignmentOf(q) THEN {} ELSE {q}
          /\ request[r].missing = {}
      BY <2>4 DEF LooksUp, BaseInv, TypeOK, Req
    <3> QED BY <2>2, <2>4, <3>1 DEF Pending, AssignmentOf, Settled
  <2>5. ASSUME Clones(r), ~Settled(p)
        PROVE  Settled(p)' \/ Pending(r, p)'
    <3>1. PICK q \in request[r].missing :
            /\ assigned' = assigned \union {q}
            /\ request' = [request EXCEPT ![r].missing = {}]
      BY <2>5 DEF Clones
    <3>2. request'[r].todo = request[r].todo
      BY <3>1 DEF BaseInv, TypeOK, Req
    <3>3. request[r].missing = {q}
      BY DEF InStep
    <3> QED BY <2>2, <2>5, <3>1, <3>2, <3>3 DEF Pending, Settled
  <2>6. ASSUME CloneFails(r), ~Settled(p)
        PROVE  Pending(r, p)'
    <3>1. PICK q \in request[r].missing :
            request' = [request EXCEPT ![r].missing = {}, ![r].failed = @ \union {q[2]}]
      BY <2>6 DEF CloneFails
    <3>2. /\ request'[r].todo = request[r].todo
          /\ request'[r].failed = request[r].failed \union {q[2]}
      BY <3>1 DEF BaseInv, TypeOK, Req
    <3>3. request[r].missing = {q}
      BY DEF InStep
    <3>4. p # q
      BY <1>2, <2>1, <3>2
    <3> QED BY <2>2, <2>6, <3>2, <3>3, <3>4 DEF Pending
  <2> QED BY <2>1, <2>3, <2>4, <2>5, <2>6
<1> QED BY <1>1, <1>2 DEF ReachOK

\* Any other step leaves a request as it is, or not cloning for an assignment.
LEMMA OthersStand ==
    ASSUME BaseInv, [Next]_vars, NEW r \in Requests,
           ~(\/ AssignReads(r) \/ Clones(r) \/ CloneFails(r)
             \/ \E p \in Pairs : LooksUp(r, p))
    PROVE  \/ request'[r] = request[r]
           \/ ~(request'[r].op = "assign" /\ request'[r].at = "clone")
<1> DEFINE Stands == \/ request'[r] = request[r]
                     \/ ~(request'[r].op = "assign" /\ request'[r].at = "clone")
<1> request \in [Requests -> Req]
  BY DEF BaseInv, TypeOK
<1>1. CASE UNCHANGED request
  BY <1>1
<1>2. ASSUME NEW q \in Requests, NEW req, Begin(q, req), req.at # "clone"
      PROVE  Stands
  BY <1>2 DEF Begin
<1>3. ASSUME NEW q \in Requests, End(q)
      PROVE  Stands
  BY <1>3 DEF End, Idle
<1>4. ASSUME NEW q \in Requests, NEW step \in Step \ {"clone"}, Goto(q, step)
      PROVE  Stands
  BY <1>4 DEF Goto, Req
<1>5. ASSUME NEW q \in Requests, Work(q)
      PROVE  Stands
  <2>1. CASE AcceptChecks(q) \/ AcceptJoins(q) \/ AcceptMarks(q)
    BY <1>3, <1>4, <2>1 DEF AcceptChecks, AcceptJoins, AcceptMarks
  <2>2. CASE AcceptLists(q)
    <3>1. request'[q] = [request[q] EXCEPT !.at = "clone",
                            !.todo = LateCourses \X {request[q].student}]
      BY <2>2 DEF AcceptLists
    <3>2. request'[q].op = "accept"
      BY <2>2, <3>1 DEF AcceptLists, At, Req
    <3> QED BY <2>2, <3>2 DEF AcceptLists
  <2>3. CASE AcceptEnds(q) \/ Gone(q) \/ RegisterInserts(q) \/ ApproveWrites(q) \/ AssignEnds(q)
    BY <1>3, <2>3 DEF AcceptEnds, Gone, RegisterInserts, ApproveWrites, AssignEnds
  <2>4. ASSUME q # r, AssignReads(q) \/ Clones(q) \/ CloneFails(q)
                        \/ \E p \in Pairs : LooksUp(q, p)
        PROVE  request'[r] = request[r]
    BY <2>4 DEF AssignReads, Clones, CloneFails, LooksUp
  <2> QED BY <1>5, <2>1, <2>2, <2>3, <2>4 DEF Work
<1>6. ASSUME NEW q \in Requests, Dies(q)
      PROVE  Stands
  BY <1>3, <1>6 DEF Dies
<1>7. ASSUME NEW q \in Requests, NEW s \in Students,
             Accept(q, s) \/ \E status \in {"removed", "left"} : Go(q, s, status)
      PROVE  Stands
  BY <1>7 DEF Accept, Go, Begin, Idle
<1>8. ASSUME NEW q \in Requests, \/ \E t \in Templates : Register(q, t)
                                \/ \E c \in CourseIds : Approve(q, c) \/ Assign(q, c)
      PROVE  Stands
  <2>1. CASE \E t \in Templates : Register(q, t)
    BY <2>1 DEF Register, Begin, Idle
  <2>2. CASE \E c \in CourseIds : Approve(q, c)
    BY <2>2 DEF Approve, Begin, Idle
  <2>3. CASE \E c \in CourseIds : Assign(q, c)
    BY <2>3 DEF Assign, Begin, Idle
  <2> QED BY <1>8, <2>1, <2>2, <2>3
<1>9. CASE \/ \E s \in Students : Invite(s) \/ Revoke(s)
           \/ \E p \in Pairs : DeleteClone(p)
           \/ \E t \in Templates : DeleteTemplate(t)
           \/ UNCHANGED vars
  BY <1>1, <1>9 DEF Invite, Revoke, DeleteClone, DeleteTemplate, vars
<1> QED BY <1>5, <1>6, <1>7, <1>8, <1>9 DEF Next

LEMMA ReachInductive == ReachInv /\ [Next]_vars => ReachInv'
<1> SUFFICES ASSUME ReachInv, [Next]_vars
             PROVE  BaseInv' /\ \A r \in Requests : ReachOK(r)'
  BY DEF ReachInv
<1>1. BaseInv /\ BaseInv'
  BY BaseInductive DEF ReachInv
<1>2. ASSUME NEW r \in Requests
      PROVE  ReachOK(r)'
  <2>1. ReachOK(r)
    BY DEF ReachInv
  <2>2. CASE AssignReads(r)
    BY <1>1, <2>2, ReadingReaches
  <2>3. CASE \/ \E p \in Pairs : LooksUp(r, p)
             \/ Clones(r) \/ CloneFails(r)
    BY <1>1, <2>1, <2>3, CloningReaches
  <2>4. CASE ~(\/ AssignReads(r) \/ Clones(r) \/ CloneFails(r)
               \/ \E p \in Pairs : LooksUp(r, p))
    BY <1>1, <2>1, <2>4, OthersStand, ReachStays
  <2> QED BY <2>2, <2>3, <2>4
<1> QED BY <1>1, <1>2

LEMMA InitReach == Init => ReachInv
<1> SUFFICES ASSUME Init PROVE BaseInv /\ \A r \in Requests : ReachOK(r)
  BY DEF ReachInv
<1>1. \A r \in Requests : ReachOK(r)
  BY DEF Init, ReachOK, Idle
<1> QED BY <1>1, InitBase

\* In every behaviour the model's state has its type, and there are never more
\* requests in flight than the behaviour admits.
THEOREM TypeCorrect == Spec => [](TypeOK /\ Admitted)
<1>1. BaseInv => TypeOK /\ Admitted
  BY DEF BaseInv
<1> QED BY <1>1, InitBase, BaseInductive, PTL DEF Spec

\* An assignment that is finished has reached every member it read, but those whose
\* clone failed or was deleted: assign_course_events goes over all of them, and
\* clone_course_for_student skips only those who have a row.
THEOREM AssignmentReachesAll == Spec => AssignmentReaches
<1>1. ASSUME ReachInv, NEW r \in Requests, AssignEnds(r),
             NEW s \in request[r].total \ request[r].failed
      PROVE  \/ <<request[r].course, s>> \in assigned \union deleted
             \/ courses[request[r].course].status = "deleted"
  <2>1. /\ request[r].todo = {} /\ request[r].missing = {}
        /\ request[r].op = "assign" /\ request[r].at = "clone"
    BY <1>1 DEF AssignEnds, Cloned
  <2>2. ReachOK(r)
    BY <1>1 DEF ReachInv
  <2> QED BY <2>1, <2>2 DEF ReachOK, Pending, Settled
<1>2. ReachInv => [\A r \in Requests : AssignEnds(r) =>
          LET c == request[r].course IN
          \A s \in request[r].total \ request[r].failed :
              <<c, s>> \in assigned \union deleted \/ courses[c].status = "deleted"]_vars
  BY <1>1
<1> QED BY <1>2, InitReach, ReachInductive, PTL DEF Spec, AssignmentReaches

-----------------------------------------------------------------------------
(* The courses of a student. *)

LEMMA HoldersBounded ==
    ASSUME BaseInv, NEW p \in Pairs
    PROVE  /\ IsFiniteSet(Holders(p)) /\ Cardinality(Holders(p)) \in Nat
           /\ Cardinality(Holders(p)) <= limit
<1>1. Holders(p) \in SUBSET InFlight
  BY DEF Holders, InFlight, Idle
<1> QED BY <1>1, FS_Subset, FS_CardinalityType DEF BaseInv, Admitted, TypeOK

LEMMA HoldersBoundedNext ==
    ASSUME BaseInv', NEW p \in Pairs
    PROVE  /\ IsFiniteSet(Holders(p)') /\ Cardinality(Holders(p)') \in Nat
           /\ Cardinality(Holders(p)') <= limit'
<1>1. Holders(p)' \in SUBSET InFlight'
  BY DEF Holders, InFlight, Idle
<1> QED BY <1>1, FS_Subset, FS_CardinalityType DEF BaseInv, Admitted, TypeOK

\* What a step may do to a pair that it neither looks up nor clones nor deletes.
LeavesAlone(p) ==
    /\ clones'[p] = clones[p] /\ limit' = limit
    /\ p \in deleted' <=> p \in deleted
    /\ p \in assigned => p \in assigned' \/ courses'[p[1]].status = "deleted"
    /\ courses[p[1]].status = "deleted" => courses'[p[1]].status = "deleted"

LEMMA SpareStays ==
    ASSUME BaseInv, BaseInv', NEW p \in Pairs, SpareOK(p), LeavesAlone(p),
           Holders(p)' \subseteq Holders(p)
    PROVE  SpareOK(p)'
<1>1. /\ Cardinality(Holders(p)') <= Cardinality(Holders(p))
      /\ Cardinality(Holders(p)') \in Nat /\ Cardinality(Holders(p)) \in Nat
  BY HoldersBounded, FS_Subset, FS_CardinalityType
<1>2. clones[p] \in Nat /\ limit \in Nat
  BY DEF BaseInv, TypeOK
<1> HIDE DEF Holders
<1>3. SUFFICES ASSUME p \notin deleted'
               PROVE  /\ clones'[p] <= limit'
                      /\ courses'[p[1]].status # "deleted" =>
                            /\ p \notin assigned' => clones'[p] = 0
                            /\ clones'[p] + Cardinality(Holders(p)') <= limit'
  BY DEF SpareOK
<1>4. clones'[p] = clones[p] /\ limit' = limit
  BY DEF LeavesAlone
<1>5. p \notin deleted
  BY <1>3 DEF LeavesAlone
<1>6. clones[p] <= limit
  BY <1>5 DEF SpareOK
<1>7. ASSUME courses'[p[1]].status # "deleted"
      PROVE  /\ p \notin assigned' => clones[p] = 0
             /\ clones[p] + Cardinality(Holders(p)) <= limit
  BY <1>5, <1>7 DEF SpareOK, LeavesAlone
<1> QED BY <1>1, <1>2, <1>4, <1>6, <1>7

\* The requests that hold a pair, after a step of r that is not its lookup.
LEMMA HoldersShrink ==
    ASSUME BaseInv, [Next]_vars, NEW p \in Pairs,
           ~\E r \in Requests : LooksUp(r, p)
    PROVE  Holders(p)' \subseteq Holders(p)
<1> DEFINE Shrinks == \A r \in Requests : p \in request'[r].missing => p \in request[r].missing
<1> request \in [Requests -> Req]
  BY DEF BaseInv, TypeOK
<1>1. CASE UNCHANGED request
  BY <1>1 DEF Holders
<1>2. ASSUME NEW q \in Requests, NEW req, Begin(q, req), req.missing = {}
      PROVE  Shrinks
  BY <1>2 DEF Begin
<1>3. ASSUME NEW q \in Requests, End(q)
      PROVE  Shrinks
  BY <1>3 DEF End, Idle
<1>4. ASSUME NEW q \in Requests, NEW step, Goto(q, step)
      PROVE  Shrinks
  BY <1>4 DEF Goto, Req
<1>5. ASSUME NEW q \in Requests, Work(q)
      PROVE  Shrinks
  <2>1. CASE AcceptChecks(q) \/ AcceptJoins(q) \/ AcceptMarks(q)
    BY <1>3, <1>4, <2>1 DEF AcceptChecks, AcceptJoins, AcceptMarks
  <2>2. CASE AcceptLists(q)
    BY <2>2 DEF AcceptLists, Req
  <2>3. CASE AcceptEnds(q) \/ Gone(q) \/ RegisterInserts(q) \/ ApproveWrites(q) \/ AssignEnds(q)
    BY <1>3, <2>3 DEF AcceptEnds, Gone, RegisterInserts, ApproveWrites, AssignEnds
  <2>4. CASE AssignReads(q)
    BY <2>4 DEF AssignReads, Req
  <2>5. CASE Clones(q) \/ CloneFails(q)
    BY <2>5 DEF Clones, CloneFails, Req
  <2>6. ASSUME NEW o \in Pairs, LooksUp(q, o)
        PROVE  Shrinks
    <3>1. o # p
      BY <2>6
    <3> QED BY <2>6, <3>1 DEF LooksUp, Req
  <2> QED BY <1>5, <2>1, <2>2, <2>3, <2>4, <2>5, <2>6 DEF Work
<1>6. ASSUME NEW q \in Requests, Dies(q)
      PROVE  Shrinks
  BY <1>3, <1>6 DEF Dies
<1>7. ASSUME NEW q \in Requests, NEW s \in Students,
             Accept(q, s) \/ \E status \in {"removed", "left"} : Go(q, s, status)
      PROVE  Shrinks
  BY <1>7 DEF Accept, Go, Begin, Idle
<1>8. ASSUME NEW q \in Requests, \/ \E t \in Templates : Register(q, t)
                                \/ \E c \in CourseIds : Approve(q, c) \/ Assign(q, c)
      PROVE  Shrinks
  <2>1. CASE \E t \in Templates : Register(q, t)
    BY <2>1 DEF Register, Begin, Idle
  <2>2. CASE \E c \in CourseIds : Approve(q, c)
    BY <2>2 DEF Approve, Begin, Idle
  <2>3. CASE \E c \in CourseIds : Assign(q, c)
    BY <2>3 DEF Assign, Begin, Idle
  <2> QED BY <1>8, <2>1, <2>2, <2>3
<1>9. CASE \/ \E s \in Students : Invite(s) \/ Revoke(s)
           \/ \E o \in Pairs : DeleteClone(o)
           \/ \E t \in Templates : DeleteTemplate(t)
           \/ UNCHANGED vars
  BY <1>1, <1>9 DEF Invite, Revoke, DeleteClone, DeleteTemplate, vars
<1>10. Shrinks \/ UNCHANGED request
  BY <1>5, <1>6, <1>7, <1>8, <1>9 DEF Next, Invite, Revoke, DeleteClone, DeleteTemplate, vars
<1> QED BY <1>1, <1>10 DEF Holders

\* A step that does not clone p for anyone, nor delete it, leaves it alone.
LEMMA OthersLeaveAlone ==
    ASSUME BaseInv, [Next]_vars, NEW p \in Pairs, ~DeleteClone(p),
           \A r \in Requests : Clones(r) => p \notin request[r].missing
    PROVE  LeavesAlone(p)
<1> p[1] \in CourseIds
  BY DEF Pairs
<1>1. ASSUME UNCHANGED <<courses, assigned, clones, deleted, limit>>
      PROVE  LeavesAlone(p)
  BY <1>1 DEF LeavesAlone
<1>2. ASSUME NEW c \in CourseIds, NEW status \in CourseStatus, SetStatus(c, status),
             UNCHANGED <<assigned, clones, deleted, limit>>
      PROVE  LeavesAlone(p)
  BY <1>2 DEF SetStatus, LeavesAlone, BaseInv, TypeOK
<1>3. ASSUME NEW r \in Requests, Work(r)
      PROVE  LeavesAlone(p)
  <2> request[r] \in Req /\ InStep(request[r])
    BY DEF BaseInv, TypeOK, StepsOK
  <2>1. CASE AcceptChecks(r) \/ AcceptJoins(r) \/ AcceptMarks(r) \/ AcceptLists(r)
             \/ AcceptEnds(r) \/ Gone(r) \/ AssignReads(r) \/ CloneFails(r)
             \/ \E q \in Pairs : LooksUp(r, q)
    BY <1>1, <2>1 DEF AcceptChecks, AcceptJoins, AcceptMarks, AcceptLists, AcceptEnds,
                      Gone, AssignReads, CloneFails, LooksUp
  <2>2. CASE RegisterInserts(r)
    BY <2>2 DEF RegisterInserts, NoCourse, LeavesAlone, BaseInv, TypeOK
  <2>3. CASE ApproveWrites(r)
    BY <1>2, <2>3 DEF ApproveWrites, At, InStep
  <2>4. CASE AssignEnds(r)
    BY <1>2, <2>4 DEF AssignEnds, InStep
  <2>5. CASE Clones(r)
    BY <2>5 DEF Clones, LeavesAlone, BaseInv, TypeOK
  <2> QED BY <1>3, <2>1, <2>2, <2>3, <2>4, <2>5 DEF Work
<1>4. ASSUME NEW q \in Pairs, DeleteClone(q)
      PROVE  LeavesAlone(p)
  <2>1. q # p
    BY <1>4
  <2> QED BY <1>4, <2>1 DEF DeleteClone, LeavesAlone, BaseInv, TypeOK
<1>5. ASSUME NEW t \in Templates, DeleteTemplate(t)
      PROVE  LeavesAlone(p)
  BY <1>5 DEF DeleteTemplate, LeavesAlone, BaseInv, TypeOK
<1>6. ASSUME NEW r \in Requests, NEW s \in Students,
             Accept(r, s) \/ \E status \in {"removed", "left"} : Go(r, s, status)
      PROVE  LeavesAlone(p)
  BY <1>1, <1>6 DEF Accept, Go
<1>7. ASSUME NEW r \in Requests,
             \/ Dies(r)
             \/ \E t \in Templates : Register(r, t)
             \/ \E c \in CourseIds : Approve(r, c) \/ Assign(r, c)
      PROVE  LeavesAlone(p)
  BY <1>1, <1>7 DEF Dies, Register, Approve, Assign
<1>8. ASSUME NEW s \in Students, Invite(s) \/ Revoke(s)
      PROVE  LeavesAlone(p)
  BY <1>1, <1>8 DEF Invite, Revoke
<1>9. CASE UNCHANGED vars
  BY <1>1, <1>9 DEF vars
<1> QED BY <1>3, <1>4, <1>5, <1>6, <1>7, <1>8, <1>9 DEF Next

LEMMA CountInductive == CountInv /\ [Next]_vars => CountInv'
<1> SUFFICES ASSUME CountInv, [Next]_vars
             PROVE  BaseInv' /\ \A p \in Pairs : SpareOK(p)'
  BY DEF CountInv
<1>1. BaseInv /\ BaseInv'
  BY BaseInductive DEF CountInv
<1>2. ASSUME NEW p \in Pairs
      PROVE  SpareOK(p)'
  <2> USE <1>1
  <2>0. /\ SpareOK(p) /\ clones[p] \in Nat /\ limit \in Nat
        /\ request \in [Requests -> Req] /\ StepsOK
    BY DEF CountInv, BaseInv, TypeOK
  <2>1. CASE DeleteClone(p)
    BY <2>1 DEF DeleteClone, SpareOK
  <2>2. ASSUME NEW r \in Requests, LooksUp(r, p)
        PROVE  SpareOK(p)'
    <3>1. UNCHANGED <<courses, assigned, clones, deleted, limit>>
      BY <2>2 DEF LooksUp
    <3>2. CASE p \in assigned
      <4>1. request'[r].missing = {} /\ \A q \in Requests \ {r} : request'[q] = request[q]
        BY <2>0, <2>2, <3>2 DEF LooksUp, AssignmentOf, Req
      <4>2. Holders(p)' \subseteq Holders(p)
        BY <4>1 DEF Holders
      <4> QED BY <2>0, <3>1, <4>2, SpareStays DEF LeavesAlone
    <3>3. CASE p \notin assigned
      <4>1. Cardinality(Holders(p)') <= limit' /\ Cardinality(Holders(p)') \in Nat
        BY HoldersBoundedNext
      <4> HIDE DEF Holders
      <4> QED BY <2>0, <3>1, <3>3, <4>1 DEF SpareOK
    <3> QED BY <3>2, <3>3
  <2>3. ASSUME NEW r \in Requests, Clones(r), p \in request[r].missing
        PROVE  SpareOK(p)'
    <3>1. /\ courses[p[1]].status # "deleted"
          /\ clones' = [clones EXCEPT ![p] = @ + 1]
          /\ assigned' = assigned \union {p}
          /\ request' = [request EXCEPT ![r].missing = {}]
          /\ UNCHANGED <<courses, limit, deleted>>
      BY <2>0, <2>3 DEF Clones, StepsOK, InStep
    <3>2. Holders(p)' = Holders(p) \ {r} /\ r \in Holders(p)
      BY <2>0, <2>3, <3>1 DEF Holders, Req
    <3>3. IsFiniteSet(Holders(p)) /\ Cardinality(Holders(p)) \in Nat
      BY HoldersBounded
    <3>4. Cardinality(Holders(p)') = Cardinality(Holders(p)) - 1
          /\ Cardinality(Holders(p)') \in Nat
      BY <3>2, <3>3, HoldersBoundedNext, FS_RemoveElement
    <3>5. clones'[p] = clones[p] + 1
      BY <3>1 DEF BaseInv, TypeOK
    <3> HIDE DEF Holders
    <3> QED BY <2>0, <3>1, <3>3, <3>4, <3>5 DEF SpareOK
  <2>4. CASE /\ ~DeleteClone(p)
             /\ \A r \in Requests : Clones(r) => p \notin request[r].missing
             /\ ~\E r \in Requests : LooksUp(r, p)
    BY <2>0, <2>4, HoldersShrink, OthersLeaveAlone, SpareStays
  <2> QED BY <2>1, <2>2, <2>3, <2>4
<1> QED BY <1>1, <1>2

\* A student never has more courses of one assignment than requests could look for
\* its row before the first of them wrote it, and every one of them has its row:
\* clone_course_for_student looks outside the transaction that writes both.
THEOREM SpareCoursesBounded == Spec => []NoSpareCourses
<1>1. Init => CountInv
  <2> SUFFICES ASSUME Init PROVE BaseInv /\ \A p \in Pairs : SpareOK(p)
    BY DEF CountInv
  <2>1. BaseInv
    BY InitBase
  <2>2. ASSUME NEW p \in Pairs
        PROVE  SpareOK(p)
    <3>1. Cardinality(Holders(p)) <= limit /\ Cardinality(Holders(p)) \in Nat /\ limit \in Nat
      BY <2>1, HoldersBounded DEF BaseInv, TypeOK
    <3>2. clones[p] = 0
      BY DEF Init
    <3> HIDE DEF Holders
    <3> QED BY <3>1, <3>2 DEF SpareOK
  <2> QED BY <2>1, <2>2
<1>2. CountInv => NoSpareCourses
  BY DEF CountInv, SpareOK, NoSpareCourses
<1> QED BY <1>1, <1>2, CountInductive, PTL DEF Spec

-----------------------------------------------------------------------------
(* One request at a time. *)

\* One request in flight is the only one.
LEMMA Solo ==
    ASSUME BaseInv, limit = 1, NEW r \in Requests, request[r] # Idle
    PROVE  \A q \in Requests \ {r} : request[q] = Idle
<1> SUFFICES ASSUME NEW q \in Requests \ {r}, request[q] # Idle
             PROVE  FALSE
  OBVIOUS
<1>1. {r, q} \subseteq InFlight
  BY DEF InFlight
<1>2. Cardinality({r}) = 1 /\ IsFiniteSet({r})
  BY FS_Singleton
<1>3. Cardinality({r} \union {q}) = 2 /\ {r} \union {q} = {r, q}
  BY <1>2, FS_AddElement
<1>4. Cardinality({r, q}) <= Cardinality(InFlight) /\ Cardinality(InFlight) \in Nat
  BY <1>1, FS_Subset, FS_CardinalityType DEF BaseInv, Admitted
<1> QED BY <1>3, <1>4 DEF BaseInv, Admitted

\* No step but a new membership or the end of an assignment opens a gap, and no
\* step but one of a request in flight closes a membership or ends an acceptance.
Calm ==
    /\ members' = members
    /\ \A c \in CourseIds : courses[c].status = "deleted" => courses'[c].status = "deleted"
    /\ \A p \in Pairs : Gap(p)' => Gap(p)

LEMMA CalmWithoutWrites ==
    ASSUME UNCHANGED <<members, courses, assigned, deleted>>
    PROVE  Calm
BY DEF Calm, Gap, Settled

LEMMA AroundKeepsAlone ==
    ASSUME AloneInv, ReachInv', Alone,
           UNCHANGED request, Calm
    PROVE  GapsHeld' /\ \A r \in Requests : TotalHeld(r)'
<1>1. request \in [Requests -> Req] /\ \A r \in Requests : InStep(request[r])
  BY DEF AloneInv, ReachInv, BaseInv, TypeOK, StepsOK
<1>2. ASSUME NEW p \in Pairs, Gap(p)'
      PROVE  \E r \in Requests : Joining(r, p)'
  BY <1>2 DEF AloneInv, GapsHeld, Calm, Joining, Pending
<1>3. ASSUME NEW r \in Requests
      PROVE  TotalHeld(r)'
  BY <1>1, <1>3 DEF AloneInv, TotalHeld, Calm, InStep
<1> QED BY <1>2, <1>3 DEF GapsHeld

LEMMA BeginningKeepsAlone ==
    ASSUME AloneInv, ReachInv', Alone, NEW r \in Requests, NEW req,
           Begin(r, req), req.at # "clone",
           UNCHANGED <<members, courses, assigned, deleted>>
    PROVE  GapsHeld' /\ \A q \in Requests : TotalHeld(q)'
<1>1. request \in [Requests -> Req] /\ \A q \in Requests : InStep(request[q])
  BY DEF AloneInv, ReachInv, BaseInv, TypeOK, StepsOK
<1>2. /\ request[r] = Idle /\ request'[r] = req
      /\ \A q \in Requests \ {r} : request'[q] = request[q]
  BY <1>1 DEF Begin
<1>3. ASSUME NEW p \in Pairs, Gap(p)'
      PROVE  \E q \in Requests : Joining(q, p)'
  <2>1. PICK q \in Requests : Joining(q, p)
    BY <1>3 DEF AloneInv, GapsHeld, Gap, Settled
  <2>2. q # r
    BY <1>2, <2>1 DEF Joining, Idle
  <2> QED BY <1>2, <2>1, <2>2 DEF Joining, Pending
<1>4. ASSUME NEW q \in Requests
      PROVE  TotalHeld(q)'
  BY <1>2, <1>4 DEF AloneInv, TotalHeld
<1> QED BY <1>3, <1>4 DEF GapsHeld

\* A request that is alone: the gaps are its own, and so is what is to be held.
LEMMA TurnKeepsAlone ==
    ASSUME AloneInv, Alone, NEW r \in Requests, Turn(r),
           TotalHeld(r)',
           \A p \in Pairs : Gap(p)' => Joining(r, p)'
    PROVE  GapsHeld' /\ \A q \in Requests : TotalHeld(q)'
<1>1. \A q \in Requests \ {r} : request[q] = Idle
  BY Solo DEF Turn, AloneInv, ReachInv, Alone
<1>2. \A q \in Requests \ {r} : request'[q] = Idle
  BY <1>1 DEF Turn, AloneInv, ReachInv, BaseInv, TypeOK
<1> QED BY <1>2 DEF GapsHeld, TotalHeld, Idle

LEMMA GapsOfTheOnlyRequest ==
    ASSUME AloneInv, Alone, NEW r \in Requests, request[r] # Idle, NEW p \in Pairs, Gap(p)
    PROVE  Joining(r, p)
<1>1. \A q \in Requests \ {r} : request[q] = Idle
  BY Solo DEF AloneInv, ReachInv, Alone
<1> QED BY <1>1 DEF AloneInv, GapsHeld, Joining, Idle

LEMMA AcceptanceKeepsAlone ==
    ASSUME AloneInv, Alone, [Next]_vars, NEW r \in Requests,
           AcceptChecks(r) \/ AcceptJoins(r) \/ AcceptMarks(r) \/ AcceptLists(r) \/ AcceptEnds(r)
    PROVE  GapsHeld' /\ \A q \in Requests : TotalHeld(q)'
<1> request \in [Requests -> Req] /\ request[r] \in Req /\ InStep(request[r])
  BY DEF AloneInv, ReachInv, BaseInv, TypeOK, StepsOK
<1> request[r] # Idle
  BY DEF AcceptChecks, AcceptJoins, AcceptMarks, AcceptLists, AcceptEnds, At, Idle
<1>1. \A p \in Pairs : Gap(p) => Joining(r, p)
  BY GapsOfTheOnlyRequest
<1>2. CASE AcceptChecks(r)
  <2>1. Turn(r) /\ request'[r].at # "clone"
    BY <1>2 DEF AcceptChecks, Goto, End, Turn, Idle, Req
  <2>2. \A p \in Pairs : ~Gap(p)'
    BY <1>1, <1>2 DEF AcceptChecks, At, Joining, Pending, InStep, Gap, Settled
  <2> QED BY <2>1, <2>2, TurnKeepsAlone DEF TotalHeld
<1>3. CASE AcceptJoins(r)
  <2>1. request'[r] = [request[r] EXCEPT !.at = "mark"]
    BY <1>3 DEF AcceptJoins, Goto
  <2>2. /\ Turn(r) /\ request'[r].at = "mark" /\ request'[r].op = "accept"
        /\ request'[r].student = request[r].student
    BY <1>3, <2>1 DEF AcceptJoins, At, Goto, Turn, Req
  <2>3. ASSUME NEW p \in Pairs, Gap(p)'
        PROVE  p[2] = request[r].student
    <3>1. p[2] \in Students
      BY DEF Pairs
    <3>2. ~Gap(p)
      BY <1>1, <1>3 DEF AcceptJoins, At, Joining, Pending, InStep
    <3> QED BY <1>3, <2>3, <3>1, <3>2
            DEF AcceptJoins, Gap, Settled, AloneInv, ReachInv, BaseInv, TypeOK
  <2> QED BY <2>2, <2>3, TurnKeepsAlone DEF TotalHeld, Joining
<1>4. CASE AcceptMarks(r)
  <2>1. request'[r] = [request[r] EXCEPT !.at = "list"]
    BY <1>4 DEF AcceptMarks, Goto
  <2>2. /\ Turn(r) /\ request'[r].at = "list" /\ request'[r].op = "accept"
        /\ request'[r].student = request[r].student
    BY <1>4, <2>1 DEF AcceptMarks, At, Goto, Turn, Req
  <2>3. ASSUME NEW p \in Pairs, Gap(p)'
        PROVE  p[2] = request[r].student
    BY <1>1, <1>4, <2>3 DEF AcceptMarks, Gap, Settled, Joining
  <2> QED BY <2>2, <2>3, TurnKeepsAlone DEF TotalHeld, Joining
<1>5. CASE AcceptLists(r)
  <2>1. request'[r] = [request[r] EXCEPT !.at = "clone",
                          !.todo = LateCourses \X {request[r].student}]
    BY <1>5 DEF AcceptLists
  <2>2. /\ Turn(r) /\ request'[r].op = "accept"
        /\ request'[r].student = request[r].student
        /\ request'[r].todo = LateCourses \X {request[r].student}
    BY <1>5, <2>1 DEF AcceptLists, At, Turn, Req
  <2>3. ASSUME NEW p \in Pairs, Gap(p)'
        PROVE  p[2] = request[r].student /\ p \in request'[r].todo
    <3>1. Gap(p)
      BY <1>5, <2>3 DEF AcceptLists, Gap, Settled
    <3>2. p[2] = request[r].student /\ p[1] \in LateCourses /\ p = <<p[1], p[2]>>
      BY <1>1, <3>1 DEF Joining, Gap, LateCourses, Pairs
    <3> QED BY <2>2, <3>2
  <2> QED BY <2>2, <2>3, TurnKeepsAlone DEF TotalHeld, Joining, Pending
<1>6. CASE AcceptEnds(r)
  <2>1. Turn(r) /\ request'[r] = Idle
    BY <1>6 DEF AcceptEnds, End, Turn
  <2>2. \A p \in Pairs : ~Gap(p)'
    BY <1>1, <1>6 DEF AcceptEnds, Cloned, Joining, Pending, Gap, Settled
  <2> QED BY <2>1, <2>2, TurnKeepsAlone DEF TotalHeld, Idle
<1> QED BY <1>2, <1>3, <1>4, <1>5, <1>6

LEMMA WritesKeepAlone ==
    ASSUME AloneInv, Alone, [Next]_vars, NEW r \in Requests,
           \/ Gone(r) \/ RegisterInserts(r) \/ ApproveWrites(r)
           \/ AssignReads(r) \/ AssignEnds(r)
    PROVE  GapsHeld' /\ \A q \in Requests : TotalHeld(q)'
<1> request \in [Requests -> Req] /\ request[r] \in Req /\ InStep(request[r])
  BY DEF AloneInv, ReachInv, BaseInv, TypeOK, StepsOK
<1> TypeOK /\ BaseInv
  BY DEF AloneInv, ReachInv, BaseInv
<1> request[r] # Idle
  BY InFlightWhere DEF Gone, RegisterInserts, ApproveWrites, AssignReads, AssignEnds, At
<1>1. \A p \in Pairs : Gap(p) => Joining(r, p)
  BY GapsOfTheOnlyRequest
<1>2. \A p \in Pairs : ~Gap(p)
  BY <1>1 DEF Gone, RegisterInserts, ApproveWrites, AssignReads, AssignEnds, At, Joining
<1>3. \A p \in Pairs : p[1] \in CourseIds /\ p[2] \in Students /\ p = <<p[1], p[2]>>
  BY DEF Pairs
<1>4. ASSUME End(r), \A p \in Pairs : ~Gap(p)'
      PROVE  GapsHeld' /\ \A q \in Requests : TotalHeld(q)'
  <2>1. Turn(r) /\ request'[r] = Idle
    BY <1>4 DEF End, Turn
  <2> QED BY <1>4, <2>1, TurnKeepsAlone DEF TotalHeld, Idle
<1>5. CASE Gone(r)
  <2>1. \A p \in Pairs : ~Gap(p)'
    BY <1>2, <1>3, <1>5 DEF Gone, Gap, Settled, TypeOK
  <2> QED BY <1>4, <1>5, <2>1 DEF Gone
<1>6. CASE RegisterInserts(r)
  <2>1. \A p \in Pairs : ~Gap(p)'
    BY <1>2, <1>3, <1>6 DEF RegisterInserts, Gap, Settled, NoCourse, TypeOK
  <2> QED BY <1>4, <1>6, <2>1 DEF RegisterInserts
<1>7. CASE ApproveWrites(r)
  <2>1. \A p \in Pairs : ~Gap(p)'
    BY <1>2, <1>3, <1>7 DEF ApproveWrites, SetStatus, Gap, Settled, TypeOK
  <2> QED BY <1>4, <1>7, <2>1 DEF ApproveWrites
<1>8. CASE AssignReads(r)
  <2> DEFINE active == {s \in Students : members[s] = "active"}
  <2>1. request'[r] = [request[r] EXCEPT !.at = "clone", !.total = active,
                                         !.todo = {request[r].course} \X active]
    BY <1>8 DEF AssignReads
  <2>2. Turn(r) /\ request'[r].total = active /\ request'[r].failed = {}
    BY <1>8, <2>1 DEF AssignReads, At, Turn, Req, InStep
  <2>3. TotalHeld(r)'
    BY <1>8, <2>2 DEF TotalHeld, AssignReads
  <2>4. \A p \in Pairs : ~Gap(p)'
    BY <1>2, <1>8 DEF AssignReads, Gap, Settled
  <2> QED BY <2>2, <2>3, <2>4, TurnKeepsAlone
<1>9. CASE AssignEnds(r)
  <2>1. ASSUME NEW p \in Pairs, Gap(p)'
        PROVE  FALSE
    <3>1. members[p[2]] = "active" /\ courses'[p[1]].status = "assigned" /\ ~Settled(p)'
      BY <1>9, <2>1 DEF AssignEnds, Gap
    <3>2. ~Settled(p)
      BY <3>1, SettledStays DEF AloneInv, ReachInv
    <3>3. p[1] = request[r].course
      BY <1>2, <1>3, <1>9, <3>1, <3>2 DEF AssignEnds, SetStatus, Gap, TypeOK
    <3>4. request[r].at = "clone" /\ request[r].op = "assign"
          /\ request[r].todo = {} /\ request[r].missing = {}
      BY <1>9 DEF AssignEnds, Cloned
    <3>5. p[2] \in request[r].total \ request[r].failed
      BY <1>3, <3>1, <3>2, <3>3, <3>4 DEF AloneInv, TotalHeld, Settled
    <3>6. Settled(p) \/ Pending(r, p)
      BY <1>3, <3>3, <3>4, <3>5 DEF AloneInv, ReachInv, ReachOK
    <3> QED BY <3>2, <3>4, <3>6 DEF Pending
  <2> QED BY <1>4, <1>9, <2>1 DEF AssignEnds
<1> QED BY <1>5, <1>6, <1>7, <1>8, <1>9

LEMMA CloningKeepsAlone ==
    ASSUME AloneInv, Alone, Alone', [Next]_vars, NEW r \in Requests,
           \/ \E p \in Pairs : LooksUp(r, p)
           \/ Clones(r) \/ CloneFails(r)
    PROVE  GapsHeld' /\ \A q \in Requests : TotalHeld(q)'
<1> request \in [Requests -> Req] /\ request[r] \in Req /\ InStep(request[r])
  BY DEF AloneInv, ReachInv, BaseInv, TypeOK, StepsOK
<1>1. \A p \in Pairs : Gap(p) => Joining(r, p) \/ request[r] = Idle
  BY GapsOfTheOnlyRequest
<1>2. TotalHeld(r)
  BY DEF AloneInv
<1>3. ASSUME NEW p \in Pairs, LooksUp(r, p)
      PROVE  GapsHeld' /\ \A q \in Requests : TotalHeld(q)'
  <2>1. /\ request'[r] = [request[r] EXCEPT !.todo = @ \ {p},
                              !.missing = IF AssignmentOf(p) THEN {} ELSE {p}]
        /\ request[r].at = "clone" /\ request[r].missing = {}
        /\ UNCHANGED <<members, courses, assigned, deleted>>
    BY <1>3 DEF LooksUp
  <2> request[r] # Idle
    BY <2>1 DEF Idle
  <2>2. /\ Turn(r)
        /\ \A f \in {"op", "at", "student", "course", "total", "failed"} :
              request'[r][f] = request[r][f]
        /\ request'[r].todo = request[r].todo \ {p}
        /\ request'[r].missing = IF AssignmentOf(p) THEN {} ELSE {p}
    BY <1>3, <2>1 DEF LooksUp, Turn, Req
  <2>3. TotalHeld(r)'
    BY <1>2, <2>1, <2>2 DEF TotalHeld
  <2>4. ASSUME NEW o \in Pairs, Gap(o)'
        PROVE  Joining(r, o)'
    <3>1. Gap(o)
      BY <2>1, <2>4 DEF Gap, Settled
    <3>2. Joining(r, o)
      BY <1>1, <2>1, <3>1
    <3>3. o \notin assigned
      BY <3>1 DEF Gap, Settled
    <3> QED BY <2>1, <2>2, <3>2, <3>3 DEF Joining, Pending, AssignmentOf
  <2> QED BY <2>2, <2>3, <2>4, TurnKeepsAlone
<1>4. ASSUME Clones(r)
      PROVE  GapsHeld' /\ \A q \in Requests : TotalHeld(q)'
  <2>1. PICK p \in request[r].missing :
          /\ assigned' = assigned \union {p}
          /\ request' = [request EXCEPT ![r].missing = {}]
          /\ UNCHANGED <<members, courses, deleted>>
    BY <1>4 DEF Clones
  <2>2. request[r].missing = {p} /\ request[r].at = "clone" /\ request[r] # Idle
    BY DEF InStep, Idle
  <2>3. request'[r] = [request[r] EXCEPT !.missing = {}]
    BY <2>1
  <2>4. /\ Turn(r)
        /\ \A f \in {"op", "at", "student", "course", "total", "failed", "todo"} :
              request'[r][f] = request[r][f]
    BY <2>1, <2>2, <2>3 DEF Turn, Req
  <2>5. TotalHeld(r)'
    BY <1>2, <2>1, <2>4 DEF TotalHeld
  <2>6. ASSUME NEW o \in Pairs, Gap(o)'
        PROVE  Joining(r, o)'
    <3>1. Gap(o) /\ o # p
      BY <2>1, <2>6 DEF Gap, Settled
    <3>2. Joining(r, o)
      BY <1>1, <2>2, <3>1
    <3> QED BY <2>2, <2>4, <3>1, <3>2 DEF Joining, Pending
  <2> QED BY <2>4, <2>5, <2>6, TurnKeepsAlone
<1>5. ASSUME CloneFails(r)
      PROVE  GapsHeld' /\ \A q \in Requests : TotalHeld(q)'
  <2>1. PICK p \in request[r].missing :
          /\ \/ courses[p[1]].status = "deleted"
             \/ faults' = faults + 1
          /\ request' = [request EXCEPT ![r].missing = {}, ![r].failed = @ \union {p[2]}]
          /\ UNCHANGED <<members, courses, assigned, deleted>>
    BY <1>5 DEF CloneFails
  <2>2. request[r].missing = {p} /\ request[r].at = "clone" /\ request[r] # Idle
    BY DEF InStep, Idle
  <2>3. courses[p[1]].status = "deleted"
    BY <2>1 DEF Alone
  <2>4. request'[r] = [request[r] EXCEPT !.missing = {}, !.failed = @ \union {p[2]}]
    BY <2>1
  <2>5. /\ Turn(r)
        /\ \A f \in {"op", "at", "student", "course", "total", "todo"} :
              request'[r][f] = request[r][f]
    BY <2>1, <2>2, <2>4 DEF Turn, Req
  <2>6. TotalHeld(r)'
    BY <1>2, <2>1, <2>2, <2>3, <2>5 DEF TotalHeld, InStep
  <2>7. ASSUME NEW o \in Pairs, Gap(o)'
        PROVE  Joining(r, o)'
    <3>1. Gap(o) /\ o # p
      BY <2>1, <2>3, <2>7 DEF Gap, Settled
    <3>2. Joining(r, o)
      BY <1>1, <2>2, <3>1
    <3> QED BY <2>2, <2>5, <3>1, <3>2 DEF Joining, Pending
  <2> QED BY <2>5, <2>6, <2>7, TurnKeepsAlone
<1> QED BY <1>3, <1>4, <1>5

LEMMA AloneBefore == BaseInv /\ [Next]_vars /\ Alone' => Alone
<1> SUFFICES ASSUME BaseInv, [Next]_vars, Alone' PROVE Alone
  OBVIOUS
<1> limit \in Nat /\ faults \in Nat
  BY DEF BaseInv, TypeOK
<1>1. ASSUME limit' = limit, faults' = faults \/ faults' = faults + 1
      PROVE  Alone
  BY <1>1 DEF Alone
<1>2. ASSUME NEW r \in Requests, Work(r)
      PROVE  limit' = limit /\ (faults' = faults \/ faults' = faults + 1)
  <2>1. CASE AcceptChecks(r) \/ AcceptJoins(r) \/ AcceptMarks(r) \/ AcceptLists(r)
             \/ AcceptEnds(r) \/ Gone(r)
    BY <2>1 DEF AcceptChecks, AcceptJoins, AcceptMarks, AcceptLists, AcceptEnds, Gone
  <2>2. CASE RegisterInserts(r) \/ ApproveWrites(r) \/ AssignReads(r) \/ AssignEnds(r)
    BY <2>2 DEF RegisterInserts, ApproveWrites, AssignReads, AssignEnds
  <2>3. CASE Clones(r) \/ CloneFails(r) \/ \E p \in Pairs : LooksUp(r, p)
    BY <2>3 DEF Clones, CloneFails, LooksUp
  <2> QED BY <1>2, <2>1, <2>2, <2>3 DEF Work
<1>3. ASSUME NEW r \in Requests,
             \/ Dies(r)
             \/ \E s \in Students : Accept(r, s) \/ \E status \in {"removed", "left"} : Go(r, s, status)
             \/ \E t \in Templates : Register(r, t)
             \/ \E c \in CourseIds : Approve(r, c) \/ Assign(r, c)
      PROVE  limit' = limit /\ (faults' = faults \/ faults' = faults + 1)
  BY <1>3 DEF Dies, Accept, Go, Register, Approve, Assign
<1>4. ASSUME \/ \E s \in Students : Invite(s) \/ Revoke(s)
             \/ \E p \in Pairs : DeleteClone(p)
             \/ \E t \in Templates : DeleteTemplate(t)
             \/ UNCHANGED vars
      PROVE  limit' = limit /\ faults' = faults
  BY <1>4 DEF Invite, Revoke, DeleteClone, DeleteTemplate, vars
<1> QED BY <1>1, <1>2, <1>3, <1>4 DEF Next

LEMMA AloneInductive == AloneInv /\ [Next]_vars => AloneInv'
<1> SUFFICES ASSUME AloneInv, [Next]_vars
             PROVE  ReachInv' /\ (Alone' => GapsHeld' /\ \A r \in Requests : TotalHeld(r)')
  BY DEF AloneInv
<1>1. ReachInv' /\ BaseInv
  BY ReachInductive DEF AloneInv, ReachInv
<1>2. ASSUME Alone'
      PROVE  GapsHeld' /\ \A r \in Requests : TotalHeld(r)'
  <2>1. Alone
    BY <1>1, <1>2, AloneBefore
  <2>2. ASSUME NEW r \in Requests, Work(r)
        PROVE  GapsHeld' /\ \A q \in Requests : TotalHeld(q)'
    BY <1>2, <2>1, <2>2, AcceptanceKeepsAlone, WritesKeepAlone, CloningKeepsAlone DEF Work
  <2>3. ASSUME NEW r \in Requests,
               \/ \E s \in Students : Accept(r, s)
               \/ \E s \in Students : \E status \in {"removed", "left"} : Go(r, s, status)
               \/ \E t \in Templates : Register(r, t)
               \/ \E c \in CourseIds : Approve(r, c) \/ Assign(r, c)
        PROVE  GapsHeld' /\ \A q \in Requests : TotalHeld(q)'
    <3>1. UNCHANGED <<members, courses, assigned, deleted>>
      BY <2>3 DEF Accept, Go, Register, Approve, Assign
    <3>2. \E req : Begin(r, req) /\ req.at # "clone"
      <4>1. ASSUME NEW s \in Students, Accept(r, s)
            PROVE  \E req : Begin(r, req) /\ req.at # "clone"
        <5> DEFINE started == [Idle EXCEPT !.op = "accept", !.at = "membership", !.student = s]
        <5>1. started.at # "clone"
          BY DEF Idle
        <5>2. Begin(r, started)
          BY <4>1 DEF Accept
        <5> HIDE DEF started
        <5> QED BY <5>1, <5>2
      <4>2. ASSUME NEW s \in Students, NEW status \in {"removed", "left"}, Go(r, s, status)
            PROVE  \E req : Begin(r, req) /\ req.at # "clone"
        <5> DEFINE started == [Idle EXCEPT !.op = status, !.at = "write", !.student = s]
        <5>1. started.at # "clone"
          BY DEF Idle
        <5>2. Begin(r, started)
          BY <4>2 DEF Go
        <5> HIDE DEF started
        <5> QED BY <5>1, <5>2
      <4>3. ASSUME NEW t \in Templates, Register(r, t)
            PROVE  \E req : Begin(r, req) /\ req.at # "clone"
        <5> DEFINE started == [Idle EXCEPT !.op = "register", !.at = "insert", !.template = t]
        <5>1. started.at # "clone"
          BY DEF Idle
        <5>2. Begin(r, started)
          BY <4>3 DEF Register
        <5> HIDE DEF started
        <5> QED BY <5>1, <5>2
      <4>4. ASSUME NEW c \in CourseIds, Approve(r, c)
            PROVE  \E req : Begin(r, req) /\ req.at # "clone"
        <5> DEFINE started == [Idle EXCEPT !.op = "approve", !.at = "write", !.course = c]
        <5>1. started.at # "clone"
          BY DEF Idle
        <5>2. Begin(r, started)
          BY <4>4 DEF Approve
        <5> HIDE DEF started
        <5> QED BY <5>1, <5>2
      <4>5. ASSUME NEW c \in CourseIds, Assign(r, c)
            PROVE  \E req : Begin(r, req) /\ req.at # "clone"
        <5> DEFINE started == [Idle EXCEPT !.op = "assign", !.at = "members", !.course = c]
        <5>1. started.at # "clone"
          BY DEF Idle
        <5>2. Begin(r, started)
          BY <4>5 DEF Assign
        <5> HIDE DEF started
        <5> QED BY <5>1, <5>2
      <4> QED BY <2>3, <4>1, <4>2, <4>3, <4>4, <4>5
    <3> QED BY <1>1, <2>1, <3>1, <3>2, BeginningKeepsAlone
  <2>4. ASSUME NEW r \in Requests, Dies(r)
        PROVE  FALSE
    BY <1>1, <1>2, <2>4 DEF Dies, Alone, BaseInv, TypeOK
  <2>5. ASSUME UNCHANGED request, Calm
        PROVE  GapsHeld' /\ \A q \in Requests : TotalHeld(q)'
    BY <1>1, <2>1, <2>5, AroundKeepsAlone
  <2>6. ASSUME NEW s \in Students, Invite(s) \/ Revoke(s)
        PROVE  GapsHeld' /\ \A q \in Requests : TotalHeld(q)'
    BY <2>5, <2>6, CalmWithoutWrites DEF Invite, Revoke
  <2>7. ASSUME NEW p \in Pairs, DeleteClone(p)
        PROVE  GapsHeld' /\ \A q \in Requests : TotalHeld(q)'
    <3>1. \A o \in Pairs : Gap(o)' => Gap(o)
      BY <1>1, <2>7, SettledStays DEF DeleteClone, Gap
    <3> QED BY <2>5, <2>7, <3>1 DEF DeleteClone, Calm
  <2>8. ASSUME NEW t \in Templates, DeleteTemplate(t)
        PROVE  GapsHeld' /\ \A q \in Requests : TotalHeld(q)'
    <3>1. \A c \in CourseIds : courses'[c] = courses[c] \/ courses'[c].status = "deleted"
      BY <2>8 DEF DeleteTemplate
    <3>2. \A o \in Pairs : o[1] \in CourseIds
      BY DEF Pairs
    <3>3. \A o \in Pairs : Gap(o)' => Gap(o)
      BY <1>1, <2>8, <3>1, <3>2, SettledStays DEF DeleteTemplate, Gap
    <3> QED BY <2>5, <2>8, <3>1, <3>3 DEF DeleteTemplate, Calm
  <2>9. CASE UNCHANGED vars
    BY <2>5, <2>9, CalmWithoutWrites DEF vars
  <2> QED BY <2>2, <2>3, <2>4, <2>6, <2>7, <2>8, <2>9 DEF Next
<1> QED BY <1>1, <1>2

\* One request at a time, and without faults, nobody is left out: between requests
\* every member has every assigned course, by accept_invitation if the course was
\* assigned first and by assign_course_events if the member joined first.
THEOREM NobodyLeftOut == Spec => []MembersHaveCourses
<1>1. Init => AloneInv
  <2>1. Init => GapsHeld /\ \A r \in Requests : TotalHeld(r)
    BY DEF Init, GapsHeld, Gap, TotalHeld, Idle, Pairs
  <2> QED BY <2>1, InitReach DEF AloneInv
<1>2. AloneInv => MembersHaveCourses
  <2> SUFFICES ASSUME AloneInv, limit = 1, faults = 0, InFlight = {},
                      NEW s \in Students, NEW c \in CourseIds,
                      members[s] = "active", courses[c].status = "assigned",
                      <<c, s>> \notin assigned \union deleted
               PROVE  FALSE
    BY DEF MembersHaveCourses
  <2>1. <<c, s>> \in Pairs /\ Gap(<<c, s>>)
    BY DEF Gap, Settled, Pairs
  <2>2. PICK r \in Requests : Joining(r, <<c, s>>)
    BY <2>1 DEF AloneInv, Alone, GapsHeld
  <2>3. request[r] = Idle
    BY DEF InFlight
  <2> QED BY <2>2, <2>3 DEF Joining, Idle
<1> QED BY <1>1, <1>2, AloneInductive, PTL DEF Spec
=============================================================================
