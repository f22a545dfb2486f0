-------------------------- MODULE ClassroomAssignment --------------------------
(* A classroom's invitations, its members and the courses that are cloned for  *)
(* them: core/classroom_service.py over db/institution.py. Every statement of   *)
(* a request is a step of its own, except the clone itself, which is one        *)
(* transaction; requests run side by side, and one may die between two steps.   *)
EXTENDS Naturals, FiniteSets

CONSTANTS
    Students,        \* who may be invited
    Templates,       \* the teacher's own courses
    CourseIds,       \* ids of classroom courses, naturals: later ones are larger
    Requests,        \* the requests that can be in flight
    Limits,          \* how many may be in flight at once, fixed in a behaviour
    MaxFaults,       \* requests that die and clones that fail
    MaxDeletions     \* clones their students delete

ASSUME CourseIdsAreOrdered == CourseIds \subseteq Nat
ASSUME BoundAssumption == Limits \union {MaxFaults, MaxDeletions} \subseteq Nat

VARIABLES
    invitations,  \* invitations[s]: the row of classroom_invitations
    members,      \* members[s]: the status in classroom_members
    templates,    \* the templates that exist
    courses,      \* courses[c]: template and status of a classroom course
    assigned,     \* the rows of course_assignments, pairs <<course, student>>
    clones,       \* clones[p]: the courses a student has that were cloned for p
    request,      \* request[r]: the request in flight, or Idle
    limit,        \* how many requests may be in flight
    deleted,      \* history: the pairs whose student deleted the clone
    faults        \* the faults so far

vars == <<invitations, members, templates, courses, assigned, clones, request,
          limit, deleted, faults>>

Pairs == CourseIds \X Students

NoCourse == [template |-> "none", status |-> "none"]

\* A request: what it does, its next step, its student and course, the clones it
\* still has to make, the one it has found missing, and, of an assignment, the
\* members it has read and those whose clone failed.
Idle == [op |-> "idle", at |-> "idle", student |-> "none", course |-> 0,
         template |-> "none", todo |-> {}, missing |-> {}, total |-> {},
         failed |-> {}]

InFlight == {r \in Requests : request[r] # Idle}

Init ==
    /\ invitations = [s \in Students |-> "none"]
    /\ members = [s \in Students |-> "none"]
    /\ templates = Templates
    /\ courses = [c \in CourseIds |-> NoCourse]
    /\ assigned = {}
    /\ clones = [p \in Pairs |-> 0]
    /\ request = [r \in Requests |-> Idle]
    /\ limit \in Limits
    /\ deleted = {}
    /\ faults = 0

-----------------------------------------------------------------------------
(* The requests. *)

Begin(r, req) ==
    /\ request[r] = Idle
    /\ Cardinality(InFlight) < limit
    /\ request' = [request EXCEPT ![r] = req]

Goto(r, step) == request' = [request EXCEPT ![r].at = step]
End(r) == request' = [request EXCEPT ![r] = Idle]
At(r, op, step) == request[r].op = op /\ request[r].at = step

\* Invitations are one statement each; inviting again only revives a revoked one.
Invite(s) ==
    /\ invitations[s] \in {"none", "revoked"}
    /\ invitations' = [invitations EXCEPT ![s] = "invited"]
    /\ UNCHANGED <<members, templates, courses, assigned, clones, request,
                   limit, deleted, faults>>

Revoke(s) ==
    /\ invitations[s] \in {"invited", "accepted"}
    /\ invitations' = [invitations EXCEPT ![s] = "revoked"]
    /\ UNCHANGED <<members, templates, courses, assigned, clones, request,
                   limit, deleted, faults>>

\* accept_invitation: the row of the invitation is read, then the membership.
Accept(r, s) ==
    /\ invitations[s] \in {"invited", "accepted"}
    /\ Begin(r, [Idle EXCEPT !.op = "accept", !.at = "membership", !.student = s])
    /\ UNCHANGED <<invitations, members, templates, courses, assigned, clones,
                   limit, deleted, faults>>

AcceptChecks(r) ==
    /\ At(r, "accept", "membership")
    /\ IF members[request[r].student] \in {"active", "removed"}
       THEN End(r)
       ELSE Goto(r, "upsert")
    /\ UNCHANGED <<invitations, members, templates, courses, assigned, clones,
                   limit, deleted, faults>>

AcceptJoins(r) ==
    /\ At(r, "accept", "upsert")
    /\ members' = [members EXCEPT ![request[r].student] = "active"]
    /\ Goto(r, "mark")
    /\ UNCHANGED <<invitations, templates, courses, assigned, clones, limit,
                   deleted, faults>>

AcceptMarks(r) ==
    /\ At(r, "accept", "mark")
    /\ invitations' = [invitations EXCEPT ![request[r].student] = "accepted"]
    /\ Goto(r, "list")
    /\ UNCHANGED <<members, templates, courses, assigned, clones, limit, deleted,
                   faults>>

\* Mistake: the courses that are about to be assigned are taken for assigned.
LateCoursesApproved == {c \in CourseIds : courses[c].status = "approved"}

\* The courses a new member gets.
LateCourses == {c \in CourseIds : courses[c].status = "assigned"}

\* assign_all_courses_to_student reads the courses of the classroom once.
AcceptLists(r) ==
    /\ At(r, "accept", "list")
    /\ request' = [request EXCEPT ![r].at = "clone",
                                  ![r].todo = LateCourses \X {request[r].student}]
    /\ UNCHANGED <<invitations, members, templates, courses, assigned, clones,
                   limit, deleted, faults>>

\* remove_member and leave_classroom read the membership before they write it.
MayGo(s, status) ==
    \/ status = "removed" /\ members[s] # "none"
    \/ status = "left" /\ members[s] = "active"

Go(r, s, status) ==
    /\ MayGo(s, status)
    /\ Begin(r, [Idle EXCEPT !.op = status, !.at = "write", !.student = s])
    /\ UNCHANGED <<invitations, members, templates, courses, assigned, clones,
                   limit, deleted, faults>>

Gone(r) ==
    /\ request[r].op \in {"removed", "left"}
    /\ members' = [members EXCEPT ![request[r].student] = request[r].op]
    /\ End(r)
    /\ UNCHANGED <<invitations, templates, courses, assigned, clones, limit,
                   deleted, faults>>

\* register_classroom_course: the template must exist and not be registered.
Register(r, t) ==
    /\ t \in templates
    /\ \A c \in CourseIds : courses[c].template # t
    /\ Begin(r, [Idle EXCEPT !.op = "register", !.at = "insert", !.template = t])
    /\ UNCHANGED <<invitations, members, templates, courses, assigned, clones,
                   limit, deleted, faults>>

\* create_classroom_course inserts a draft; its template may be gone by now, and
\* the foreign key refuses it.
RegisterInserts(r) ==
    /\ At(r, "register", "insert")
    /\ \/ /\ request[r].template \notin templates
          /\ UNCHANGED courses
       \/ /\ request[r].template \in templates
          /\ \E c \in CourseIds :
              /\ courses[c] = NoCourse
              /\ \A d \in CourseIds : d < c => courses[d] # NoCourse
              /\ courses' = [courses EXCEPT ![c] =
                    [template |-> request[r].template, status |-> "draft"]]
    /\ End(r)
    /\ UNCHANGED <<invitations, members, templates, assigned, clones, limit,
                   deleted, faults>>

\* approve_classroom_course reads the status, then writes.
Approve(r, c) ==
    /\ courses[c].status \in {"draft", "approved"}
    /\ Begin(r, [Idle EXCEPT !.op = "approve", !.at = "write", !.course = c])
    /\ UNCHANGED <<invitations, members, templates, courses, assigned, clones,
                   limit, deleted, faults>>

\* set_classroom_course_status: an UPDATE, of nothing when the row is gone.
SetStatus(c, status) ==
    courses' = [courses EXCEPT ![c].status = IF @ = "deleted" THEN @ ELSE status]

ApproveWrites(r) ==
    /\ At(r, "approve", "write")
    /\ SetStatus(request[r].course, "approved")
    /\ End(r)
    /\ UNCHANGED <<invitations, members, templates, assigned, clones, limit,
                   deleted, faults>>

\* assign_course_events: the course is read, then the members, then a clone is
\* made for each.
Assign(r, c) ==
    /\ courses[c].status \in {"approved", "assigned"}
    /\ Begin(r, [Idle EXCEPT !.op = "assign", !.at = "members", !.course = c])
    /\ UNCHANGED <<invitations, members, templates, courses, assigned, clones,
                   limit, deleted, faults>>

AssignReads(r) ==
    /\ At(r, "assign", "members")
    /\ LET active == {s \in Students : members[s] = "active"} IN
       request' = [request EXCEPT ![r].at = "clone", ![r].total = active,
                                  ![r].todo = {request[r].course} \X active]
    /\ UNCHANGED <<invitations, members, templates, courses, assigned, clones,
                   limit, deleted, faults>>

\* Mistake: the row of any student counts as this one's.
AssignmentOfAnyone(p) == \E s \in Students : <<p[1], s>> \in assigned

\* Mistake: the rows are not looked up.
AssignmentOfNone(p) == FALSE

\* get_assignment
AssignmentOf(p) == p \in assigned

\* clone_course_for_student first looks for the row, outside the transaction. New
\* courses come first, members in any order.
LooksUp(r, p) ==
    /\ request[r].at = "clone"
    /\ request[r].missing = {}
    /\ p \in request[r].todo
    /\ \A q \in request[r].todo : q[1] <= p[1]
    /\ request' = [request EXCEPT
            ![r].todo = @ \ {p},
            ![r].missing = IF AssignmentOf(p) THEN {} ELSE {p}]
    /\ UNCHANGED <<invitations, members, templates, courses, assigned, clones,
                   limit, deleted, faults>>

\* The transaction: the course, its modules and roadmaps, and the row, whose
\* conflict is ignored, so that the course of a second clone stays without one.
Clones(r) ==
    \E p \in request[r].missing :
        /\ courses[p[1]].status # "deleted"
        /\ clones' = [clones EXCEPT ![p] = @ + 1]
        /\ assigned' = assigned \union {p}
        /\ request' = [request EXCEPT ![r].missing = {}]
        /\ UNCHANGED <<invitations, members, templates, courses, limit, deleted,
                       faults>>

\* A clone that fails is rolled back and counted; the others go on.
CloneFails(r) ==
    \E p \in request[r].missing :
        /\ \/ courses[p[1]].status = "deleted" /\ UNCHANGED faults
           \/ courses[p[1]].status # "deleted" /\ faults < MaxFaults /\ faults' = faults + 1
        /\ request' = [request EXCEPT ![r].missing = {},
                                      ![r].failed = @ \union {p[2]}]
        /\ UNCHANGED <<invitations, members, templates, courses, assigned,
                       clones, limit, deleted>>

Cloned(r) ==
    /\ request[r].at = "clone"
    /\ request[r].todo = {}
    /\ request[r].missing = {}

\* An assignment ends with the status of the course, an acceptance as it is.
AssignEnds(r) ==
    /\ request[r].op = "assign"
    /\ Cloned(r)
    /\ SetStatus(request[r].course, "assigned")
    /\ End(r)
    /\ UNCHANGED <<invitations, members, templates, assigned, clones, limit,
                   deleted, faults>>

AcceptEnds(r) ==
    /\ request[r].op = "accept"
    /\ Cloned(r)
    /\ End(r)
    /\ UNCHANGED <<invitations, members, templates, courses, assigned, clones,
                   limit, deleted, faults>>

\* A request dies between two statements.
Dies(r) ==
    /\ request[r] # Idle
    /\ faults < MaxFaults
    /\ faults' = faults + 1
    /\ End(r)
    /\ UNCHANGED <<invitations, members, templates, courses, assigned, clones,
                   limit, deleted>>

\* A student deletes a clone; the assignment goes with the course it names.
DeleteClone(p) ==
    /\ p \notin deleted
    /\ Cardinality(deleted) < MaxDeletions
    /\ clones[p] > 0
    /\ clones' = [clones EXCEPT ![p] = @ - 1]
    /\ deleted' = deleted \union {p}
    /\ \/ p \in assigned /\ assigned' = assigned \ {p}
       \/ (p \notin assigned \/ clones[p] > 1) /\ UNCHANGED assigned
    /\ UNCHANGED <<invitations, members, templates, courses, request, limit,
                   faults>>

\* The teacher deletes a template: its classroom courses and their assignments
\* go with it, the clones stay.
DeleteTemplate(t) ==
    /\ t \in templates
    /\ templates' = templates \ {t}
    /\ LET lost == {c \in CourseIds : courses[c].template = t} IN
       /\ courses' = [c \in CourseIds |->
            IF c \in lost THEN [template |-> "none", status |-> "deleted"] ELSE courses[c]]
       /\ assigned' = {p \in assigned : p[1] \notin lost}
    /\ UNCHANGED <<invitations, members, clones, request, limit, deleted, faults>>

Work(r) ==
    \/ AcceptChecks(r) \/ AcceptJoins(r) \/ AcceptMarks(r) \/ AcceptLists(r)
    \/ AcceptEnds(r)
    \/ Gone(r)
    \/ RegisterInserts(r)
    \/ ApproveWrites(r)
    \/ AssignReads(r) \/ AssignEnds(r)
    \/ \E p \in Pairs : LooksUp(r, p)
    \/ Clones(r)
    \/ CloneFails(r)

Next ==
    \/ \E s \in Students : Invite(s) \/ Revoke(s)
    \/ \E r \in Requests, s \in Students :
        \/ Accept(r, s)
        \/ \E status \in {"removed", "left"} : Go(r, s, status)
    \/ \E r \in Requests, t \in Templates : Register(r, t)
    \/ \E r \in Requests, c \in CourseIds : Approve(r, c) \/ Assign(r, c)
    \/ \E r \in Requests : Work(r) \/ Dies(r)
    \/ \E p \in Pairs : DeleteClone(p)
    \/ \E t \in Templates : DeleteTemplate(t)

Spec == Init /\ [][Next]_vars

-----------------------------------------------------------------------------
(* Properties. *)

\* Whatever runs beside it, an assignment that is finished has reached every
\* member it read, but those whose clone failed or was deleted by its owner:
\* clone_course_for_student returns early only where a clone is on record.
AssignmentReaches ==
    [][\A r \in Requests : AssignEnds(r) =>
        LET c == request[r].course IN
        \A s \in request[r].total \ request[r].failed :
            <<c, s>> \in assigned \union deleted \/ courses[c].status = "deleted"]_vars

\* One request at a time and nothing fails: between requests every member has
\* every assigned course, whichever came first, the member or the assignment,
\* and also after leaving and coming back.
MembersHaveCourses ==
    (limit = 1 /\ faults = 0 /\ InFlight = {}) =>
        \A s \in Students, c \in CourseIds :
            members[s] = "active" /\ courses[c].status = "assigned"
                => <<c, s>> \in assigned \union deleted

\* An assignment that is repeated, or runs beside an acceptance, leaves a student
\* with no more courses than requests that could look for the row before any of
\* them wrote it; a request that dies leaves no course without its row.
NoSpareCourses ==
    \A p \in Pairs \ deleted :
        /\ clones[p] <= limit
        /\ clones[p] > 0 => p \in assigned \/ courses[p[1]].status = "deleted"

\* The comment of assign_all_courses_to_student: a newly joined student is given
\* every already-assigned course. Refuted with two requests at once, and by one
\* that dies after it wrote the membership.
EveryMemberHasCourses ==
    InFlight = {} =>
        \A s \in Students, c \in CourseIds :
            members[s] = "active" /\ courses[c].status = "assigned"
                => <<c, s>> \in assigned \union deleted
=============================================================================
