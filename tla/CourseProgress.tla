---------------------------- MODULE CourseProgress ----------------------------
(***************************************************************************)
(* One course of a student: the curricula row it was planned in, the       *)
(* courses row with its progress and status, and the statuses of its       *)
(* modules (db/postgres.py, core/course_service.py).                       *)
(*                                                                         *)
(* Every SQL statement commits on its own, and a request runs several:     *)
(* creating or listing the course rewrites the rows module by module,      *)
(* completing or generating a module updates it, then counts, then stores  *)
(* the count.  One action per statement.                                   *)
(***************************************************************************)
EXTENDS Naturals, FiniteSets

CONSTANTS
    N,            \* the number of modules the plan has
    Request,      \* requests the server can have in its hands
    Limits,       \* bounds: requests being handled at one time, one chosen at first
    MaxRequests,  \* bound: requests ever begun
    MaxFaults     \* bound: handlers that die before they end

ASSUME ModuleAssumption == N \in Nat \ {0}
ASSUME BoundAssumption == Limits \union {MaxRequests, MaxFaults} \subseteq Nat

Module == 1..N

Status == {"not_started", "in_progress", "completed"}

-----------------------------------------------------------------------------
VARIABLES
    curriculum,   \* the curricula row
    index,        \* its current_index, advanced by legacy tutoring sessions
    course,       \* the courses row: whether it is there, status, progress
    module,       \* the status of each module, "absent" without a row
    lesson,       \* whether a module has its lesson
    pc, job,      \* the handler of each request
    limit,        \* the bound chosen
    begun, faults \* what the bounds count

tables  == <<curriculum, index, course, module, lesson>>
handler == <<pc, job>>
vars    == <<tables, handler, limit, begun, faults>>

\* A progress is stored as the quotient of two counts; the model keeps both.
Progress == [done : 0..N, total : 0..N]
Nothing  == [done |-> 0, total |-> 0]

NoCourse == [there |-> FALSE, status |-> "active", progress |-> Nothing]

Job == [module : Module,
        index  : 0..N,                           \* current_index as read
        status : Status,                         \* set_module_status's argument
        count  : Progress,                       \* what recalculate counted
        then   : {"idle", "lesson"}]             \* where to go after it

NoJob == [module |-> 1, index |-> 0, status |-> "not_started",
          count |-> Nothing, then |-> "idle"]

Rows      == {m \in Module : module[m] # "absent"}
Completed == {m \in Module : module[m] = "completed"}
InFlight  == {r \in Request : pc[r] # "idle"}

Init ==
    /\ curriculum = "unborn"
    /\ index = 0
    /\ course = NoCourse
    /\ module = [m \in Module |-> "absent"]
    /\ lesson = [m \in Module |-> FALSE]
    /\ pc = [r \in Request |-> "idle"]
    /\ job = [r \in Request |-> NoJob]
    /\ limit \in Limits
    /\ begun = 0 /\ faults = 0

-----------------------------------------------------------------------------
Begin(r, to, work) ==
    /\ pc[r] = "idle"
    /\ Cardinality(InFlight) < limit
    /\ begun < MaxRequests
    /\ begun' = begun + 1
    /\ pc' = [pc EXCEPT ![r] = to]
    /\ job' = [job EXCEPT ![r] = work]

Goto(r, to) == pc' = [pc EXCEPT ![r] = to]

End(r) == Goto(r, "idle") /\ job' = [job EXCEPT ![r] = NoJob]

(* create_course_from_plan, on behalf of a creation or of a listing *)

\* The architect stores the plan; create_course goes on with it in memory.
PersistCurriculum(r) ==
    /\ curriculum = "unborn"
    /\ curriculum' = "stored"
    /\ Begin(r, "upsert_course", NoJob)
    /\ UNCHANGED <<index, course, module, lesson, limit, faults>>

\* GET /courses syncs every stored plan of the student before it lists.
ListCourses(r) ==
    /\ curriculum = "stored"
    /\ Begin(r, "upsert_course", [NoJob EXCEPT !.index = index])
    /\ UNCHANGED <<tables, limit, faults>>

\* Mistake: no foreign key to the curriculum.
UpsertCourseAnyway(r) ==
    /\ pc[r] = "upsert_course"
    /\ course' = [course EXCEPT !.there = TRUE, !.status = "active"]
    /\ Goto(r, "upsert_module")
    /\ UNCHANGED <<curriculum, index, module, lesson, job, limit, begun, faults>>

\* The row refers to its curriculum, so it can be written only while that is
\* there; its status goes back to active, its progress stays.
UpsertCourse(r) ==
    /\ pc[r] = "upsert_course"
    /\ curriculum = "stored"
    /\ course' = [course EXCEPT !.there = TRUE, !.status = "active"]
    /\ Goto(r, "upsert_module")
    /\ UNCHANGED <<curriculum, index, module, lesson, job, limit, begun, faults>>

\* The status the plan gives a module; positions count from 0 in the code.
PlanStatus(m, current) ==
    IF m - 1 = current THEN "in_progress"
    ELSE IF m - 1 < current THEN "completed" ELSE "not_started"

\* A module keeps its status only if it is completed.
UpsertModule(r) ==
    LET m == job[r].module IN
    /\ pc[r] = "upsert_module"
    /\ course.there
    /\ module' = [module EXCEPT ![m] =
                    IF @ = "completed" THEN @ ELSE PlanStatus(m, job[r].index)]
    /\ IF m < N
       THEN job' = [job EXCEPT ![r].module = m + 1] /\ UNCHANGED pc
       ELSE Goto(r, "count") /\ UNCHANGED job
    /\ UNCHANGED <<curriculum, index, course, lesson, limit, begun, faults>>

\* The foreign key refuses the row: the course was deleted meanwhile.
UpsertRefused(r) ==
    /\ \/ pc[r] = "upsert_course" /\ curriculum # "stored"
       \/ pc[r] = "upsert_module" /\ ~course.there
    /\ End(r)
    /\ UNCHANGED <<tables, limit, begun, faults>>

(* recalculate_course_progress: a SELECT, then an UPDATE *)

\* Mistake: the total is that of the plan.
CountModulesPlanned(r) ==
    /\ pc[r] = "count"
    /\ job' = [job EXCEPT ![r].count = [done  |-> Cardinality(Completed),
                                        total |-> N]]
    /\ Goto(r, "store")
    /\ UNCHANGED <<tables, limit, begun, faults>>

CountModules(r) ==
    /\ pc[r] = "count"
    /\ job' = [job EXCEPT ![r].count = [done  |-> Cardinality(Completed),
                                        total |-> Cardinality(Rows)]]
    /\ Goto(r, "store")
    /\ UNCHANGED <<tables, limit, begun, faults>>

\* Mistake: a course gets the status of a module.
StatusForModule(p) ==
    IF p.total > 0 /\ p.done >= p.total THEN "completed" ELSE "in_progress"

StatusFor(p) ==
    IF p.total > 0 /\ p.done >= p.total THEN "completed" ELSE "active"

StoreProgress(r) ==
    /\ pc[r] = "store"
    /\ course' = IF course.there
                 THEN [course EXCEPT !.progress = job[r].count,
                                     !.status   = StatusFor(job[r].count)]
                 ELSE course
    /\ IF job[r].then = "idle"
       THEN End(r)
       ELSE Goto(r, "lesson") /\ job' = [job EXCEPT ![r].then = "idle"]
    /\ UNCHANGED <<curriculum, index, module, lesson, limit, begun, faults>>

(* complete_module and generate_module_lesson *)

\* Both endpoints read the course and the module first; nothing is written
\* when one of them is missing.
Found(m) == course.there /\ module[m] # "absent"

\* POST .../complete, and the completion an evaluation ends with.
BeginComplete(r, m) ==
    /\ Found(m)
    /\ Begin(r, "set_status",
             [NoJob EXCEPT !.module = m, !.status = "completed"])
    /\ UNCHANGED <<tables, limit, faults>>

\* Mistake: a module that has its lesson is generated again.
BeginGenerateAgain(r, m) ==
    /\ Found(m)
    /\ Begin(r, "set_status",
             [NoJob EXCEPT !.module = m, !.status = "in_progress",
                           !.then = "lesson"])
    /\ UNCHANGED <<tables, limit, faults>>

\* A module with a lesson is returned as it is: only others are generated.
BeginGenerate(r, m) ==
    /\ Found(m) /\ ~lesson[m]
    /\ Begin(r, "set_status",
             [NoJob EXCEPT !.module = m, !.status = "in_progress",
                           !.then = "lesson"])
    /\ UNCHANGED <<tables, limit, faults>>

SetModuleStatus(r) ==
    LET m == job[r].module IN
    /\ pc[r] = "set_status"
    /\ module' = IF module[m] = "absent" THEN module
                 ELSE [module EXCEPT ![m] = job[r].status]
    /\ Goto(r, "count")
    /\ UNCHANGED <<curriculum, index, course, lesson, job, limit, begun, faults>>

\* save_module_content, with what the LLM wrote.
SaveModuleContent(r) ==
    LET m == job[r].module IN
    /\ pc[r] = "lesson"
    /\ IF module[m] = "absent" THEN UNCHANGED <<module, lesson>>
       ELSE /\ lesson' = [lesson EXCEPT ![m] = TRUE]
            /\ module' = [module EXCEPT ![m] =
                            IF @ = "not_started" THEN "in_progress" ELSE @]
    /\ Goto(r, "count")
    /\ UNCHANGED <<curriculum, index, course, job, limit, begun, faults>>

\* The LLM fails: an error is returned and the module stays in progress.
LessonFails(r) ==
    /\ pc[r] = "lesson"
    /\ End(r)
    /\ UNCHANGED <<tables, limit, begun, faults>>

(* Around them *)

\* delete_course: one transaction takes the course, its modules and the plan.
DeleteCourse ==
    /\ course.there
    /\ course' = NoCourse
    /\ curriculum' = "deleted"
    /\ module' = [m \in Module |-> "absent"]
    /\ lesson' = [m \in Module |-> FALSE]
    /\ UNCHANGED <<index, handler, limit, begun, faults>>

\* StudentState.save of a legacy tutoring session that finished a module.
AdvanceIndex ==
    /\ curriculum = "stored" /\ index < N
    /\ index' = index + 1
    /\ UNCHANGED <<curriculum, course, module, lesson, handler, limit, begun, faults>>

\* A handler dies between two statements; what it committed stays.
Fault(r) ==
    /\ pc[r] # "idle" /\ faults < MaxFaults
    /\ faults' = faults + 1
    /\ End(r)
    /\ UNCHANGED <<tables, limit, begun>>

-----------------------------------------------------------------------------
Handle(r) ==
    \/ UpsertCourse(r) \/ UpsertModule(r) \/ UpsertRefused(r)
    \/ CountModules(r) \/ StoreProgress(r)
    \/ SetModuleStatus(r) \/ SaveModuleContent(r) \/ LessonFails(r)

Next ==
    \/ DeleteCourse \/ AdvanceIndex
    \/ \E r \in Request :
         \/ PersistCurriculum(r) \/ ListCourses(r)
         \/ \E m \in Module : BeginComplete(r, m) \/ BeginGenerate(r, m)
         \/ Handle(r) \/ Fault(r)

Spec == Init /\ [][Next]_vars

-----------------------------------------------------------------------------
(* Properties *)

\* The tables and the handlers always hold values of their types.
TypeOK ==
    /\ curriculum \in {"unborn", "stored", "deleted"}
    /\ index \in 0..N
    /\ course \in [there : BOOLEAN, status : {"active", "completed"},
                   progress : Progress]
    /\ module \in [Module -> Status \union {"absent"}]
    /\ lesson \in [Module -> BOOLEAN]
    /\ pc \in [Request -> {"idle", "upsert_course", "upsert_module", "count",
                           "store", "set_status", "lesson"}]
    /\ job \in [Request -> Job]
    /\ begun \in Nat /\ faults \in Nat

\* A deleted course does not come back, nor parts of it: handlers that began
\* before the deletion and go on after it leave no course without its plan,
\* no module without its course, no lesson without its module.
NoOrphans ==
    /\ course.there => curriculum = "stored"
    /\ \A m \in Module : module[m] # "absent" => course.there
    /\ \A m \in Module : lesson[m] => module[m] # "absent"

\* The course shows the share of its modules that are completed, and is
\* completed exactly when they all are.
ProgressAgrees ==
    course.there =>
      /\ course.progress = [done  |-> Cardinality(Completed),
                            total |-> Cardinality(Rows)]
      /\ course.status = "completed" <=> Rows # {} /\ Completed = Rows

\* One request at a time: a request that gets as far as storing the progress
\* leaves it right, also after requests that died between changing a module
\* and counting.
RecalculationRepairs ==
    [][limit = 1 =>
         \A r \in Request :
           pc[r] = "store" /\ pc'[r] # "store" /\ faults' = faults
             => ProgressAgrees']_vars

\* One request at a time: a module completed with its lesson stays completed
\* as long as the course is there, whatever is listed, generated or synced.
CompletedStays ==
    [][limit = 1 =>
         \A m \in Module :
           module[m] = "completed" /\ lesson[m]
             => module'[m] = "completed" \/ ~course'.there]_vars
=============================================================================
