---------------------------- MODULE CourseCreation ----------------------------
(***************************************************************************)
(* The courses of one student from the request that asks for one to the    *)
(* roadmap that is shown: the jobs in memory and their streams             *)
(* (app/course_api.py), the creation (core/course_service.py), the plan    *)
(* the architect stores, and the listing that makes course rows of every   *)
(* stored plan (db/postgres.py).                                           *)
(*                                                                         *)
(* A course has the number of the plan it was made from.  Every SQL        *)
(* statement commits on its own: one action per statement or LLM call.     *)
(* What the students row and the decision log hold, statuses and progress  *)
(* (CourseProgress) and what a plan says (CurriculumPlan) are left out.    *)
(***************************************************************************)
EXTENDS Naturals, FiniteSets, FiniteSetsExt

CONSTANTS
    K,            \* the number of modules of a plan
    Job,          \* creation jobs, by their id
    Handler,      \* requests the server can have in its hands
    Limits,       \* bounds: requests being handled at one time, one chosen at first
    MaxRequests,  \* bound: requests ever begun, one less with two at a time
    MaxFaults     \* bound: statements that fail and restarts of the server

ASSUME ModuleAssumption == K \in Nat \ {0}
ASSUME BoundAssumption == Limits \union {MaxRequests, MaxFaults} \subseteq Nat
\* The id of a job is a new uuid.
ASSUME JobAssumption == Job \intersect {"list", "post", "stream", "regenerate"} = {}

Plan == 1..MaxRequests

-----------------------------------------------------------------------------
VARIABLES
    jobs,       \* _course_creation_jobs: not "yet", "there" or "gone"
    gauge,      \* active_course_creations
    curricula,  \* per plan: its status and the job it was made for
    modules,    \* per course: its rows of course_modules
    rows,       \* the courses that have a row,
    roadmap,    \* per course: how many modules its roadmap shows, {} without one
    masters,    \* the courses with a master roadmap
    pc, work,   \* the handler of each request
    done,       \* the courses a client was told are done
    limit,      \* the bound chosen
    torn,       \* whether a creation ended between its two statements
    begun, faults

memory == <<jobs, gauge>>
tables == <<curricula, modules, rows, roadmap, masters>>
bounds == <<limit, torn, begun, faults>>
vars   == <<memory, tables, pc, work, done, bounds>>

\* from: a job, "stream" or "post" for a creation without one, "list" or
\* "regenerate"; queue: plans of a sync still to do; plan: the course being
\* created; next: the module to write; seen: the modules read for a roadmap.
Idle == [from |-> "list", queue |-> {}, plan |-> 0, next |-> 1, seen |-> 0]

NoPlan == [status |-> "absent", by |-> "list"]

Stored   == {p \in Plan : curricula[p].status \in {"active", "inactive"}}
Planned  == {p \in Plan : curricula[p].status # "absent"}
InFlight == {h \in Handler : pc[h] # "idle"}
Planning == {"build", "deactivate", "insert", "ensure"}

Init ==
    /\ jobs = [j \in Job |-> "yet"] /\ gauge = 0
    /\ curricula = [p \in Plan |-> NoPlan]
    /\ modules = [p \in Plan |-> 0]
    /\ rows = {} /\ masters = {}
    /\ roadmap = [p \in Plan |-> {}]
    /\ pc = [h \in Handler |-> "idle"]
    /\ work = [h \in Handler |-> Idle]
    /\ done = {}
    /\ limit \in Limits /\ torn = FALSE /\ begun = 0 /\ faults = 0

-----------------------------------------------------------------------------
(* Requests and their ends *)

Goto(h, to) == pc' = [pc EXCEPT ![h] = to]

\* Where a sync goes with these plans still to do.
AfterSync(from, queue) ==
    IF queue # {} THEN "course" ELSE IF from = "list" THEN "idle" ELSE "student"

Begin(h, to, w) ==
    /\ pc[h] = "idle"
    /\ Cardinality(InFlight) < limit
    /\ begun + limit <= MaxRequests /\ begun' = begun + 1
    /\ Goto(h, to)
    /\ work' = [work EXCEPT ![h] = w]
    /\ UNCHANGED <<memory, tables, done, limit, torn, faults>>

\* Mistake: the job is cleared only when its course is done.
FinishClearingDone(h, answer) ==
    /\ Goto(h, "idle")
    /\ work' = [work EXCEPT ![h] = Idle]
    /\ done' = IF answer = "done" THEN done \union {work[h].plan} ELSE done
    /\ jobs' = IF work[h].from \in Job /\ answer = "done"
               THEN [jobs EXCEPT ![work[h].from] = "gone"] ELSE jobs

\* A request ends with an answer; the stream of a job clears it, however it
\* ends.
Finish(h, answer) ==
    /\ Goto(h, "idle")
    /\ work' = [work EXCEPT ![h] = Idle]
    /\ done' = IF answer = "done" THEN done \union {work[h].plan} ELSE done
    /\ jobs' = IF work[h].from \in Job
               THEN [jobs EXCEPT ![work[h].from] = "gone"] ELSE jobs

CreateIntent(j) ==
    /\ jobs[j] = "yet"
    /\ jobs' = [jobs EXCEPT ![j] = "there"]
    /\ UNCHANGED <<gauge, tables, pc, work, done, bounds>>

\* The job is looked up; it stays in the table while its stream runs.
OpenStream(h, j) ==
    jobs[j] = "there" /\ Begin(h, "open", [Idle EXCEPT !.from = j])

\* GET /stream/courses/create, which has its request in the query.
OpenStreamDirect(h) == Begin(h, "open", [Idle EXCEPT !.from = "stream"])

\* The response begins, and with it the creation: the snapshot of the
\* student's history lists the courses and so syncs every plan.
StartStream(h) ==
    /\ pc[h] = "open"
    /\ Goto(h, AfterSync(work[h].from, Stored))
    /\ work' = [work EXCEPT ![h].queue = Stored]
    /\ UNCHANGED <<memory, tables, done, bounds>>

CreateDirect(h) ==
    Begin(h, AfterSync("post", Stored),
          [Idle EXCEPT !.from = "post", !.queue = Stored])

ListCourses(h) ==
    /\ Stored # {}
    /\ Begin(h, "course", [Idle EXCEPT !.queue = Stored])

\* The roadmap of a course is built again from the modules read now.
RegenerateRoadmap(h, p) ==
    /\ p \in rows
    /\ Begin(h, "roadmap", [Idle EXCEPT !.from = "regenerate", !.plan = p,
                                        !.seen = modules[p]])

-----------------------------------------------------------------------------
(* create_course: the plan *)

UpsertStudent(h) ==
    /\ pc[h] = "student"
    /\ gauge' = gauge + 1
    /\ Goto(h, "build")
    /\ UNCHANGED <<jobs, tables, work, done, bounds>>

\* The LLM calls of the architect end with a plan or without one.
BuildCurriculum(h) ==
    /\ pc[h] = "build"
    /\ \E to \in {"deactivate", "ensure"} : Goto(h, to)
    /\ UNCHANGED <<memory, tables, work, done, bounds>>

\* _persist_curriculum: an UPDATE of every plan of the student ...
Deactivate(h) ==
    /\ pc[h] = "deactivate"
    /\ curricula' = [p \in Plan |->
                       IF p \in Stored THEN [curricula[p] EXCEPT !.status = "inactive"]
                       ELSE curricula[p]]
    /\ Goto(h, "insert")
    /\ UNCHANGED <<memory, modules, rows, roadmap, masters, work, done, bounds>>

\* Mistake: the UPDATE comes after the INSERT and takes the new plan too.
InsertThenDeactivate(h) ==
    LET p == Cardinality(Planned) + 1 IN
    /\ pc[h] = "insert"
    /\ curricula' = [curricula EXCEPT ![p] = [status |-> "inactive",
                                              by |-> work[h].from]]
    /\ gauge' = gauge - 1
    /\ work' = [work EXCEPT ![h].plan = p, ![h].next = 1]
    /\ Goto(h, "course")
    /\ UNCHANGED <<jobs, modules, rows, roadmap, masters, done, bounds>>

\* ... and the INSERT of the new one, after which the planning is over.
InsertCurriculum(h) ==
    LET p == Cardinality(Planned) + 1 IN
    /\ pc[h] = "insert"
    /\ curricula' = [curricula EXCEPT ![p] = [status |-> "active",
                                              by |-> work[h].from]]
    /\ gauge' = gauge - 1
    /\ work' = [work EXCEPT ![h].plan = p, ![h].next = 1]
    /\ Goto(h, "course")
    /\ UNCHANGED <<jobs, modules, rows, roadmap, masters, done, bounds>>

\* After a failure of the planning: the row of the student, then the answer.
EnsureStudent(h) ==
    /\ pc[h] = "ensure"
    /\ gauge' = gauge - 1
    /\ Finish(h, "error")
    /\ UNCHANGED <<tables, bounds>>

(* create_course_from_plan, for a creation or for a plan of the sync *)

\* The sync takes the newest plan first.
Target(h) == IF work[h].plan # 0 THEN work[h].plan ELSE Max(work[h].queue)

\* A course row needs its plan, a module row its course.
Writable(h) ==
    IF pc[h] = "course" THEN Target(h) \in Stored ELSE Target(h) \in rows

UpsertCourse(h) ==
    /\ pc[h] = "course" /\ Writable(h)
    /\ rows' = rows \union {Target(h)}
    /\ Goto(h, "module")
    /\ UNCHANGED <<memory, curricula, modules, roadmap, masters, work, done, bounds>>

\* Rows are written in the order of the plan; those there are overwritten.
UpsertModule(h) ==
    LET m == work[h].next IN
    /\ pc[h] = "module" /\ Writable(h)
    /\ modules' = [modules EXCEPT ![Target(h)] = Max({@, m})]
    /\ work' = [work EXCEPT ![h].next = IF m < K THEN m + 1 ELSE 1]
    /\ IF m < K THEN UNCHANGED pc ELSE Goto(h, "read")
    /\ UNCHANGED <<memory, curricula, rows, roadmap, masters, done, bounds>>

\* The progress is counted and the course read back.  A course that is gone
\* is an empty record: the creation stumbles over it, the sync goes on.
ReadCourse(h) ==
    /\ pc[h] = "read"
    /\ IF work[h].plan = 0
       THEN LET left == work[h].queue \ {Target(h)} IN
            /\ Goto(h, AfterSync(work[h].from, left))
            /\ work' = [work EXCEPT ![h].queue = left]
            /\ UNCHANGED <<jobs, done>>
       ELSE IF work[h].plan \in rows
       THEN Goto(h, "master") /\ UNCHANGED <<jobs, work, done>>
       ELSE Finish(h, "error")
    /\ UNCHANGED <<gauge, tables, bounds>>

\* Mistake: the roadmap is best effort too.
FailingLightly(h) ==
    IF pc[h] \in {"master", "roadmap"}
    THEN Goto(h, IF pc[h] = "master" THEN "roadmap" ELSE "report")
         /\ UNCHANGED <<jobs, work, done>>
    ELSE Finish(h, "error")

\* What a failed statement leads to.  The master roadmap and the history are
\* best effort, a failed planning is followed up, the rest is an error.
Failing(h) ==
    IF pc[h] = "master"
    THEN Goto(h, "roadmap") /\ work' = [work EXCEPT ![h].seen = modules[work[h].plan]]
         /\ UNCHANGED <<jobs, done>>
    ELSE IF pc[h] \in Planning \ {"ensure"}
    THEN Goto(h, "ensure") /\ UNCHANGED <<jobs, work, done>>
    ELSE IF work[h].plan = 0 /\ work[h].queue # {} /\ work[h].from # "list"
    THEN Goto(h, "student") /\ work' = [work EXCEPT ![h].queue = {}, ![h].next = 1]
         /\ UNCHANGED <<jobs, done>>
    ELSE Finish(h, "error")

\* The foreign key refuses a row: the course was deleted meanwhile.
Refused(h) ==
    /\ pc[h] \in {"course", "module"} /\ ~Writable(h)
    /\ Failing(h)
    /\ UNCHANGED <<gauge, tables, bounds>>

(* create_course: the roadmaps and the answer *)

\* The modules are listed for the roadmap right after.
SaveMasterRoadmap(h) ==
    /\ pc[h] = "master"
    /\ masters' = IF work[h].plan \in rows THEN masters \union {work[h].plan} ELSE masters
    /\ work' = [work EXCEPT ![h].seen = modules[work[h].plan]]
    /\ Goto(h, "roadmap")
    /\ UNCHANGED <<memory, curricula, modules, rows, roadmap, done, bounds>>

SaveCourseRoadmap(h) ==
    /\ pc[h] = "roadmap"
    /\ IF work[h].plan \in rows
       THEN /\ roadmap' = [roadmap EXCEPT ![work[h].plan] = {work[h].seen}]
            /\ Goto(h, "report")
            /\ UNCHANGED <<jobs, work, done>>
       ELSE Finish(h, "error") /\ UNCHANGED roadmap
    /\ UNCHANGED <<gauge, curricula, modules, rows, masters, bounds>>

\* The events of a finished course, or the response.
Report(h) ==
    /\ pc[h] = "report"
    /\ Finish(h, IF work[h].from = "regenerate" THEN "regenerated" ELSE "done")
    /\ UNCHANGED <<gauge, tables, bounds>>

-----------------------------------------------------------------------------
(* What happens to requests, and to courses *)

Tears(h) == pc[h] = "insert"

\* A statement fails.  In the follow-up of a failed planning that leaves the
\* gauge as it is.
Fail(h) ==
    /\ pc[h] \notin {"idle", "open", "build", "report"}
    /\ faults < MaxFaults /\ faults' = faults + 1
    /\ torn' = (torn \/ Tears(h))
    /\ Failing(h)
    /\ UNCHANGED <<gauge, tables, limit, begun>>

\* The client leaves its stream: the creation is cancelled where it stands,
\* without the follow-up of a failure.  Before the response has begun, there
\* is no generator yet that would clear the job.
Leave(h) ==
    /\ pc[h] # "idle" /\ work[h].from \in Job \union {"stream"}
    /\ torn' = (torn \/ Tears(h))
    /\ IF pc[h] = "open"
       THEN /\ Goto(h, "idle")
            /\ work' = [work EXCEPT ![h] = Idle]
            /\ UNCHANGED <<jobs, done>>
       ELSE Finish(h, "cut")
    /\ UNCHANGED <<gauge, tables, limit, begun, faults>>

\* The server restarts: the handlers, the jobs and the gauge are gone.
Restart ==
    /\ InFlight # {} /\ faults < MaxFaults /\ faults' = faults + 1
    /\ torn' = (torn \/ \E h \in Handler : Tears(h))
    /\ jobs' = [j \in Job |-> IF jobs[j] = "there" THEN "gone" ELSE jobs[j]]
    /\ gauge' = 0
    /\ pc' = [h \in Handler |-> "idle"]
    /\ work' = [h \in Handler |-> Idle]
    /\ UNCHANGED <<tables, done, limit, begun>>

\* One transaction takes the course, what refers to it, and its plan.
DeleteCourse(p) ==
    /\ p \in rows
    /\ curricula' = [curricula EXCEPT ![p].status = "deleted"]
    /\ rows' = rows \ {p} /\ masters' = masters \ {p}
    /\ modules' = [modules EXCEPT ![p] = 0]
    /\ roadmap' = [roadmap EXCEPT ![p] = {}]
    /\ UNCHANGED <<memory, pc, work, done, bounds>>

-----------------------------------------------------------------------------
\* What the server does of itself with a request it has.
Handle(h) ==
    \/ StartStream(h) \/ UpsertStudent(h) \/ BuildCurriculum(h)
    \/ Deactivate(h) \/ InsertCurriculum(h) \/ EnsureStudent(h)
    \/ UpsertCourse(h) \/ UpsertModule(h) \/ ReadCourse(h) \/ Refused(h)
    \/ SaveMasterRoadmap(h) \/ SaveCourseRoadmap(h) \/ Report(h)

Next ==
    \/ Restart
    \/ \E j \in Job : CreateIntent(j)
    \/ \E p \in Plan : DeleteCourse(p)
    \/ \E h \in Handler :
         \/ \E j \in Job : OpenStream(h, j)
         \/ \E p \in Plan : RegenerateRoadmap(h, p)
         \/ OpenStreamDirect(h) \/ CreateDirect(h) \/ ListCourses(h)
         \/ Handle(h) \/ Fail(h) \/ Leave(h)

\* The server goes on with its requests; statements and LLM calls return
\* (GroqClient: CallsEnd).
Fairness == \A h \in Handler : WF_vars(Handle(h))

Spec == Init /\ [][Next]_vars /\ Fairness

-----------------------------------------------------------------------------
(* Properties *)

\* The variables always hold values of their types.
TypeOK ==
    /\ jobs \in [Job -> {"yet", "there", "gone"}]
    /\ gauge \in 0..MaxRequests
    /\ \A p \in Plan : curricula[p].status \in {"absent", "active", "inactive", "deleted"}
    /\ modules \in [Plan -> 0..K] /\ roadmap \in [Plan -> SUBSET (0..K)]
    /\ rows \subseteq Stored /\ masters \subseteq rows
    /\ \A h \in Handler : work[h].queue \subseteq Plan /\ work[h].next \in 1..K

\* A client that was told its course is done has it whole until somebody
\* deletes it: its row, all of its modules and a roadmap, whatever failed,
\* was listed or synced meanwhile.  With one request at a time, the roadmap
\* shows all of the modules; a roadmap regenerated in the middle of the
\* creation may not.
DoneIsWhole ==
    \A p \in done :
      curricula[p].status # "deleted" =>
        /\ p \in rows /\ modules[p] = K /\ roadmap[p] # {}
        /\ limit = 1 => roadmap[p] = {K}

\* The plan a session of the student would load is the newest one, unless it
\* was deleted or a creation is, or ended, between deactivating the plans and
\* storing its own; one request at a time, no other plan is active.
NewestPlanLoads ==
    /\ \A p \in Planned :
         p = Max(Planned) /\ ~torn /\ ~(\E h \in Handler : Tears(h))
           => curricula[p].status \in {"active", "deleted"}
    /\ limit = 1 => Cardinality({p \in Plan : curricula[p].status = "active"}) <= 1

\* One request at a time, a job makes one course at most, however often its
\* client comes back after failures.
OneCoursePerJob ==
    limit = 1 =>
      \A p, q \in Planned : curricula[p].by = curricula[q].by /\ curricula[p].by \in Job => p = q

\* The gauge never says less than is being planned.
GaugeCovers == gauge >= Cardinality({h \in Handler : pc[h] \in Planning})

\* Creations leave the plans and the books in order.
CreationsInOrder == NewestPlanLoads /\ OneCoursePerJob /\ GaugeCovers

\* Every creation that has begun to stream ends, and its job leaves the table
\* then, whether the course was made, failed or was given up.
JobsLeave ==
    \A h \in Handler, j \in Job :
      work[h].from = j /\ pc[h] # "open" ~> jobs[j] = "gone"
=============================================================================
