# EduMind: models, checks and proofs

EduMind is a FastAPI backend: it plans a course from a goal, generates lessons
and questions with an LLM, evaluates the student in a dialogue, adapts what
comes next, and lets teachers assign courses and tests to classrooms. Everything
that lasts is in PostgreSQL; the server process keeps only jobs, streams and
tutoring sessions in memory.

All of it runs on one asyncio event loop. A request handler runs alone between
two `await`s and shares the tables with every other handler at each of them. The
code holds no row lock from a read to the write it decides, most writes are
statements that commit on their own, and between read and write there is often
an LLM call of many seconds. That is where this code is hard: **state that was
read before an await is used after it**, and **a request of several writes may
die between two of them**. The models are built around these two facts: one
action per await or committed statement, `Fault` for the handler that dies, and
properties that relate what a handler holds, what the tables say and what the
user was told.

## Inventory

| Component | State | Operations | Interacts with | Hard part | What makes it right |
|---|---|---|---|---|---|
| **Evaluation session** `agents/evaluation_agent.py`, `app/course_api.py` 717–827, `db/postgres.py` | `evaluation_sessions` row; `evaluation_history`, `concept_mastery`, `student_skills`, adaptation summary; the module's status | start, answer (read, diagnose, probe, finalise with four writes, save, complete the module) | LLM; learner tables; course progress | whole-row overwrite after two LLM calls; four separate writes before the save; ids invented by the LLM; pace and probe budget not stored | a session never gets stuck, closes once, on a report that is on record; the module is completed only on it; no acknowledged answer is lost |
| **Course rows and progress** `db/postgres.py` 1195–1467, 1684–1744, `core/course_service.py` | `curricula`, `courses` (status, progress), `course_modules` (status, content) | create from plan, list (which syncs from the plan), complete, generate, delete, recalculate | evaluation (completes modules), lesson, tutoring session (moves the index of the plan) | listing writes; count and store are two statements; deletion under running requests | stored progress is the share of completed modules; nothing of a deleted course comes back; what is completed stays |
| **Module lesson and questions** `core/course_service.py` 1558–1903, 2017–2176, `db/postgres.py` 1700–1842 | `content_markdown`, `module_metadata.lesson_videos`, `module_questions`, `module_chat_messages`, `doubt_log`, the doubt counts of `metacognition` | generate (plain and streamed), save text, videos and questions, get or create questions, answer a check question, chat | LLM, video search; listing (overwrites the metadata); evaluation (reads text, earns mastery); tutoring session (saves the same profile) | check, LLM call, write; DELETE and INSERTs each committed on their own; six statements per message | a saved lesson stays; questions are about it, and none is missing that all lists had; a message leaves all of its traces |
| **Classroom tests** `core/test_service.py`, `db/institution.py` 690–925, `app/institution_api.py` 404–559 | `classroom_tests`, `test_questions`, `test_attempts`, `learning_events`, `classroom_ai_artifacts` | generate, edit, regenerate a question, approve, schedule, publish, close; start, autosave, submit; analyse | LLM (questions, grading), clock, mastery | status checked before an LLM call; transaction at READ COMMITTED; student and teacher at once; schedule by the clock | only approved tests reach students; the paper is frozen, a grade is final and for the saved answers; every attempt is graded |
| **Membership and assignment** `core/classroom_service.py`, `db/institution.py` 180–575 | invitations, memberships, classroom courses, assignments, cloned courses | invite, revoke, accept, leave, remove, register, approve, assign to all, assign all to one | course rows | acceptance against an assignment in progress; look-up outside the transaction of the clone | every active member has every assigned course, once |
| **Tutoring server** `app/api.py` 275–668 | session table, input and output queue, per-student lock, task | start, stream, answer, chat, end, sweep, shutdown | student model, event loop, agents | lock tested long before it is taken; reply that comes after its prompt has timed out; full queue | one session per student; a reply goes to its prompt; an ended session frees the student |
| **Teaching loop** `agents/orchestrator.py`, `tutor.py`, `evaluator.py`, `adaptation_engine.py`, `core/student_model.py` | student state in memory (curriculum, mastery, doubts, reteach count); `curricula`, `concept_mastery`, `metacognition`, `doubt_log` | teach, evaluate, adapt, route, detour, escalate, end, shutdown, load, save | architect, learner tables | the plan is changed in memory only; replaced while the loop holds the old one; everything written at the end | an evaluation is about what was taught; what was found out is on record; nothing is skipped |
| **Creation jobs and streams** `app/course_api.py` 477–500, 1095–1190, `core/course_service.py` 820–1004 | job table in memory; `curricula`, `courses`, `course_modules`, both roadmaps | intent, stream, POST, list, regenerate a roadmap, delete | architect, listing | a job is removed when its stream ends; a chain of statements without a transaction | a course reported as done is whole; one job, one course; the newest plan is active |
| **Schedule and roadmap** `agents/schedule_agent.py`, `core/roadmap_service.py`, `db/postgres.py` 2374–2476 | one JSON document per course | generate, mark completed; recommend days | course progress | packing with rounding and leftovers; read, change and write of the document | every module once, in order, without overlaps; no tick is forgotten |
| **LLM client** `clients/groq_client.py`, `agents/base_agent.py` | the thread pool of the process; a bounded queue per stream | generate, tool loop, stream; retry on rate limit | every agent | a thread that fills a queue nobody reads; a failure behind a sentinel; tools that raise | every call ends; a stream is whole or raises |
| **Curriculum architect, gates** `agents/curriculum_architect.py`, `core/curriculum_quality.py` | none (a plan in memory) | trust the history, cover, sequence, audit, fix, lengthen, compress, validate, repair | creation | every call has its own failures and fallback; a repair replaces part of a result | a plan without repetitions, from which nothing is left out without evidence |
| Search and video clients, authentication, analytics agents, offline evaluation, prompts and guardrails | cookies, reports, texts | – | – | – | – |

The last row is not modelled: network calls whose failure is a missing context,
reports read in one go, or text.

## Modules

| Module | Models | Uses |
|---|---|---|
| `EvaluationSession` | the session row, the handler of an answer, the learner tables | `INSTANCE EvaluationContract` |
| `EvaluationContract` | what a session promises: answers are kept in order, it closes once, on record | – |
| `CourseProgress` | plan, course row, module statuses, the requests that write them | – |
| `ModuleLesson` | text, videos, questions and chat of one module | – |
| `ClassroomTest` | one test, its questions, attempts, and cached analyses | – |
| `ClassroomAssignment` | invitations, members, assigned courses and their clones | – |
| `CourseCreation` | jobs, streams, the statements of a creation, listings, roadmaps | – |
| `CurriculumPlan` | how a plan is computed, call by call | – |
| `CourseSchedule` | the two timetables of a course and their requests | – |
| `GroqClient` | calls of the LLM on the shared thread pool | – |
| `SessionServer` | sessions, locks, queues and streams of the tutoring server | – |
| `TeachingLoop` | what the agents do in a session, and what is stored of it | – |
| `EvaluationSession_proofs`, `CourseProgress_proofs`, `ModuleLesson_proofs`, `ClassroomTest_proofs`, `ClassroomAssignment_proofs`, `CourseCreation_proofs`, `SessionServer_proofs`, `TeachingLoop_proofs` | the inductive invariants and the theorems about each of these | `EXTENDS` the module, `TLAPS` |
| | in `CourseCreation_proofs` also those about `CurriculumPlan` and `CourseSchedule`, in `TeachingLoop_proofs` about `GroqClient` | `INSTANCE` as `Planner`, `Timetable` and `LLM` |
| `MC…` | symmetry sets and values for the checker | the module named |

The models meet at their interfaces, each of which is an action of both sides:
`CurriculumPlan` is the call that `CourseCreation!BuildCurriculum` and
`TeachingLoop!CreatePlan` make; the rows that `CourseCreation` makes are the ones
`CourseProgress` starts from, where statuses and progress are kept;
`CourseProgress!SaveModuleContent` is `ModuleLesson`'s work in one action, and
`CompletionEarned` of `EvaluationSession` is what a completion there means when
the endpoint that takes answers made it;
`SessionServer` leaves free what agents say and ask, and `TeachingLoop` runs one
session after another, which is what `SessionsApart` of the former shows of all
but the first session of a new student.

In most modules `pc[r]` says before which await or statement the handler of
request `r` stands and `job[r]` what it has in memory; `tables` is what is in
PostgreSQL. `Begin…`, `Submit` and the like are the arrival of a request,
fused with the reads that follow without a decision of somebody else mattering
in between (the reads are named at each action); `Fault` ends a handler without
a response and leaves what it committed. A definition headed `Mistake:` is a
plausible slip in the definition after it, kept to show that the properties
notice it; no specification uses it.

### EvaluationSession

`row` is the `evaluation_sessions` row with the columns that are read back.
`history`, `seen`, `skill`, `adaptation` and `completed` are what finalisation
and the endpoint write elsewhere. `StartSession` is `_start_session_impl`;
`Submit` a POST of the client. `ReadSession`/`Reject` are lines 469–485;
`Diagnose` the first LLM call and the appended answer; `GenerateProbe`/`NoProbe`
the second; `AfterAnswer` the decision at 566; `ComposeReport` to
`SaveAdaptationSummary` are `_finalize_impl`, one action per write;
`SaveSession` the overwrite at 595 or 612; `CompleteModule` the tail of the
endpoint. Two other writers set the module's completion without an evaluation,
`MarkComplete` (`POST …/complete`) and `SyncCompletes` (the sync of a plan, for
the modules before its index); `completed` therefore records which of the two
kinds has completed the module. Without a concept (`HasConcept`, line 791) a
report is not written to mastery and skill. Texts are left out: a question is its id and whether it is a base
question, an answer the question, whether it was a probe and its signal.
`SubmitPace` and `SubmitProbesUsed` are constants because the table has no
column for either, so `session.get` always gives its default. Scores are
compared in integers (fifths of an answer against percent). Of a report, the
decision and whether the mastery score reaches the threshold are kept, and left
independent when the LLM gives both, as the code does.

`EvaluationContract` forgets handlers, questions and reports. The mapping sends
the row's status to `phase`, its answers to `answers`, the number of history
records to `records`. One request at a time, the session implements it.

### CourseProgress

One course. `UpsertCourse` and `UpsertModule` are the statements of
`create_course_from_plan`, on behalf of a creation (`PersistCurriculum`) or a
listing (`ListCourses`); `UpsertRefused` is the foreign key of a row whose
parent was deleted. `CountModules` and `StoreProgress` are the SELECT and the
UPDATE of `recalculate_course_progress`; progress is kept as two counts instead
of their quotient. `AdvanceIndex` is the one thing the tutoring session changes
here, `current_index` of the plan.

### CourseCreation

Every request of one student that makes courses. A course has the number of its
plan. `CreateIntent`, `OpenStream` and `StartStream` are the job, the lookup of
its stream and the beginning of the response; `OpenStreamDirect` and
`CreateDirect` the two ways without a job. From there one action per statement:
`UpsertStudent`, `BuildCurriculum` (all the LLM calls), `Deactivate`,
`InsertCurriculum`, `UpsertCourse`, `UpsertModule`, `ReadCourse`,
`SaveMasterRoadmap`, `SaveCourseRoadmap`, `Report`. The listing, which a
creation runs itself for its snapshot of the history, goes through the same
`UpsertCourse` to `ReadCourse` for every stored plan. `Fail` is a statement that
fails and what its place makes of that (best effort, an error, a gauge left
behind), `Leave` a client that goes, `Restart` a server that does.

### CurriculumPlan

One build. `Profile` is what is trusted of the student's history and what that
seeds; `Cover`, `Sequence`, `AuditPasses`/`FillGaps` and `Lengthen` are the LLM
calls, each with the failures and the fallback it has; `Fix` the structural fix
and the deduplication; `Build` the compression of mastered concepts, the
roadmap, the ids and the learning path; `Repair` and `Accept` the validation. A
reply is any list of modules up to `MaxModules`; a module is its concept and the
roadmap step the LLM gave it. Similarity of concepts is equality; the gates that
compare words are left out.

### CourseSchedule

`PackModulesIntoDays`, `AssignTimes` and `BuildSchedule` translate the
algorithms, minutes in whole numbers. A loop is a recursive function of how many
modules or slots it has seen, whose step is an operator of its own: `Place` puts
a module on a day, `Fill` fills a slot, `Scheduled` goes on with a roadmap.
Every course of the given sizes is an initial state. `GenerateSchedule`,
`SaveCourseSchedule`, `ReadSchedule`, `UpdateScheduleModuleCompletion` and
`AnswerTick` are the statements of the requests: the document is read, written
back, and read again for the answer, and a handler may die between any two. What
is ticked is kept beside the days, since a tick touches nothing else of the
document; the id of a tick is not looked up, so it may be that of no module, and
the request then succeeds and flags nothing. Three variables are history: `told`
(what the answers said), `overlapped` (requests that were not alone all the
time) and `unsure` (modules with a written tick that no answer of a request that
was alone vouches for).

### ModuleLesson

A text is the number of the generation that wrote it, a question row the text
it asks about. `WaitsForLesson` states whether the client sends nothing else
for the module while its lesson is generated. Validation and the retry of the LLM
are one action that ends in a list, of any length of `Lengths`, or in none; each
request inserts its own list, and `lists` remembers the lengths. The chat is its six statements (`RecordQuestion` to `SaveProfile`): the
question, the reply, the doubt, the skill, and the profile read and written as a
whole. `SessionEnds` is a tutoring session that saves the profile as
`MetacognitionProfile` knows it. `BeginEvaluate` to `UpsertMastery` are the
answers to check questions, which always score 0.

### GroqClient

`kind[c]` is `generate`, `tool_call_loop` or `stream`. `RunInThread` gives a
request a thread when one is free; `Returned`, `RateLimited`, `WakeUp`,
`RequestFails` are the attempts; `ToolsCalled`, `ToolSays`, `Recovered` the tool
loop, in which a conversation is the roles of its messages. A stream is its
thread (`PutChunk`, `AnswerEnds`, `PutSentinel`) and its generator (`Get`,
`YieldChunk`, `GetSentinel`, `Join`) at the two ends of the bounded queue;
`CallerLeaves` is a consumer that closes the generator. Tokens, spans and the
parsing of arguments are left out; that a JSON argument may be malformed is not
(`ToolSays`).

### SessionServer

A session is its task, its two queues, its row in the table and the stream of
its client. A handler runs alone between two awaits, so an action is what
happens from one await that can wait to the next: `BeginStart` passes the test
of the lock, `LoadState` and `CreateSession` follow, and only the task takes it.
A reply carries the prompt the student meant it for, which the server cannot
see; `mixed` records a prompt that got the reply to another one. `BeginEnd`
cancels the task, and `EndSession` waits for room for its sentinel. `Cleanup`
sweeps, `Shutdown` and `SaveSessions` are the lifespan's end.

### TeachingLoop

Sessions of one student, one after another. In memory is the student state as
`load` made it; `rebuilt` is the plan an escalation put there while the loop
goes on with `curriculum`. `Teach`, `Evaluate`, `Adapt` and the routes
`Forward`, `Reteach`, `Detour`, `Escalate`, `Hold` are the loop of
`run_session`; `Deactivate`, `CreatePlan`, `ReplacePlan`, `BuildFails` a plan
that is built in it; `EndSession` and `Shutdown` the two ways of saving;
`SessionFails` and `Lose` what is not saved. A score is below the threshold of
the pace or not. The ids of modules that a session inserts are made from names:
`DetourName` is the concept with underscores for its spaces, `RevisitName` the
same cut off after 40 characters. Both are any functions of the concept, so two
concepts may share an id, and with it what is kept under it.

### ClassroomTest

Rows carry an id, the text under it and the request that inserted them.
`DeleteQuestions` and `InsertQuestions` are the two halves of the transaction of
`replace_test_questions` at PostgreSQL's default isolation: DELETE sees what was
committed when it starts, the primary key is looked at when inserting. The clock
is `Tick`. Title and instructions of a test, which can be edited in any status
and which nothing reads back, are left out, and so are requests that are
refused. Questions may be edited into one more, one with another text, or one
less.

### ClassroomAssignment

`Accept`, `AcceptChecks`, `AcceptJoins`, `AcceptMarks`, `AcceptLists` are
`accept_invitation` statement by statement; `Assign` and `AssignReads` the
assignment. Both then clone: `LooksUp` finds an assignment or none, `Clones` is
the transaction that makes course and row (the row's conflict is ignored, so a
second clone keeps its course), `CloneFails` its rollback. `Go` is leaving and
removal, `Register` and `Approve` the courses of a classroom, `DeleteClone` and
`DeleteTemplate` deletions by student and teacher, with their cascades. Names,
archiving and join codes, which no endpoint uses, are left out.

## Runs

Each passing run asks one question of one component, over every interleaving
within its bounds. `limit`, where a module has one (others have a constant bound
`MaxInFlight` instead), is chosen at first from `Limits`: in one half of the
behaviours requests come one at a time, in the other several are in flight, and
a property that needs the former says `limit = 1`.

| Run | Shows | Bounds |
|---|---|---|
| `EvaluationOneByOne` | One answer at a time, with retries and one answer out of turn: `AcknowledgedKept`, `FinalizedOncePerFault`, `ReportSound` (on record, in line with the skill, all base questions answered), `ActiveHasQuestion`, `CompletionEarned`, the refinement `KeepsContract`, the liveness `SessionsFinish` | 1 session, 2 probe ids, 8 requests (6 answers reach the limit, one is lost to a fault, one is refused), 1 fault, 1 stray answer; the LLM's reports have the module repeated, with either mastery, and the reports without it let the student go on or not; something else may complete the module at any time (`Elsewhere`). The theorems lift the bounds, concurrency included, for `ActiveHasQuestion` and `CompletionEarned`, and with one request at a time for the other safety properties, `ReportSound` under `RoomForAll` (the answer limit leaves room for the base questions) |
| `Courses` | `NoOrphans`, `RecalculationRepairs`, `CompletedStays` | 2 modules (one at and one after the index), 5 requests, one or three at a time, deletion anywhere, 1 fault; the theorems lift all bounds but the one request at a time of the last two |
| `LessonAwaited` | `SavedQuestions` (grounded in the text, and each one there that all lists have), `ChatOnRecord`, `LessonIsKept` | lists of 2 and of 4 questions, so that the rows of two requests meet in the middle, 5 requests, one or three at a time, 1 fault, 1 tutoring session |
| `Tests` | `PaperWhole`, `GradesAccounted`, `PaperKept`, `GradeIsFinal`, `ApprovedFirst`, and the liveness `AttemptsGraded` | a teacher and a student, each with one request at a time, interleaved; 1 generated question, 2 ids drawn, 2 autosaves, 1 fault, 1 analysis, two instants so that a window can open and close; the safety properties are proved for every value of these bounds, `ApprovedFirst` for any number of requests as well |
| `LLMCalls` | `EveryCallAnswered`, `StreamFaithful` (order, wholeness, errors), and the liveness `CallsEnd` | 2 calls of any kind on 1 thread, so that they wait for each other; 1 retry, 2 iterations, 2 tool calls in a message, a queue of 2 and 3 chunks, so that it fills. Both safety properties are proved for every value of the bounds |
| `Sessions` | `SessionsApart` (lock, and latest state), `OwnReply` for a punctual student, and the liveness `EndFreesStudent`, `EndedStops` | 2 sessions of 1 student, new or known; 4 requests, 2 prompts, a queue of 1, full after each put |
| `Teaching` | `QuestionsFit`, `FindingsOnRecord`, `NothingSkipped`, `EscalatedInTime` | 3 sessions, 4 lessons, 2 modules per session, plans of 2 and 1 modules, two detour concepts of one id, 2 doubts, 1 rebuilt plan, 1 fault: the lessons of two detours meet under one id, the reteach count crosses a session, and a session meets a plan another one changed |
| `Assignment` | `MembersHaveCourses`, `NoSpareCourses`, `AssignmentReaches` | 2 students, 1 course, one or two requests at a time, 1 fault, 1 deletion; requests are not counted |
| `Plan` | `PlanInOrder` (`NoRepeats`, `PathFollowsPlan`), `DroppedOnEvidence` | 2 concepts, one depending on the other; one may be in the history with any scores, one is excluded; lists of up to 3 modules, so that one repeats; the fast and the deep pace. Both properties are proved for every plan and every limit |
| `Schedule` | `SoundTimetables` (each module once and in order, the days asked for, breaks, leftovers only at the end, the roadmap's limits), `TicksShown` | every course of up to 3 modules of 20 and 45 minutes, days of 30 and 60 minutes, 1 and 3 days, up to 2 slots, the same one twice included; 3 requests, up to two at a time, 1 fault. Both properties are proved for every value of the bounds |
| `Creation` | `DoneIsWhole`, `CreationsInOrder` (`NewestPlanLoads`, `OneCoursePerJob`, `GaugeCovers`), and the liveness `JobsLeave` | plans of 2 modules, 1 job, 3 requests one at a time or 2 at once, 1 failed statement or restart |
| `LongTerm` | finding: the end of a tutoring session drops the doubts that the chat counted | |

Deadlock is not an error in any of them: a student may stop, and the bounds end
the requests. Each property of a passing run is broken by a slip in the code it
is about (the `mutants` of `PROJECT.json`).

**"One at a time".** Several properties hold only while each person waits for a
response before sending the next request; their comments say so. That is what
the client does that waits for its spinner, and not something the server
enforces. `Punctual` in `SessionServer` and `WaitsForLesson` in `ModuleLesson`
are of the same kind. What goes wrong otherwise is under *Disagreements*.

### Fairness

Handlers have weak fairness wherever liveness is checked, because the event loop
runs a task whose await has ended, and every await ends (the database pool and
the LLM client have timeouts, retries are bounded). Beyond that:

- `EvaluationSession!DiligentSpec`: weak fairness of the student answering the
  question shown; without it nobody would answer.
- `ClassroomTest!DiligentSpec`: strong fairness of a student's submission; a
  student busy with autosaves has no free request at times, and does submit
  some day.
- `GroqClient!FairSpec`: strong fairness of getting a thread; the executor's
  queue is first come first served. `CallsEnd` excludes a stream that was
  abandoned, of which nobody waits for the end.
- `SessionServer!FairSpec`: tasks and open streams; nothing of students, agents
  or the ends they choose.
- `CourseCreation!Spec`: handlers; whether a statement fails, a client leaves or
  the server restarts is free.
- `CurriculumPlan!Spec`: the build goes on.

Nothing is assumed of teachers, clocks, faults or of an LLM's success.

## Disagreements between code and documentation

`LongTerm` is the run of one: the comment at `course_service.py:1891` says
"long-term doubt counters", and a tutoring session writes the profile back
through a class that has no field for them (`student_model.py:487`).

Others were met while modelling. Where a formula is named, the module defines it
and TLC refutes it when it takes the place of the properties in the run's
configuration, with the change of bounds that is said; without a formula the
behaviour is one of the model's that no listed property excludes.

Evaluation and courses:

- `EvaluationSession!PaceCeiling` (`EvaluationOneByOne`). `evaluation_sessions`
  stores neither `pace` nor `probes_used`; every session is answered by the
  medium rules with a fresh probe budget. A fast session asks more than three
  questions (comment on `_PACE_CONFIG`), a medium one can get three probes
  (comment at `evaluation_agent.py:62`: two), and a deep one closes at six
  answers with a base question open (docstring at 464).
- Probe ids. The prompt always suggests `probe_1`, and a question counts as
  answered when an answer has its id: the second probe of that id is shown, and
  the session may close without its answer.
- `AcknowledgedKept` with `MaxInFlight = 2`: the row is read at 469 and
  overwritten whole at 612.
- A completed module says nothing of an evaluation: `POST …/complete`
  (`course_service.py:2179`) completes whatever module of the student it is given,
  and the sync of a plan those before its index (`postgres.py:1245`). Only what
  the endpoint of answers completes is earned (`CompletionEarned`).
- Progress. With two completions at once the older count can be stored last;
  the next recalculation repairs it. The sync of a listing sets a module that
  was opened for reading back to `not_started` (`postgres.py:1268`).
- `ModuleLesson!VideosAreKept` (`LessonAwaited`): the sync also overwrites the
  metadata that holds the videos. `ModuleLesson!MasteryKept`: the older endpoint
  for check answers writes mastery 0 over what an evaluation earned.
- With `WaitsForLesson = FALSE`, `LessonIsKept` and `SavedQuestions` fail: two
  tabs generate the lesson twice, and questions about the first text survive the
  second. Two chats at once lose a count of the profile.
- Two saves of question lists of different lengths can leave a gap: of 4 and 2, r1
  inserts three, r2 deletes them, r1 inserts its fourth, r2 its two, and question 3
  is missing without any failure. `QuestionsWhole` therefore speaks of the positions
  all lists have; for lists of one length that is all of them.

Creation and planning:

- A failure after the plan is stored is told as an error, yet the plan becomes a
  course with the next listing, without a roadmap until one is regenerated.
- Two streams of one job that overlap make two courses: the job is there until
  its stream ends. A client that leaves before the response begins, and one that
  never streams, leave the job in the table.
- `active_course_creations` is described as the creation jobs in flight
  (`core/metrics.py:207`); it covers the planning only, and stays up after a
  stream that is cancelled in it and after a failed `ensure_student`.
- Two creations interleaved leave two active plans; a crash between UPDATE and
  INSERT, or the deletion of the newest course, leaves none. A roadmap
  regenerated during a creation may lack modules.
- `CurriculumPlan!GatesHold` (`Plan`): the docstring of
  `validate_curriculum_quality` promises gates before persisting, and a plan is
  persisted with the issues its one repair left. `NotEmpty`: a plan has no
  module when the LLM gives nothing but blanks. `WeakIsTaught`: a weak concept is
  left out when the student has declared it known. `BuildEnds` holds; it is not
  among the listed runs because only the failures of calls could break it.

Schedules:

- `CourseSchedule!NoDayOverstuffed` (`Schedule`): "so no day is overstuffed"
  (docstring at `schedule_agent.py:81`), while the days are counted as if modules could be
  cut, and the last one takes what is left.
- Of two ticks at once one is lost, and a tick that read before a regeneration
  puts the old document back, both with a success for an answer; a handler that
  dies after its write leaves a tick nobody was told of. `TicksShown` leaves
  these modules out (`unsure`) and says that nothing else is touched. A tick is
  also answered as a success when the row is gone meanwhile or the id is that of
  no module.
- The same slot asked for twice, or a morning that is too long for its slot,
  gives sessions that overlap those of the other slot; a long day runs past
  midnight. The roadmap's day may be ten minutes over its capacity.

Classrooms:

- `ClassroomAssignment!EveryMemberHasCourses` (`Assignment`): an acceptance
  beside an assignment falls between its two reads, and an acceptance that dies
  after the membership is answered as already a member afterwards. A removal
  between the check and the upsert of an acceptance is undone. Two clones at
  once leave a course without an assignment; an approval that races an
  assignment sets the course back to approved.
- With two slots per person in `Tests`, `PaperKept` (autosave of questions
  during a publication), `PaperWhole` (rows of two replacements),
  `GradesAccounted` (an autosave acknowledged during the grading is not graded)
  and `GradeIsFinal` (two submissions) fail. `ClassroomTest!AnalysisCurrent`
  fails with one: an analysis computed before a grading is cached as fresh
  after it, and a submission that dies after the grade never sets the flag. A
  draft that dies before its questions can go live without any.

Tutoring:

- `SessionServer!OneSession` (`Sessions`): the first session of a new student
  has no lock, so a second one runs beside it. With `Punctual = FALSE`,
  `OwnReply` and `DoubtIsNoAnswer` fail: a reply to a doubt prompt that has
  timed out, or a second answer to one question, waits for the next prompt.
  Emitted text is dropped after ten seconds of a full queue.
- `GroqClient!TimeoutRaised` (`LLMCalls`): the sentinel reaches the
  generator before the failure, and the join of the thread swallows a timeout:
  a stream that was cut by one ends as complete. It also swallows the
  cancellation of the caller.
- `TeachingLoop!EndKeepsProgress` (`Teaching`): the end of a session does not
  store the index of the plan; a shutdown does, into whatever plan is active,
  for sessions that had ended too. After an escalation the loop goes on with the
  plan it had while the agents read the new one, whose ids start again at `m1`:
  lessons mix, and mastery is looked up by id. A failure of the summary or of
  the routing call loses the session whole.
- `TeachingLoop!OneConcept` (`Teaching`, stated in `TeachingLoop_proofs`): two
  detours whose concepts differ in a space and an underscore
  (`agents/orchestrator.py:544`), or two revisits that agree in their first 40
  characters (`:842`), have one id; the second is evaluated on the lessons of
  both, though `core/student_model.py:286-287` calls what is kept the
  authoritative source for its questions. `QuestionsFit` therefore admits
  namesakes, and `DistinctNamesSuffice` proves that without them nothing mixes.

## Proofs

Eleven modules are proved about. Each theorem holds for every value of the
constants that the assumptions of its module admit: any sets of students,
sessions, requests, plans and ids, and every bound on requests, faults and the
like, so that what a run shows on a small instance holds on every one. Nothing
else is assumed; where a property needs a client that waits for its response,
the theorem says so (`MaxInFlight = 1`, `OneRequest`, `WaitsForLesson`,
`Punctual`, or `limit = 1` inside of the property). Three modules are proved
about through an instance of them, in the proofs of the component that calls
them; there what they assume of their constants is a hypothesis of the theorem,
word for word (`LLMBounds`, `PlanBounds`, `ScheduleBounds`).

| Module | Theorem | States |
|---|---|---|
| `EvaluationSession` | `TypeCorrect`, `NeverStuck`, `ReportedWhenExhausted`, `ReportsOnRecord`, `CompletionIsEarned`, `HandlersInStep`, `SessionsBounded` | `[]TypeOK`, `[]ActiveHasQuestion`, `[]CompletedExhausted`, `[]CompletedOnRecord`, `[]CompletionEarned`, `[]HandlerInv`, `[]Bounded`, for any number of answers handled at once |
| | `OneByOne`, `AnswersKept`, `FinalizedOnce`, `SkillAsReported`, `ContractKept` | with `MaxInFlight = 1`: `[]OneInv`, `[]AcknowledgedKept`, `[]FinalizedOncePerFault`, `[]SkillMatchesReport`, and the refinement `KeepsContract` |
| | `NoBaseLeftOut`, `ReportsAreSound` | with `MaxInFlight = 1`, `ProbesApart` and `RoomForAll`: `[]BaseAnswered`, `[]ReportSound` |
| `CourseProgress` | `TypeCorrect`, `DeletionIsWhole`, `ProgressIsRepaired`, `CompletionStays` | `[]TypeOK`, `[]NoOrphans`, `RecalculationRepairs`, `CompletedStays` |
| `ModuleLesson` | `TypeCorrect`, `ChatIsOnRecord` | `[]BaseInv`, `[]ChatOnRecord` |
| | `LessonStays`, `QuestionsAreWhole` | with `WaitsForLesson`: `LessonIsKept`, `[]SavedQuestions` |
| `ClassroomTest` | `TypeCorrect`, `NothingBeforeApproval`, `DraftsAreApproved`, `GradedAnswersSealed` | `[]TypeOK`, `[]Reviewed`, `ApprovedFirst`, `AnswersSealed`, for any number of requests per person |
| | `GradesAddUp`, `GradesStay`, `PapersAreWhole`, `PapersAreKept`, `TestsMoveForward` | with `OneRequest`: `[]GradesAccounted`, `GradeIsFinal`, `[]PaperWhole`, `PaperKept`, `MovesForward` |
| `ClassroomAssignment` | `TypeCorrect`, `AssignmentReachesAll`, `SpareCoursesBounded`, `NobodyLeftOut` | `[](TypeOK /\ Admitted)`, `AssignmentReaches`, `[]NoSpareCourses`, `[]MembersHaveCourses` |
| `CourseCreation` | `TypeCorrect`, `DoneCoursesAreWhole`, `PlansAndBooksInOrder` | `[]BaseInv`, `[]DoneIsWhole`, `[]CreationsInOrder` |
| `CurriculumPlan` | `PlansAreInOrder`, `DropsHaveEvidence` | `[]PlanInOrder`, `[]DroppedOnEvidence` |
| `CourseSchedule` | `TimetablesAreSound`, `TicksAreShown` | `[]SoundTimetables`, `[]TicksShown` |
| `GroqClient` | `CallsAreTyped`, `ToolCallsAreAnswered`, `StreamsAreFaithful`, `GivesUpLast` | `[]TypeOK`, `[]EveryCallAnswered`, `[]StreamFaithful`, and that only the last attempt gives up |
| `SessionServer` | `TypeCorrect`, `SessionsStayApart` | `[]TypeOK`, `[]SessionsApart` |
| | `OwnReplies` | with `Punctual`: `[]OwnReply` |
| `TeachingLoop` | `TypeCorrect`, `QuestionsAreFit`, `DistinctNamesSuffice`, `FindingsAreKept`, `NothingIsSkipped`, `EscalatesInTime` | `[]BaseInv`, `[]QuestionsFit`, with distinct names `[]OneConcept`, `[]FindingsOnRecord`, `[]NothingSkipped`, `[]EscalatedInTime` |

No property of a run is inductive as it stands. In the components that handle
requests it is for one reason: a request acts on what it read awaits ago, and the
strengthening says what it may rely on at each place where it stands. Every
inductive invariant was checked by TLC on the run of its module before it was
proved.

**`EvaluationSession`.** `IInv == TypeOK /\ Bounded /\ HandlerInv /\ RowsInv`.
`RowsInv` collects the promises of stored rows; `HandlerInv` (`InStep`) says per
place what a handler may rely on *without looking at the row*, and this is why
overwriting is harmless to it: any handler stores a row that keeps the promises
by itself. `Bounded` is needed because a handler decides on the length of what
it holds. `CompletionEarned` follows from the place before `CompleteModule`, where
the report is in the history and its decision was looked at; what else completes
the module changes nothing the invariant speaks of but the set of completers. `OneInv` adds what holds of a handler that is alone: what it will
write is the row, which is still what it read, and one answer more
(`HandlerRow`); what it has concluded is what the skill and the newest record
say; the records of a session number the faults, and one more when its report is
there or on its way (`RecordsOK`). The refinement follows: by `SaveIsTakeOrClose`
the overwrite is the contract's `Take` or `Close`, `WriteEvaluation` its record,
and everything else a stutter.

**`CourseProgress`.** `IInv == TypeOK /\ NoOrphans`: a statement that makes a row
needs its parent at that moment, a statement that updates touches no row that is
absent, and the deletion takes everything at once. `OneInv` adds, for one request
at a time, that what is about to be stored is what would be counted now (`Fresh`),
which no request that died can spoil, and that a module about to be set in
progress has no lesson yet (`Unwritten`). That a course is completed exactly when
all its modules are is `AllCompleted`, about cardinalities.

**`ModuleLesson`.** `LessonInv`: while a lesson is generated no other request is
handled, and a text is there only once it is saved. `FillInv`: a question that all
lists have and that is missing is still filled in by somebody who comes to it
before a row that is there stops it (`Fills`), however many requests insert.
`ChatInv` balances the rows of a message against the requests that still have to
write them.

**`ClassroomTest`.** The status is checked in one await and written in another,
so what protects a draft is what a request that passed the check can write:
`MoveOK`, that a transition waiting to be written over a draft is an approval;
`VisitOK`, that a student's request past its check means the test was approved.
With one request per person, `MarkInv` says that the attempt a submission found
is still in progress with the answers it read, and that what was acknowledged,
what the row has and what was graded are the same; `PaperInv`, that an edit finds
the test and the questions where it left them, that attempts come after the
release, and that a test without questions is one a request still works on.

**`ClassroomAssignment`.** `ReachInv`: an assignment still has before it every
member it has read but those who have the course and those whose clone failed.
`CountInv`: clones made and requests that found the pair missing number no more
than requests in flight, which is why a spare course needs two that looked before
either wrote. `AloneInv`: a member without an assigned course is one whose
acceptance is not over (`GapsHeld`).

**`CourseCreation`.** `WholeInv` says per place how far a creation has brought its
course, listings and deletions notwithstanding; `ShownInv` that a roadmap is
built from all of the modules; `NewestInv` and `OneActiveInv` are about the two
statements of a stored plan, `OnceInv` about jobs, and `GaugeInv` bounds the
gauge from below by the handlers that plan.

**`SessionServer`.** `ApartInv`: whoever is between the test of the lock and its
release was told to take it (`LockOK`); a session is in the table as long as its
task is not over (`TableOK`); what a start loaded is what was saved last, unless
it was started beside another (`LatestOK`). `ReplyInv`: one reply is on its way
or in the queue while its prompt waits, or none.

**`TeachingLoop`.** `BaseInv` adds to the types that between a lesson and what
follows from it there is a module to work on. `FitInv`: modules of the same id
are namesakes, in a plan of the same concept, and what is kept under an id is
about namesakes, the ids of modules yet to be inserted included. `FindInv`: completed concepts are those of
modules still on the list. `SkipInv`: until a session inserts modules or
rebuilds the plan, it works on the plan that is stored, with completed modules
only before its index; a rebuilt plan is never moved on. The lemma `Inserted`
says what an insertion into a list does, at any index.

**`GroqClient`.** The place of a thread fixes what is in its queue and what was
handed out: the chunks received are the ones yielded, those in the queue and the
one in hand, in this order, and a sentinel is last and alone. A conversation that
goes to the LLM ends in as many tool results as the last message asked for.

**`CurriculumPlan`.** `PlanInv`: a list that was fixed has ids, and no two modules
of a concept unless the replacement of a short list was taken as it came; what is
built from it keeps that, since compression picks modules and never makes any
(`PickedKeeps`). A step of the roadmap holds a module if the step was not left
out when the steps were numbered again (`RenumberedShown`). What compression
drops has a mastery that the profile seeded, and `StudentOK` says that a seed is a
declaration trusted, or a score on record.

**`CourseSchedule`.** Most of the argument is about one computation. `PackedOK`:
the days so far and the one being filled are the modules so far, in order, and the
one being filled has no more than a day's minutes or is the last there is.
`Filled`: what is laid out and what is left are the modules of the day, in order;
a slot that was not seen before begins after nothing of its own (`FillKeeps`), and
what fits nowhere begins five minutes after the last of its slot
(`LeftoverAfter`). `BuiltOK`: a day of a roadmap with two modules or more was
placed with twenty minutes to spare, of which finishing it takes at most ten more
than there are. `TimetableInv` is then that every document a request holds is such
a timetable while there is the course. For `TicksShown` there are two parts more:
`OverlapInv`, that of two requests in hand each is marked as overlapped, and
`AgreeInv`, that about a module an answer vouches for the row, every document
about to be written over it and `told` agree: a request that was alone leaves
nobody behind who holds an older document.

**Room for the base questions.** `BaseAnswered` is not true of every pace and
number of failures: the limit of six answers is reached first by a deep session or
after enough failures. `NoBaseLeftOut` has as hypothesis (`RoomForAll`) that the
answers which probes, strays and faults cost leave room for the base questions,
and counts what each base question has cost so far. The hypothesis is exact where TLC looked:
the property is violated by a medium session with two faults or one stray, and by
a fast one with a stray and two faults.

**One request at a time.** The hypothesis `OneRequest` is needed by each of the
five theorems of `ClassroomTest` that have it: with two requests per person and
no bound changed but that of the analyses, TLC finds each of the properties
violated.

**Computations.** `CurriculumPlan` and `CourseSchedule` compute over lists of any
length. The library's induction theorems take an operator as a parameter, which
cannot be used here, but induction can be had from the well-foundedness of `<` on
the naturals: `LeastOf` (a set of naturals has a least element), `UpTo` (what
holds of 0 and of each number whose predecessor has it holds up to n) and
`Stepwise` (a function that takes n steps exists). A loop that is written as a
recursive function is unfolded with these (`TotalAdds`, `PacksOneByOne`,
`FillsInTurn`, `BuildsOneByOne`, `FlattenAdds`), and its invariant is proved
step by step.

### Only model-checked

- Liveness (`SessionsFinish`, `AttemptsGraded`, `CallsEnd`, `EndFreesStudent`,
  `EndedStops`, `JobsLeave`), which rests on fairness: the prover has no rules for
  it here.
- `LongTermDoubts`, which does not hold.

Every other property of the runs is stated by a theorem.

## Not modelled

The components marked `not_modelled` in `PROJECT.json`, and of the others:

- the texts of questions, answers, lessons and reports, and the validation of
  LLM output other than its outcome (valid, or the fallback);
- read-only endpoints, among them the replay stream of a course, which reports
  half-made courses as done, and metrics other than the gauge;
- prior knowledge and the decision log of a course, the styles and calibration
  of the learner's profile, tokens and spans of LLM calls;
- the gates of `curriculum_quality.py` that compare words, and its validators of
  roadmaps and lessons, which no live path calls;
- archiving and join codes of classrooms, which no endpoint uses.

The database is assumed to do what PostgreSQL documents: a statement is atomic, a
constraint that fails writes nothing, a transaction at READ COMMITTED sees at
each statement what is committed. Time is left out but for the clock of a test:
a wait with a limit may end by it at any moment.

## Plan

What can be modelled is, and every safety property that a run shows to hold is
proved. What is left:

1. `CourseCreation`: what `CreationsInOrder` says of one request at a time, for
   requests that interleave but do not share a job. That a job makes one course
   rests on its client coming back only after a failure, which would have to be
   stated of the clients instead of the server.
2. `ClassroomTest`: `OneRequest` bounds the teacher and the students alike. The
   grades need it of students and the paper of the teacher only; a bound for each
   would give weaker hypotheses.
3. `CourseSchedule`: how far a day is over its minutes when it is the last one. The
   packer promises nothing of it; see the disagreements.
