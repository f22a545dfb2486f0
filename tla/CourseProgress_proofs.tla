------------------------ MODULE CourseProgress_proofs ------------------------
(***************************************************************************)
(* Proofs about CourseProgress: its types, and that no interleaving of     *)
(* requests with a deletion leaves orphans, for every number of modules    *)
(* and requests and all bounds; one request at a time, that progress is    *)
(* repaired and what is completed stays.                                   *)
(***************************************************************************)
EXTENDS CourseProgress, FiniteSetTheorems, TLAPS

\* NoOrphans is inductive beside the types.
IInv == TypeOK /\ NoOrphans

USE ModuleAssumption DEF Module, Status

LEMMA NothingTyped == Nothing \in Progress
BY DEF Nothing, Progress

LEMMA NoJobTyped == NoJob \in Job
BY NothingTyped DEF NoJob, Job, Progress

LEMMA NoCourseTyped ==
    NoCourse \in [there : BOOLEAN, status : {"active", "completed"}, progress : Progress]
BY NothingTyped DEF NoCourse

LEMMA InitIInv == Init => IInv
BY NoJobTyped, NoCourseTyped DEF Init, IInv, TypeOK, NoOrphans, NoCourse

\* A request begins and ends with a job of its type.
LEMMA BeginTyped ==
    ASSUME TypeOK, NEW r \in Request, NEW to, NEW work \in Job, Begin(r, to, work),
           to \in {"upsert_course", "set_status"}
    PROVE  /\ job' \in [Request -> Job]
           /\ pc' \in [Request -> {"idle", "upsert_course", "upsert_module", "count",
                                   "store", "set_status", "lesson"}]
           /\ begun' \in Nat
BY DEF TypeOK, Begin

LEMMA EndTyped ==
    ASSUME TypeOK, NEW r \in Request, End(r)
    PROVE  /\ job' \in [Request -> Job]
           /\ pc' \in [Request -> {"idle", "upsert_course", "upsert_module", "count",
                                   "store", "set_status", "lesson"}]
BY NoJobTyped DEF TypeOK, End, Goto

\* What is counted is a progress.
LEMMA CountTyped ==
    ASSUME TypeOK
    PROVE  [done |-> Cardinality(Completed), total |-> Cardinality(Rows)] \in Progress
<1>1. IsFiniteSet(1..N) /\ Cardinality(1..N) = N
  BY FS_Interval
<1>2. ASSUME NEW S \in SUBSET (1..N)
      PROVE  Cardinality(S) \in 0..N
  <2>1. IsFiniteSet(S) /\ Cardinality(S) <= Cardinality(1..N)
    BY <1>1, FS_Subset
  <2>2. Cardinality(S) \in Nat
    BY <2>1, FS_CardinalityType
  <2> QED BY <1>1, <2>1, <2>2
<1>3. Completed \in SUBSET (1..N) /\ Rows \in SUBSET (1..N)
  BY DEF Completed, Rows
<1> QED BY <1>2, <1>3 DEF Progress

-----------------------------------------------------------------------------
(* Every step keeps the types and the absence of orphans. *)

\* What creates rows does so only under their parents.
LEMMA SyncKeeps ==
    ASSUME IInv, NEW r \in Request,
           \/ PersistCurriculum(r) \/ ListCourses(r) \/ UpsertCourse(r)
           \/ UpsertModule(r) \/ UpsertRefused(r)
    PROVE  IInv'
<1>1. CASE PersistCurriculum(r)
  BY <1>1, NoJobTyped, BeginTyped
  DEF IInv, TypeOK, NoOrphans, PersistCurriculum
<1>2. CASE ListCourses(r)
  <2>1. [NoJob EXCEPT !.index = index] \in Job
    BY NoJobTyped DEF IInv, TypeOK, Job
  <2> QED BY <1>2, <2>1, BeginTyped DEF IInv, TypeOK, NoOrphans, ListCourses, tables
<1>3. CASE UpsertCourse(r)
  BY <1>3 DEF IInv, TypeOK, NoOrphans, UpsertCourse, Goto
<1>4. CASE UpsertModule(r)
  <2>1. job[r].module \in Module /\ job[r] \in Job
    BY DEF IInv, TypeOK, Job
  <2>2. \A m \in Module : \A i : PlanStatus(m, i) \in Status
    BY DEF PlanStatus
  <2>3. ASSUME job[r].module < N
        PROVE  [job EXCEPT ![r].module = job[r].module + 1] \in [Request -> Job]
    <3>1. [job[r] EXCEPT !.module = job[r].module + 1] \in Job
      BY <2>1, <2>3 DEF Job
    <3> QED BY <3>1 DEF IInv, TypeOK
  <2>4. module' \in [Module -> Status \union {"absent"}]
    BY <1>4, <2>1, <2>2 DEF IInv, TypeOK, UpsertModule
  <2>5. \A m \in Module : module[m] # "absent" => module'[m] # "absent"
    BY <1>4, <2>1, <2>2 DEF IInv, TypeOK, UpsertModule
  <2>6. TypeOK'
    BY <1>4, <2>3, <2>4 DEF IInv, TypeOK, UpsertModule, Goto
  <2> QED BY <1>4, <2>5, <2>6 DEF IInv, NoOrphans, UpsertModule
<1>5. CASE UpsertRefused(r)
  BY <1>5, EndTyped DEF IInv, TypeOK, NoOrphans, UpsertRefused, tables
<1> QED BY <1>1, <1>2, <1>3, <1>4, <1>5

\* Counting and storing touch no row but the progress of one that is there.
LEMMA RecalculateKeeps ==
    ASSUME IInv, NEW r \in Request, CountModules(r) \/ StoreProgress(r)
    PROVE  IInv'
<1>1. CASE CountModules(r)
  <2> DEFINE counted == [done |-> Cardinality(Completed), total |-> Cardinality(Rows)]
  <2>2. [job[r] EXCEPT !.count = counted] \in Job
    BY CountTyped DEF IInv, TypeOK, Job
  <2>3. job' \in [Request -> Job]
    BY <1>1, <2>2 DEF IInv, TypeOK, CountModules
  <2> QED BY <1>1, <2>3 DEF IInv, TypeOK, NoOrphans, CountModules, Goto, tables
<1>2. CASE StoreProgress(r)
  <2>1. job[r].count \in Progress /\ StatusFor(job[r].count) \in {"active", "completed"}
    BY DEF IInv, TypeOK, Job, StatusFor
  <2>2. /\ course' \in [there : BOOLEAN, status : {"active", "completed"},
                        progress : Progress]
        /\ course'.there = course.there
    BY <1>2, <2>1 DEF IInv, TypeOK, StoreProgress
  <2>3. job' \in [Request -> Job]
    <3>1. CASE job[r].then = "idle"
      BY <1>2, <3>1, EndTyped DEF IInv, StoreProgress
    <3>2. CASE job[r].then # "idle"
      <4>1. [job[r] EXCEPT !.then = "idle"] \in Job
        BY DEF IInv, TypeOK, Job
      <4>2. job' = [job EXCEPT ![r] = [job[r] EXCEPT !.then = "idle"]]
        BY <1>2, <3>2 DEF StoreProgress
      <4> QED BY <4>1, <4>2 DEF IInv, TypeOK
    <3> QED BY <3>1, <3>2
  <2>4. pc' \in [Request -> {"idle", "upsert_course", "upsert_module", "count",
                             "store", "set_status", "lesson"}]
    BY <1>2 DEF IInv, TypeOK, StoreProgress, End, Goto
  <2> QED BY <1>2, <2>2, <2>3, <2>4 DEF IInv, TypeOK, NoOrphans, StoreProgress
<1> QED BY <1>1, <1>2

\* A module that is absent gets neither status nor lesson.
LEMMA ModuleKeeps ==
    ASSUME IInv, NEW r \in Request,
           \/ \E m \in Module : BeginComplete(r, m) \/ BeginGenerate(r, m)
           \/ SetModuleStatus(r) \/ SaveModuleContent(r) \/ LessonFails(r)
    PROVE  IInv'
<1>1. ASSUME NEW m \in Module, BeginComplete(r, m) \/ BeginGenerate(r, m)
      PROVE  IInv'
  <2>1. /\ [NoJob EXCEPT !.module = m, !.status = "completed"] \in Job
        /\ [NoJob EXCEPT !.module = m, !.status = "in_progress", !.then = "lesson"] \in Job
    BY NoJobTyped DEF Job
  <2> QED BY <1>1, <2>1, BeginTyped
          DEF IInv, TypeOK, NoOrphans, BeginComplete, BeginGenerate, tables
<1>2. CASE SetModuleStatus(r)
  <2>1. job[r].module \in Module /\ job[r].status \in Status
    BY DEF IInv, TypeOK, Job
  <2> QED BY <1>2, <2>1 DEF IInv, TypeOK, NoOrphans, SetModuleStatus, Goto
<1>3. CASE SaveModuleContent(r)
  <2>1. job[r].module \in Module
    BY DEF IInv, TypeOK, Job
  <2> QED BY <1>3, <2>1 DEF IInv, TypeOK, NoOrphans, SaveModuleContent, Goto
<1>4. CASE LessonFails(r)
  BY <1>4, EndTyped DEF IInv, TypeOK, NoOrphans, LessonFails, tables
<1> QED BY <1>1, <1>2, <1>3, <1>4

\* A deletion takes everything at once, wherever the handlers stand.
LEMMA AroundKeeps ==
    ASSUME IInv, DeleteCourse \/ AdvanceIndex \/ \E r \in Request : Fault(r)
    PROVE  IInv'
<1>1. CASE DeleteCourse
  BY <1>1, NoCourseTyped DEF IInv, TypeOK, NoOrphans, DeleteCourse, NoCourse, handler
<1>2. CASE AdvanceIndex
  BY <1>2 DEF IInv, TypeOK, NoOrphans, AdvanceIndex, handler
<1>3. ASSUME NEW r \in Request, Fault(r)
      PROVE  IInv'
  BY <1>3, EndTyped DEF IInv, TypeOK, NoOrphans, Fault, tables
<1> QED BY <1>1, <1>2, <1>3

LEMMA Inductive == IInv /\ [Next]_vars => IInv'
<1>1. ASSUME IInv, Next
      PROVE  IInv'
  BY <1>1, SyncKeeps, RecalculateKeeps, ModuleKeeps, AroundKeeps DEF Next, Handle
<1>2. ASSUME IInv, UNCHANGED vars
      PROVE  IInv'
  BY <1>2 DEF vars, tables, handler, IInv, TypeOK, NoOrphans, Rows
<1> QED BY <1>1, <1>2

\* The inductive invariant holds.
THEOREM Invariance == Spec => []IInv
BY InitIInv, Inductive, PTL DEF Spec

\* Tables and handlers hold values of their types.
THEOREM TypeCorrect == Spec => []TypeOK
<1>1. IInv => TypeOK
  BY DEF IInv
<1> QED BY <1>1, Invariance, PTL

\* However many requests are in the middle of their statements when a course
\* is deleted, none of them leaves a course without its plan, a module
\* without its course or a lesson without its module.
THEOREM DeletionIsWhole == Spec => []NoOrphans
<1>1. IInv => NoOrphans
  BY DEF IInv
<1> QED BY <1>1, Invariance, PTL

-----------------------------------------------------------------------------
(* One request at a time *)

\* What a recalculation would count now.
Counted == [done |-> Cardinality(Completed), total |-> Cardinality(Rows)]

\* With a limit of one, no two requests are being handled.
Alone == \A a, b \in Request : pc[a] # "idle" /\ pc[b] # "idle" => a = b

\* What is about to be stored has not changed since it was counted.
Fresh == \A r \in Request : pc[r] = "store" /\ course.there => job[r].count = Counted

\* A module that is about to be set in progress has no lesson yet.
Unwritten ==
    \A r \in Request :
      pc[r] = "set_status" /\ job[r].status # "completed" => ~lesson[job[r].module]

OneInv ==
    /\ IsFiniteSet(InFlight)
    /\ limit = 1 => Alone /\ Fresh /\ Unwritten

\* Nothing is being handled at first.
LEMMA OneInit == Init => OneInv
<1> SUFFICES ASSUME Init PROVE OneInv
  OBVIOUS
<1>1. \A r \in Request : pc[r] = "idle"
  BY DEF Init
<1>2. InFlight = {}
  BY <1>1 DEF InFlight
<1> QED BY <1>1, <1>2, FS_EmptySet DEF OneInv, Alone, Fresh, Unwritten

\* A request that begins is alone, if there is to be but one.
LEMMA BeginAlone ==
    ASSUME TypeOK, OneInv, NEW r \in Request, NEW to, NEW work, Begin(r, to, work),
           to \in {"upsert_course", "set_status"}, UNCHANGED limit
    PROVE  /\ IsFiniteSet(InFlight)'
           /\ limit = 1 => /\ \A q \in Request : q # r => pc'[q] = "idle"
                           /\ pc'[r] = to /\ job'[r] = work
<1>1. pc' = [pc EXCEPT ![r] = to] /\ job' = [job EXCEPT ![r] = work]
  BY DEF Begin
<1>2. /\ pc'[r] = to /\ job'[r] = work
      /\ \A q \in Request : q # r => pc'[q] = pc[q]
  BY <1>1 DEF TypeOK
<1>3. InFlight' = InFlight \cup {r}
  BY <1>2 DEF InFlight
<1>4. IsFiniteSet(InFlight')
  BY <1>3, FS_AddElement DEF OneInv
<1>5. ASSUME limit = 1
      PROVE  InFlight = {}
  <2>1. PICK n \in Nat : n = Cardinality(InFlight)
    BY FS_CardinalityType DEF OneInv
  <2>2. n < 1
    BY <1>5, <2>1 DEF Begin
  <2>3. Cardinality(InFlight) = 0
    BY <2>1, <2>2
  <2> QED BY <2>3, FS_EmptySet DEF OneInv
<1>6. limit = 1 => \A q \in Request : q # r => pc'[q] = "idle"
  BY <1>2, <1>5 DEF InFlight
<1> QED BY <1>2, <1>4, <1>6

\* A request that begins comes before anything is counted or set.
LEMMA BeginKeepsOne ==
    ASSUME TypeOK, OneInv, NEW r \in Request,
           \/ PersistCurriculum(r) \/ ListCourses(r)
           \/ \E m \in Module : BeginComplete(r, m) \/ BeginGenerate(r, m)
    PROVE  OneInv'
<1>1. CASE PersistCurriculum(r) \/ ListCourses(r)
  <2>1. PICK work : Begin(r, "upsert_course", work) /\ UNCHANGED limit
    BY <1>1 DEF PersistCurriculum, ListCourses
  <2>2. /\ IsFiniteSet(InFlight)'
        /\ limit = 1 => /\ \A q \in Request : q # r => pc'[q] = "idle"
                        /\ pc'[r] = "upsert_course"
    BY <2>1, BeginAlone
  <2> QED BY <2>1, <2>2 DEF OneInv, Alone, Fresh, Unwritten
<1>2. ASSUME NEW m \in Module, BeginComplete(r, m) \/ BeginGenerate(r, m)
      PROVE  OneInv'
  <2>1. PICK work : /\ Begin(r, "set_status", work) /\ UNCHANGED <<limit, lesson>>
                    /\ work.module = m
                    /\ work.status # "completed" => ~lesson[m]
    <3>1. UNCHANGED <<limit, lesson>>
      BY <1>2 DEF BeginComplete, BeginGenerate, tables
    <3>2. CASE BeginComplete(r, m)
      <4>1. PICK work : work = [NoJob EXCEPT !.module = m, !.status = "completed"]
        OBVIOUS
      <4>2. work.module = m /\ work.status = "completed"
        BY <4>1 DEF NoJob
      <4>3. Begin(r, "set_status", work)
        BY <3>2, <4>1 DEF BeginComplete
      <4> QED BY <3>1, <4>2, <4>3
    <3>3. CASE BeginGenerate(r, m)
      <4>1. PICK work : work = [NoJob EXCEPT !.module = m, !.status = "in_progress",
                                             !.then = "lesson"]
        OBVIOUS
      <4>2. work.module = m
        BY <4>1 DEF NoJob
      <4>3. Begin(r, "set_status", work) /\ ~lesson[m]
        BY <3>3, <4>1 DEF BeginGenerate
      <4> QED BY <3>1, <4>2, <4>3
    <3> QED BY <1>2, <3>2, <3>3
  <2>2. /\ IsFiniteSet(InFlight)'
        /\ limit = 1 => /\ \A q \in Request : q # r => pc'[q] = "idle"
                        /\ pc'[r] = "set_status" /\ job'[r] = work
    BY <2>1, BeginAlone
  <2> QED BY <2>1, <2>2 DEF OneInv, Alone, Fresh, Unwritten
<1> QED BY <1>1, <1>2

\* A request that goes on or ends adds none.
LEMMA StaysAlone ==
    ASSUME OneInv, UNCHANGED limit,
           \A q \in Request : pc'[q] # "idle" => pc[q] # "idle"
    PROVE  IsFiniteSet(InFlight)' /\ (limit = 1 => Alone')
<1>1. InFlight' \subseteq InFlight
  BY DEF InFlight
<1>2. IsFiniteSet(InFlight')
  BY <1>1, FS_Subset DEF OneInv
<1>3. limit = 1 => Alone'
  BY DEF OneInv, Alone
<1> QED BY <1>2, <1>3

\* When a request goes on, it is the only one there is, and what it will store
\* or set is what it finds.
LEMMA HandleKeepsOne ==
    ASSUME TypeOK, OneInv, NEW r \in Request, Handle(r) \/ Fault(r)
    PROVE  OneInv'
<1>1. /\ pc[r] # "idle" /\ UNCHANGED limit
      /\ \A q \in Request : q # r => pc'[q] = pc[q]
  <2>1. CASE UpsertCourse(r) \/ UpsertModule(r) \/ UpsertRefused(r) \/ CountModules(r)
    BY <2>1 DEF TypeOK, UpsertCourse, UpsertModule, UpsertRefused, CountModules, Goto, End
  <2>2. CASE \/ StoreProgress(r) \/ SetModuleStatus(r) \/ SaveModuleContent(r)
             \/ LessonFails(r) \/ Fault(r)
    BY <2>2 DEF TypeOK, StoreProgress, SetModuleStatus, SaveModuleContent, LessonFails, Fault,
                Goto, End
  <2> QED BY <2>1, <2>2 DEF Handle
<1>2. IsFiniteSet(InFlight)' /\ (limit = 1 => Alone')
  BY <1>1, StaysAlone
<1>3. ASSUME limit = 1
      PROVE  \A q \in Request : q # r => pc'[q] = "idle"
  BY <1>1, <1>3 DEF OneInv, Alone
<1>4. pc'[r] # "set_status"
  BY <1>1 DEF Handle, TypeOK, UpsertCourse, UpsertModule, UpsertRefused, CountModules,
              StoreProgress, SetModuleStatus, SaveModuleContent, LessonFails, Fault, Goto, End
<1>5. ASSUME pc'[r] = "store"
      PROVE  job'[r].count = Counted'
  <2>1. CountModules(r)
    BY <1>1, <1>5 DEF Handle, TypeOK, UpsertCourse, UpsertModule, UpsertRefused,
              StoreProgress, SetModuleStatus, SaveModuleContent, LessonFails, Fault, Goto, End
  <2>2. PICK counted : counted = Counted
    OBVIOUS
  <2>3. job' = [job EXCEPT ![r].count = counted]
    BY <2>1, <2>2 DEF CountModules, Counted
  <2>4. job[r] \in Job
    BY DEF TypeOK
  <2>5. job'[r] = [job[r] EXCEPT !.count = counted]
    BY <2>3 DEF TypeOK
  <2>6. job'[r].count = counted
    BY <2>4, <2>5 DEF Job
  <2>7. Counted' = Counted
    BY <2>1 DEF CountModules, tables, Counted, Completed, Rows
  <2> QED BY <2>2, <2>6, <2>7
<1>6. limit = 1 => Fresh' /\ Unwritten'
  BY <1>3, <1>4, <1>5 DEF Fresh, Unwritten
<1> QED BY <1>1, <1>2, <1>6 DEF OneInv

\* After a deletion there is no progress to store, and no lesson.
LEMMA AroundKeepsOne ==
    ASSUME TypeOK, OneInv, DeleteCourse \/ AdvanceIndex \/ UNCHANGED vars
    PROVE  OneInv'
<1>1. UNCHANGED <<pc, job, limit>>
  BY DEF DeleteCourse, AdvanceIndex, vars, handler
<1>2. IsFiniteSet(InFlight)' /\ (limit = 1 => Alone')
  BY <1>1, StaysAlone
<1>3. CASE DeleteCourse
  <2>1. ~course'.there /\ lesson' = [m \in Module |-> FALSE]
    BY <1>3 DEF DeleteCourse, NoCourse
  <2>2. \A r \in Request : job[r].module \in Module
    BY DEF TypeOK, Job
  <2> QED BY <1>1, <1>2, <2>1, <2>2 DEF OneInv, Fresh, Unwritten
<1>4. CASE AdvanceIndex \/ UNCHANGED vars
  <2>1. UNCHANGED <<course, module, lesson>>
    BY <1>4 DEF AdvanceIndex, vars, tables
  <2>2. Counted' = Counted
    BY <2>1 DEF Counted, Completed, Rows
  <2> QED BY <1>1, <1>2, <2>1, <2>2 DEF OneInv, Fresh, Unwritten
<1> QED BY <1>3, <1>4

LEMMA OneInductive == TypeOK /\ OneInv /\ [Next]_vars => OneInv'
BY BeginKeepsOne, HandleKeepsOne, AroundKeepsOne DEF Next

\* All modules are completed when as many are as there are.
LEMMA AllCompleted ==
    ASSUME TypeOK
    PROVE  StatusFor(Counted) = "completed" <=> Rows # {} /\ Completed = Rows
<1>1. IsFiniteSet(1..N)
  BY FS_Interval
<1>2. IsFiniteSet(Rows) /\ Completed \subseteq Rows
  <2>1. Rows \subseteq 1..N /\ Completed \subseteq Rows
    BY DEF Rows, Completed
  <2> QED BY <1>1, <2>1, FS_Subset
<1>3. PICK done \in Nat, total \in Nat : done = Cardinality(Completed) /\ total = Cardinality(Rows)
  BY <1>2, FS_Subset, FS_CardinalityType
<1>4. done <= total /\ (done = total => Completed = Rows)
  BY <1>2, <1>3, FS_Subset
<1>5. total = 0 <=> Rows = {}
  BY <1>2, <1>3, FS_EmptySet
<1>6. Counted.done = done /\ Counted.total = total
  BY <1>3 DEF Counted
<1>7. StatusFor(Counted) = "completed" <=> total > 0 /\ done >= total
  BY <1>6 DEF StatusFor
<1>8. total > 0 /\ done >= total <=> Rows # {} /\ Completed = Rows
  BY <1>3, <1>4, <1>5
<1> QED BY <1>7, <1>8

\* One request at a time, a request that stores the progress leaves course and
\* modules in agreement, also after requests that died in between
\* (recalculate_course_progress).
THEOREM ProgressIsRepaired == Spec => RecalculationRepairs
<1>1. ASSUME TypeOK, OneInv, Next, limit = 1, NEW r \in Request,
             pc[r] = "store", pc'[r] # "store", faults' = faults
      PROVE  ProgressAgrees'
  <2>1. StoreProgress(r)
    <3>1. \A q \in Request : Handle(q) \/ Fault(q) => q = r
      BY <1>1 DEF OneInv, Alone, Handle, UpsertCourse, UpsertModule, UpsertRefused,
                  CountModules, StoreProgress, SetModuleStatus, SaveModuleContent, LessonFails,
                  Fault
    <3>2. ~(DeleteCourse \/ AdvanceIndex)
      BY <1>1 DEF DeleteCourse, AdvanceIndex, handler
    <3>3. \A q \in Request : \/ PersistCurriculum(q) \/ ListCourses(q)
                             \/ \E m \in Module : BeginComplete(q, m) \/ BeginGenerate(q, m)
            => pc[q] = "idle" /\ pc'[r] = pc[r]
      BY <1>1 DEF PersistCurriculum, ListCourses, BeginComplete, BeginGenerate, Begin, TypeOK
    <3>4. ~Fault(r)
      <4>1. faults \in Nat
        BY <1>1 DEF TypeOK
      <4> QED BY <1>1, <4>1 DEF Fault
    <3>5. Handle(r)
      BY <1>1, <3>1, <3>2, <3>3, <3>4 DEF Next
    <3> QED BY <1>1, <3>5 DEF Handle, UpsertCourse, UpsertModule, UpsertRefused, CountModules,
               SetModuleStatus, SaveModuleContent, LessonFails
  <2>2. SUFFICES ASSUME course'.there
                 PROVE  /\ course'.progress = Counted
                        /\ course'.status = "completed" <=> Rows # {} /\ Completed = Rows
    <3>1. UNCHANGED module
      BY <2>1 DEF StoreProgress
    <3> QED BY <3>1 DEF ProgressAgrees, Counted, Rows, Completed
  <2>3. course.there
    BY <2>1, <2>2 DEF StoreProgress
  <2>4. job[r].count = Counted
    BY <1>1, <2>3 DEF OneInv, Fresh
  <2>5. course' = [course EXCEPT !.progress = job[r].count, !.status = StatusFor(job[r].count)]
    BY <2>1, <2>3 DEF StoreProgress
  <2>6. course'.progress = Counted /\ course'.status = StatusFor(Counted)
    BY <1>1, <2>4, <2>5 DEF TypeOK
  <2> QED BY <1>1, <2>6, AllCompleted
<1>2. TypeOK /\ OneInv /\ [Next]_vars =>
        (limit = 1 => \A r \in Request :
           pc[r] = "store" /\ pc'[r] # "store" /\ faults' = faults => ProgressAgrees')
  <2>1. ASSUME UNCHANGED vars, NEW r \in Request PROVE pc'[r] = pc[r]
    BY <2>1 DEF vars, handler
  <2> QED BY <1>1, <2>1
<1> QED BY <1>2, OneInit, OneInductive, TypeCorrect, PTL DEF Spec, RecalculationRepairs

\* One request at a time, a module completed with its lesson stays completed:
\* listing keeps the status, and generation only takes modules without a lesson
\* (upsert_course_module, generate_module_lesson).
THEOREM CompletionStays == Spec => CompletedStays
<1>1. ASSUME TypeOK, OneInv, [Next]_vars, limit = 1, NEW m \in Module,
             module[m] = "completed", lesson[m]
      PROVE  module'[m] = "completed" \/ ~course'.there
  <2>1. CASE DeleteCourse
    BY <2>1 DEF DeleteCourse, NoCourse
  <2>2. ASSUME NEW r \in Request, UpsertModule(r)
        PROVE  module'[m] = "completed"
    BY <1>1, <2>2 DEF TypeOK, UpsertModule
  <2>3. ASSUME NEW r \in Request, SetModuleStatus(r)
        PROVE  module'[m] = "completed"
    BY <1>1, <2>3 DEF TypeOK, SetModuleStatus, OneInv, Unwritten
  <2>4. ASSUME NEW r \in Request, SaveModuleContent(r)
        PROVE  module'[m] = "completed"
    BY <1>1, <2>4 DEF TypeOK, SaveModuleContent
  <2>5. ASSUME NEW r \in Request,
               \/ PersistCurriculum(r) \/ ListCourses(r)
               \/ \E x \in Module : BeginComplete(r, x) \/ BeginGenerate(r, x)
               \/ UpsertCourse(r) \/ UpsertRefused(r) \/ CountModules(r) \/ StoreProgress(r)
               \/ LessonFails(r) \/ Fault(r)
        PROVE  UNCHANGED module
    BY <2>5 DEF PersistCurriculum, ListCourses, BeginComplete, BeginGenerate, UpsertCourse,
                UpsertRefused, CountModules, StoreProgress, LessonFails, Fault, tables
  <2>6. CASE AdvanceIndex \/ UNCHANGED vars
    <3>1. UNCHANGED module
      BY <2>6 DEF AdvanceIndex, vars, tables
    <3> QED BY <1>1, <3>1
  <2> QED BY <1>1, <2>1, <2>2, <2>3, <2>4, <2>5, <2>6 DEF Next, Handle
<1>2. TypeOK /\ OneInv /\ [Next]_vars =>
        (limit = 1 => \A m \in Module :
           module[m] = "completed" /\ lesson[m]
             => module'[m] = "completed" \/ ~course'.there)
  BY <1>1
<1> QED BY <1>2, OneInit, OneInductive, TypeCorrect, PTL DEF Spec, CompletedStays
=============================================================================
