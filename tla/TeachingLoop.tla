----------------------------- MODULE TeachingLoop -----------------------------
(***************************************************************************)
(* The tutoring sessions of one student, as the agents run them            *)
(* (agents/orchestrator.py, tutor.py, evaluator.py, adaptation_engine.py): *)
(* teach a module, evaluate it, adapt, let the LLM choose where to go, and *)
(* write the session at its end.  What a session knows is in memory        *)
(* (core/student_model.py); the tables hold plans, mastery, reteach count  *)
(* and doubts.                                                             *)
(*                                                                         *)
(* SessionServer shows that sessions of one student do not overlap, so     *)
(* there is one at a time here.  What the LLMs, the student and the        *)
(* database answer is free.  A score is below the threshold of the pace or *)
(* not; a report far below it and one that asks for a detour act alike.    *)
(***************************************************************************)
EXTENDS Naturals, Sequences, FiniteSets, SequencesExt

CONSTANTS
    Concept,
    Unknown,            \* no score, no module
    Plan, Remedy,       \* concepts of the first plan and of a rebuilt one
    Missing,            \* bound: concepts a detour may be made for
    Doubted,            \* bound: concepts the student has doubts about
    DetourName,         \* a concept with underscores for its spaces
    RevisitName,        \* the same, cut off after 40 characters
    ModulesPerSession,  \* max_modules_per_session
    MaxSessions,        \* bound: sessions
    MaxRounds,          \* bound: lessons of all sessions
    MaxDoubts,          \* doubts raised in a lesson, if any
    MaxPlans,           \* bound: plans built
    MaxFaults           \* bound: database writes and processes that fail

ASSUME ConceptAssumption == Unknown \notin Concept /\ IsFiniteSet(Concept)
ASSUME PlanAssumption == {Plan, Remedy} \subseteq Seq(Concept)
ASSUME ChoiceAssumption == Missing \cup Doubted \subseteq Concept
\* Different concepts may have the same name in an id.
ASSUME NameAssumption == DOMAIN DetourName = Concept /\ DOMAIN RevisitName = Concept
ASSUME BoundAssumption ==
    {ModulesPerSession, MaxSessions, MaxRounds, MaxDoubts, MaxPlans, MaxFaults} \subseteq Nat

Score == {"weak", "mastered"}
Hint  == {"none", "detour", "hold"}     \* recommended_action of a report
Route == {"MOVE_FORWARD", "COMPRESS", "RETEACH", "DETOUR", "ESCALATE", "HOLD"}

\* The ids of a plan are m1, m2, ... in every plan (_structural_fix); those of the
\* modules that sessions insert are made from the name of the concept.
ModuleId ==
    ({"m"} \X (1..Len(Plan) + Len(Remedy)))
      \cup {<<"detour", DetourName[c]>> : c \in Concept}
      \cup {<<"revisit", RevisitName[c]>> : c \in Concept}

NoCurriculum == [modules |-> <<>>, current_index |-> 0]
NoReport     == [score |-> "weak", hint |-> "none"]

-----------------------------------------------------------------------------
VARIABLES
    curricula,          \* the stored plans, with the index of each
    active,             \* the plan that is_active, or 0
    mastery,            \* table concept_mastery
    reteach_stored,     \* consecutive_reteach_count in table metacognition
    doubt_log,          \* table doubt_log: doubts by session and concept
    session, pc, rounds,
    curriculum,         \* what _run_module_loop works on
    rebuilt,            \* the plan state.curriculum was replaced by, or none
    concept_mastery, reteach_count, doubt_counts, content,  \* StudentState
    completed,          \* ids of the completed modules
    modules_done, report,
    dirty,              \* "curriculum" \in _dirty
    earned,             \* concepts of the modules completed in this session
    passed,             \* modules of stored plans completed in any session
    shifted,            \* plans into which a session has inserted modules
    faults

tables  == <<curricula, active, mastery, reteach_stored, doubt_log>>
student == <<concept_mastery, reteach_count, doubt_counts, content>>
path    == <<curriculum, rebuilt, dirty>>
tally   == <<completed, modules_done, earned, passed>>
vars    == <<tables, session, pc, rounds, path, student, tally, report, shifted, faults>>

Module(plan, id, concept) == [plan |-> plan, id |-> id, concept |-> concept]

\* Module objects of a finished plan.
BuildModules(plan, concepts) ==
    [i \in DOMAIN concepts |-> Module(plan, <<"m", i>>, concepts[i])]

NoDoubts == [c \in Concept |-> 0]

Init ==
    /\ curricula = <<>>
    /\ active = 0
    /\ mastery = [c \in Concept |-> Unknown]
    /\ reteach_stored = 0
    /\ doubt_log = [s \in 1..MaxSessions |-> NoDoubts]
    /\ session = 0
    /\ pc = "idle"
    /\ rounds = 0
    /\ curriculum = NoCurriculum
    /\ rebuilt = <<>>
    /\ concept_mastery = mastery
    /\ reteach_count = 0
    /\ doubt_counts = NoDoubts
    /\ content = [id \in ModuleId |-> {}]
    /\ completed = {}
    /\ modules_done = 0
    /\ report = NoReport
    /\ dirty = FALSE
    /\ earned = {}
    /\ passed = {}
    /\ shifted = {}
    /\ faults = 0

-----------------------------------------------------------------------------
Finished(c) == c.current_index >= Len(c.modules)

\* Module current_index + 1 of a curriculum.
At(c) == c.modules[c.current_index + 1]

\* state.curriculum: an escalation has replaced it, the loop keeps the object it
\* started with.
StateCurriculum == IF rebuilt = <<>> THEN curriculum ELSE rebuilt[1]

\* _current_module of the agents.
CurrentModule ==
    IF Finished(StateCurriculum) THEN Unknown ELSE At(StateCurriculum)

Goto(to) == pc' = to

\* Where the loop goes after an action, if the student is not tired.
Onward == \/ Goto("module") \/ Goto("ending")

Fault == faults < MaxFaults /\ faults' = faults + 1

(* Start: StudentState.load, start_session *)

\* A stored plan, as it is loaded.
Loaded(plan) == [modules |-> curricula[plan].modules,
                 current_index |-> curricula[plan].current_index]

\* run_session: a student without a plan gets one first, any other is asked to
\* revisit old doubts; then the modules and the end.
FirstStep(plan) == IF plan = 0 THEN "setup" ELSE "revisiting"

Start ==
    /\ pc \in {"idle", "ended", "lost", "stopped"}
    /\ session < MaxSessions
    /\ session' = session + 1
    /\ curriculum' = IF active = 0 THEN NoCurriculum ELSE Loaded(active)
    /\ rebuilt' = <<>>
    /\ dirty' = FALSE
    /\ concept_mastery' = mastery
    /\ reteach_count' = reteach_stored
    /\ doubt_counts' = NoDoubts
    /\ content' = [id \in ModuleId |-> {}]
    /\ completed' = {} /\ modules_done' = 0 /\ earned' = {}
    /\ report' = NoReport
    /\ Goto(FirstStep(active))
    /\ UNCHANGED <<tables, rounds, passed, shifted, faults>>

TotalDoubts(c) ==
    FoldFunction(LAMBDA a, b : a + b, 0, [s \in 1..MaxSessions |-> doubt_log[s][c]])

\* Mistake: doubts of one session are enough.
PersistentAtOnce == {c \in Concept : TotalDoubts(c) >= 3}

\* At least three doubts in at least two sessions.
Persistent == {c \in Concept :
    /\ TotalDoubts(c) >= 3
    /\ Cardinality({s \in 1..MaxSessions : doubt_log[s][c] > 0}) >= 2}

\* Modules go in at the index, or at the end of a list that is shorter.
InsertAll(c, ms) ==
    LET before == Min({c.current_index, Len(c.modules)})
    IN [c EXCEPT !.modules = SubSeq(@, 1, before) \o ms \o SubSeq(@, before + 1, Len(@))]

Insert(c, m) == InsertAll(c, <<m>>)

Rest(c) == {c.modules[i].concept : i \in c.current_index + 1..Len(c.modules)}

\* The index of the active plan no longer counts its own modules.
Shift == shifted' = shifted \cup {active}

\* What the rows of the query may be: those with most doubts, no more than three.
Rows == {S \in SUBSET Persistent :
    /\ Cardinality(S) = Min({3, Cardinality(Persistent)})
    /\ \A c \in S, d \in Persistent \ S : TotalDoubts(c) >= TotalDoubts(d)}

\* The concepts of the rows that are not still to come: each is inserted before
\* the last one, so that the least doubted ends up first.
Due == {q \in UNION {SetToSeqs(S \ Rest(curriculum)) : S \in Rows} :
            \A i, j \in DOMAIN q : i < j => TotalDoubts(q[i]) <= TotalDoubts(q[j])}

RevisitId(c) == <<"revisit", RevisitName[c]>>

Revisits(due) == [i \in DOMAIN due |-> Module(0, RevisitId(due[i]), due[i])]

\* _check_cross_session_doubts: modules to revisit concepts.  A query that fails
\* is skipped.
CheckDoubts ==
    /\ pc = "revisiting"
    /\ Goto("module")
    /\ \/ /\ \E due \in Due :
             /\ curriculum' = InsertAll(curriculum, Revisits(due))
             /\ dirty' = (due # <<>>)
             /\ shifted' = shifted \cup (IF due = <<>> THEN {} ELSE {active})
          /\ UNCHANGED faults
       \/ Fault /\ UNCHANGED <<curriculum, dirty, shifted>>
    /\ UNCHANGED <<tables, session, rounds, rebuilt, student, tally, report>>

(* build_curriculum: the LLM pipeline, then two statements of _persist_curriculum *)

Deactivate ==
    /\ pc \in {"setup", "escalating"}
    /\ Len(curricula) < MaxPlans
    /\ active' = 0
    /\ Goto(IF pc = "setup" THEN "creating" ELSE "replacing")
    /\ UNCHANGED <<curricula, mastery, reteach_stored, doubt_log, session, rounds,
                   path, student, tally, report, shifted, faults>>

Stored(concepts) ==
    /\ curricula' = Append(curricula,
            [modules |-> BuildModules(Len(curricula) + 1, concepts), current_index |-> 0])
    /\ active' = Len(curricula) + 1
    /\ UNCHANGED <<mastery, reteach_stored, doubt_log>>

CreatePlan ==
    /\ pc = "creating"
    /\ Stored(Plan)
    /\ curriculum' = [modules |-> BuildModules(Len(curricula) + 1, Plan), current_index |-> 0]
    /\ dirty' = TRUE
    /\ Goto("module")
    /\ UNCHANGED <<session, rounds, rebuilt, student, tally, report, shifted, faults>>

\* ESCALATE: what is left is replaced by the new plan, which is also the new
\* state.curriculum.
ReplacePlan ==
    /\ pc = "replacing"
    /\ Stored(Remedy)
    /\ LET new == BuildModules(Len(curricula) + 1, Remedy)
       IN /\ rebuilt' = <<[modules |-> new, current_index |-> 0]>>
          /\ curriculum' = [curriculum EXCEPT
                !.modules = SubSeq(@, 1, curriculum.current_index) \o new]
    /\ dirty' = TRUE
    /\ Onward
    /\ UNCHANGED <<session, rounds, student, tally, report, shifted, faults>>

\* The module is done with: the id is on the list and the index goes on.
Complete ==
    /\ completed' = completed \cup {At(curriculum).id}
    /\ earned' = earned \cup {At(curriculum).concept}
    /\ passed' = passed \cup {At(curriculum)}
    /\ curriculum' = [curriculum EXCEPT !.current_index = @ + 1]
    /\ UNCHANGED rebuilt
    /\ dirty' = TRUE
    /\ modules_done' = modules_done + 1

\* What was in memory is gone.
Forget ==
    /\ curriculum' = NoCurriculum /\ rebuilt' = <<>> /\ dirty' = FALSE
    /\ concept_mastery' = [c \in Concept |-> Unknown]
    /\ reteach_count' = 0
    /\ doubt_counts' = NoDoubts
    /\ content' = [id \in ModuleId |-> {}]
    /\ completed' = {} /\ modules_done' = 0 /\ earned' = {}
    /\ report' = NoReport

\* The LLM or a statement failed: the first plan of a session is missed, and a
\* rebuilt one makes the loop skip the concept.
BuildFails ==
    /\ \/ pc \in {"setup", "escalating"} /\ UNCHANGED faults
       \/ pc \in {"creating", "replacing"} /\ Fault
    /\ IF pc \in {"setup", "creating"}
       THEN Goto("lost") /\ Forget /\ UNCHANGED passed
       ELSE Onward /\ Complete /\ UNCHANGED <<student, report>>
    /\ UNCHANGED <<tables, session, rounds, shifted>>

(* _run_module_loop *)

MayTeach == ~Finished(curriculum) /\ modules_done < ModulesPerSession

\* How TutorAgent.teach can go: nothing is delivered when there is no module, or
\* the LLM fails or does not deliver; the LLM may answer doubts without that.
Lessons(m) == {l \in [delivered : BOOLEAN, doubts : {0, MaxDoubts}] :
    /\ l.delivered => m # Unknown
    /\ l.doubts # 0 => m # Unknown /\ m.concept \in Doubted}

LogDoubts(m, n) == IF n = 0 THEN doubt_counts ELSE [doubt_counts EXCEPT ![m.concept] = @ + n]

\* record_module_content: text about concepts is added to what was taught under
\* the id of the module.
Record(kept, m, concepts) ==
    IF m = Unknown THEN kept ELSE [kept EXCEPT ![m.id] = @ \cup concepts]

\* What is kept of a lesson: its text, the answers to its checkpoint, its practice
\* task and its doubts, all under the module that was taught.
Taught(lesson, m) ==
    IF lesson.delivered \/ lesson.doubts # 0 THEN {m.concept} ELSE {}

\* From two doubts on, the loop adds an example for its own module.
MicroExample(counts, concept) == IF counts[concept] >= 2 THEN {concept} ELSE {}

Teach ==
    /\ pc = "module" /\ MayTeach
    /\ rounds < MaxRounds
    /\ rounds' = rounds + 1
    /\ LET m == CurrentModule
       IN \E lesson \in Lessons(m) :
            /\ doubt_counts' = LogDoubts(m, lesson.doubts)
            /\ content' = Record(content, m,
                    Taught(lesson, m) \cup MicroExample(doubt_counts', At(curriculum).concept))
    /\ Goto("evaluating")
    /\ UNCHANGED <<tables, session, path, concept_mastery, reteach_count,
                   tally, report, shifted, faults>>

\* update_mastery
Graded(score) == [concept_mastery EXCEPT ![At(curriculum).concept] = score]

\* The report of an evaluation: score and recommendation are the LLM's own, or
\* those of the questions the evaluator falls back on.
Reports == [score : Score, hint : Hint]

\* EvaluatorAgent.evaluate
Evaluate ==
    /\ pc = "evaluating"
    /\ report' \in Reports
    /\ concept_mastery' = Graded(report'.score)
    /\ Goto("adapting")
    /\ UNCHANGED <<tables, session, rounds, path, reteach_count, doubt_counts, content,
                   tally, shifted, faults>>

\* An evaluation that fails, perhaps only with the row it writes at its end: the
\* loop goes on with a report of nothing.
EvaluationFails ==
    /\ pc = "evaluating"
    /\ Fault
    /\ report' = [score |-> "weak", hint |-> "detour"]
    /\ concept_mastery' \in {concept_mastery} \cup {Graded(score) : score \in Score}
    /\ Goto("adapting")
    /\ UNCHANGED <<tables, session, rounds, path, reteach_count, doubt_counts, content,
                   tally, shifted>>

\* Mistake: one more reteach before the plan is rebuilt.
DecideLate(r, n) ==
    IF r.hint = "hold" THEN n
    ELSE IF r.score = "mastered" THEN 0
    ELSE IF n >= 3 \/ r.hint = "detour" THEN n
    ELSE n + 1

\* AdaptationEngine.decide: the count after HOLD, MOVE_FORWARD and COMPRESS,
\* ESCALATE and DETOUR, or RETEACH.  The action itself only advises the LLM.
Decide(r, n) ==
    IF r.hint = "hold" THEN n
    ELSE IF r.score = "mastered" THEN 0
    ELSE IF n >= 2 \/ r.hint = "detour" THEN n
    ELSE n + 1

Adapt ==
    /\ pc = "adapting"
    /\ reteach_count' = Decide(report, reteach_count)
    /\ report' = NoReport
    /\ Goto("routing")
    /\ UNCHANGED <<tables, session, rounds, path, concept_mastery, doubt_counts, content,
                   tally, shifted, faults>>

Forward ==
    /\ pc = "routing"
    /\ Complete
    /\ reteach_count' = 0
    /\ Onward
    /\ UNCHANGED <<tables, session, rounds, concept_mastery, doubt_counts, content,
                   report, shifted, faults>>

\* RETEACH, and DETOUR without a concept.
Reteach ==
    /\ pc = "routing"
    /\ Onward
    /\ UNCHANGED <<tables, session, rounds, path, student, tally, report, shifted, faults>>

\* Mistake: detours are numbered by kind and not by concept.
DetourIdShared(c) == <<"m", 1>>

DetourId(c) == <<"detour", DetourName[c]>>

Detour ==
    /\ pc = "routing"
    /\ \E c \in Missing :
         curriculum' = Insert(curriculum, Module(0, DetourId(c), c))
    /\ dirty' = TRUE
    /\ Shift
    /\ Onward
    /\ UNCHANGED <<tables, session, rounds, rebuilt, student, tally, report, faults>>

Escalate ==
    /\ pc = "routing"
    /\ Goto("escalating")
    /\ UNCHANGED <<tables, session, rounds, path, student, tally, report, shifted, faults>>

Hold ==
    /\ pc = "routing"
    /\ Goto("ending")
    /\ UNCHANGED <<tables, session, rounds, path, student, tally, report, shifted, faults>>

LoopEnds ==
    /\ pc = "module" /\ ~MayTeach
    /\ Goto("ending")
    /\ UNCHANGED <<tables, session, rounds, path, student, tally, report, shifted, faults>>

\* The routing call or the summary of the end raised: the session is over and
\* nothing of it is written.
SessionFails ==
    /\ pc \in {"routing", "ending"}
    /\ Goto("lost") /\ Forget
    /\ UNCHANGED <<tables, session, rounds, passed, shifted, faults>>

(* The end: _end_session, flush_session_to_db; StudentState.save *)

\* Mistake: mastery is looked up by the ids of the modules.
CompletedConceptsById == {c \in Concept : c \in completed}

\* The concepts of the completed ids, as the plan in the state has them.
CompletedConcepts ==
    {m.concept : m \in {x \in ToSet(StateCurriculum.modules) : x.id \in completed}}

Flushed(concepts) ==
    mastery' = [c \in Concept |->
        IF c \in concepts /\ concept_mastery[c] # Unknown THEN concept_mastery[c] ELSE mastery[c]]

WriteDoubts ==
    doubt_log' = [doubt_log EXCEPT ![session] =
                    [c \in Concept |-> @[c] + doubt_counts[c]]]

\* One transaction; the index is not part of it.
EndSession ==
    /\ pc = "ending"
    /\ Flushed(CompletedConcepts)
    /\ reteach_stored' = reteach_count
    /\ WriteDoubts
    /\ Goto("ended")
    /\ UNCHANGED <<curricula, active, session, rounds, path, student, tally,
                   report, shifted, faults>>

\* Mistake: the index of the loop is saved.
SavedIndexOfLoop == curriculum.current_index

\* The index that is saved.
SavedIndex == StateCurriculum.current_index

\* The server stops: the task is cancelled and its state is saved, also one that
\* has ended and is still in the table of sessions.
Shutdown ==
    /\ pc \notin {"idle", "lost", "stopped"}
    /\ Fault
    /\ Flushed(Concept)
    /\ reteach_stored' = reteach_count
    /\ WriteDoubts
    /\ curricula' = IF dirty /\ active # 0
                    THEN [curricula EXCEPT ![active].current_index = SavedIndex]
                    ELSE curricula
    /\ Goto("stopped") /\ Forget
    /\ UNCHANGED <<active, session, rounds, passed, shifted>>

\* POST /session/end, or a crash: what is in memory is gone.
Lose ==
    /\ pc \notin {"idle", "ended", "lost", "stopped"}
    /\ Fault
    /\ Goto("lost") /\ Forget
    /\ UNCHANGED <<tables, session, rounds, passed, shifted>>

-----------------------------------------------------------------------------
Next ==
    \/ Start \/ CheckDoubts
    \/ Deactivate \/ CreatePlan \/ ReplacePlan \/ BuildFails
    \/ Teach \/ Evaluate \/ EvaluationFails \/ Adapt
    \/ Forward \/ Reteach \/ Detour \/ Escalate \/ Hold \/ LoopEnds
    \/ SessionFails \/ EndSession \/ Shutdown \/ Lose

Spec == Init /\ [][Next]_vars

-----------------------------------------------------------------------------
Modules    == [plan : 0..MaxPlans, id : ModuleId, concept : Concept]
Curriculum == [modules : Seq(Modules), current_index : Nat]

TypeOK ==
    /\ curricula \in Seq(Curriculum) /\ Len(curricula) <= MaxPlans
    /\ active \in 0..Len(curricula)
    /\ {mastery, concept_mastery} \subseteq [Concept -> Score \cup {Unknown}]
    /\ {reteach_stored, reteach_count} \subseteq Nat
    /\ doubt_log \in [1..MaxSessions -> [Concept -> Nat]]
    /\ session \in 0..MaxSessions
    /\ rounds \in 0..MaxRounds
    /\ curriculum \in Curriculum
    /\ rebuilt = <<>> \/ rebuilt[1] \in Curriculum
    /\ doubt_counts \in [Concept -> Nat]
    /\ content \in [ModuleId -> SUBSET Concept]
    /\ completed \subseteq ModuleId
    /\ modules_done \in 0..ModulesPerSession
    /\ report \in [score : Score, hint : Hint]
    /\ faults \in 0..MaxFaults

\* The concepts whose names give an id of a detour or a revisit.
Named(id) ==
    {c \in Concept : id \in {<<"detour", DetourName[c]>>, <<"revisit", RevisitName[c]>>}}

\* Its own concept, and for a detour or a revisit those of the same name.
Namesakes(m) == {m.concept} \cup Named(m.id)

\* The questions of an evaluation are about the module that is evaluated: it is
\* the one the agents see, and what is kept under its id (_module_grounding_text)
\* are lessons of its own concept, or for a detour or a revisit of concepts whose
\* names are the same in its id; unless an escalation has made the two plans
\* diverge.
QuestionsFit ==
    (pc = "evaluating" /\ rebuilt = <<>>)
        => /\ CurrentModule = At(curriculum)
           /\ content[CurrentModule.id] \subseteq Namesakes(CurrentModule)

\* What a session that ended found out about the concepts it completed is on
\* record, for the plan it started with (_end_session, flush_session_to_db).
FindingsOnRecord ==
    (pc = "ended" /\ rebuilt = <<>>)
        => \A c \in earned : concept_mastery[c] \in {Unknown, mastery[c]}

\* The stored index of a plan has only modules before it that some session has
\* completed, except where sessions have inserted modules of their own (save).
NothingSkipped ==
    \A p \in DOMAIN curricula \ shifted :
        \A i \in 1..curricula[p].current_index : curricula[p].modules[i] \in passed

\* The count of reteaches stays below three, over all sessions, so that the rule
\* of the routing prompt for three and more is never the one that applies
\* (decide, _llm_route).
EscalatedInTime == reteach_count <= 2 /\ reteach_stored <= 2

\* The end of a session stores how far it came in the plan (_end_session), unless
\* modules were inserted or the plan rebuilt.
EndKeepsProgress ==
    (pc = "ended" /\ rebuilt = <<>> /\ active \notin shifted)
        => curricula[active].current_index = curriculum.current_index
=============================================================================
