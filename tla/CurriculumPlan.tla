---------------------------- MODULE CurriculumPlan ----------------------------
(* How a plan is built for a course: what the student is trusted to know        *)
(* (core/course_service.py, core/curriculum_quality.py), then the calls of the  *)
(* curriculum architect and its clean-up, validation and repair                 *)
(* (agents/curriculum_architect.py). A reply of the LLM is any list of modules; *)
(* a module is its concept and the roadmap step the LLM gave it, and teaches    *)
(* that concept.                                                                *)
EXTENDS Naturals, Sequences

CONSTANTS
    Paces,         \* the paces a student may choose
    Concept,       \* the concepts of the subject
    Blank,         \* an entry without title and concept
    Needs,         \* Needs[c]: the concepts a module about c depends on
    Excluded,      \* the concepts the student does not want
    Studied,       \* the concepts that may be in the student's history
    Coverages,     \* the concept lists the coverage planner may return
    StepIds,       \* the step ids the LLM may give, numbers; 0 is none
    MaxModules,    \* the longest list of the LLM
    None           \* no score on record

ASSUME SizeAssumption == MaxModules \in Nat /\ Coverages \subseteq Seq(Concept)

VARIABLES
    pace,        \* "fast", "medium" or "deep"
    no_prior,    \* whether the student says to have no prior experience
    declared,    \* the concepts the student says to know
    recorded,    \* recorded[c]: the row of concept_mastery, in percent, or None
    skills,      \* skills[c]: the scores of c in student_skills
    known,       \* _trusted_assumed_known
    mastery,     \* state.concept_mastery, seeded
    pc,          \* the next call or step
    attempt,     \* failed attempts of the current call
    concepts,    \* the concepts to cover
    raw_modules, \* the modules as the LLM gave them, or cleaned
    confident,   \* whether the confidence of the sequencing is 0.5 or more
    plan,        \* the plan as far as it is built
    short,       \* history: the list was too short and was replaced
    repaired     \* history: the validated plan was replaced

student == <<pace, no_prior, declared, recorded, skills>>
trust == <<known, mastery>>
vars == <<student, trust, pc, attempt, concepts, raw_modules, confident, plan,
          short, repaired>>

RawModule == [concept : Concept, step : StepIds] \union {[concept |-> Blank, step |-> 0]}

\* What a reply may hold; no reply that is accepted is empty.
Replies == UNION {[1..n -> RawModule] : n \in 1..MaxModules}

NoPlan == [modules |-> <<>>, roadmap |-> <<>>, learning_path |-> <<>>,
           issues |-> {}, passed |-> FALSE]

\* The entries of a list at some of its positions, in their order.
Picked(list, positions) ==
    LET f[i \in 0..Len(list)] ==
            IF i = 0 THEN <<>>
            ELSE IF i \in positions THEN Append(f[i - 1], list[i]) ELSE f[i - 1]
    IN  f[Len(list)]

Scores == {40, 80}

Init ==
    /\ pace \in Paces
    /\ no_prior \in BOOLEAN
    /\ declared \in SUBSET Studied
    /\ recorded \in {r \in [Concept -> Scores \union {None}] :
                        \A c \in Concept \ Studied : r[c] = None}
    /\ skills \in {k \in [Concept -> {{}, {40}, {92}}] :
                        \A c \in Concept \ Studied : k[c] = {}}
    /\ known = {}
    /\ mastery = recorded
    /\ pc = "profile"
    /\ attempt = 0
    /\ concepts = <<>>
    /\ raw_modules = <<>>
    /\ confident = FALSE
    /\ plan = NoPlan
    /\ short = FALSE
    /\ repaired = FALSE

-----------------------------------------------------------------------------
(* What the student is trusted to know. *)

Threshold == CASE pace = "fast" -> 60 [] pace = "medium" -> 72 [] pace = "deep" -> 85

\* get_student_skills: the rows of both tables are nodes of one skill graph.
Nodes(c) == skills[c] \union ({recorded[c]} \ {None})

\* A declared concept counts unless the student has no prior experience.
Declared == IF no_prior THEN {} ELSE declared

\* filter_relevant_student_history: a verified score makes a concept known, with
\* no prior experience only one of a mastered concept, from 90 on.
FromHistory ==
    {c \in Concept : \E score \in Nodes(c) : IF no_prior THEN score >= 90 ELSE score >= 70}

\* The weak concepts: skill rows below 55, whatever else is on record.
Weak == {c \in Concept : \E score \in Nodes(c) : score < 55}

\* sanitize_trusted_profile_for_course drops what the student does not want.
AssumedKnown == (Declared \union FromHistory) \ Excluded

\* Mistake: the assumption replaces the score on record.
SeedOver(c) ==
    CASE c \in AssumedKnown -> 78
      [] c \in Weak \ AssumedKnown -> 25
      [] OTHER -> recorded[c]

\* The scores the state starts from: setdefault keeps what is on record, and the
\* first of two defaults.
Seed(c) ==
    IF recorded[c] # None THEN recorded[c]
    ELSE CASE c \in AssumedKnown -> 78
           [] c \in (Weak \ Excluded) \ AssumedKnown -> 25
           [] OTHER -> None

Profile ==
    /\ pc = "profile"
    /\ known' = AssumedKnown
    /\ mastery' = [c \in Concept |-> Seed(c)]
    /\ pc' = "coverage"
    /\ UNCHANGED <<student, attempt, concepts, raw_modules, confident, plan,
                   short, repaired>>

-----------------------------------------------------------------------------
(* The calls. Each may find the LLM rate limited or too slow, and all but the   *)
(* auditor's then give up the whole build.                                      *)

Unavailable ==
    /\ pc \in {"coverage", "sequence", "lengthen", "repair"}
    /\ pc' = "failed"
    /\ UNCHANGED <<student, trust, attempt, concepts, raw_modules, confident,
                   plan, short, repaired>>

Cover ==
    /\ pc = "coverage"
    /\ concepts' \in Coverages
    /\ attempt' = 0
    /\ pc' = "sequence"
    /\ UNCHANGED <<student, trust, raw_modules, confident, plan, short, repaired>>

\* An unusable list; the second one ends the build.
CoverFails ==
    /\ pc = "coverage"
    /\ attempt' = attempt + 1
    /\ pc' = IF attempt = 1 THEN "failed" ELSE "coverage"
    /\ UNCHANGED <<student, trust, concepts, raw_modules, confident, plan, short,
                   repaired>>

Sequence ==
    /\ pc = "sequence"
    /\ raw_modules' \in Replies
    /\ confident' \in BOOLEAN
    /\ attempt' = 0
    /\ pc' = IF confident' THEN "audit" ELSE "fix"
    /\ UNCHANGED <<student, trust, concepts, plan, short, repaired>>

\* The plan without a sequencer: a module for each concept, in the given order.
Fallback == [i \in 1..Len(concepts) |-> [concept |-> concepts[i], step |-> i]]

SequenceFails ==
    /\ pc = "sequence"
    /\ IF attempt = 1
       THEN /\ raw_modules' = Fallback
            /\ confident' = TRUE
            /\ attempt' = 0
            /\ pc' = "audit"
       ELSE /\ attempt' = attempt + 1
            /\ UNCHANGED <<raw_modules, confident, pc>>
    /\ UNCHANGED <<student, trust, concepts, plan, short, repaired>>

\* _audit_coverage: nothing is missing, or the auditor failed, which it swallows.
AuditPasses ==
    /\ pc = "audit"
    /\ pc' = "fix"
    /\ UNCHANGED <<student, trust, attempt, concepts, raw_modules, confident,
                   plan, short, repaired>>

\* _fill_gaps: the sequencer is asked again, once. Its list is taken unless it
\* collapsed, that is became much shorter with little confidence, or the call
\* failed: then the modules stay, as when the audit passes.
FillGaps ==
    /\ pc = "audit"
    /\ raw_modules' \in Replies
    /\ pc' = "fix"
    /\ UNCHANGED <<student, trust, attempt, concepts, confident, plan, short,
                   repaired>>

-----------------------------------------------------------------------------
(* The clean-up. *)

\* What an entry adds to the fixed list: a blank one nothing, and one without a
\* step joins the step before if that is about the same concept.
Entered(fixed, m, i) ==
    LET next == IF m.step # 0 \/ m.concept = fixed.prev THEN fixed.step ELSE fixed.step + 1
    IN  IF m.concept = Blank THEN fixed
        ELSE [out |-> Append(fixed.out,
                             [id |-> i, concept |-> m.concept,
                              step |-> IF m.step # 0 THEN m.step ELSE next]),
              step |-> next, prev |-> m.concept]

\* _structural_fix: a module is numbered by its position.
StructuralFix(list) ==
    LET f[i \in 0..Len(list)] ==
            IF i = 0 THEN [out |-> <<>>, step |-> 1, prev |-> Blank]
            ELSE Entered(f[i - 1], list[i], i)
    IN  f[Len(list)].out

\* Mistake: nothing is removed.
DeduplicateNot(list) == list

\* _deduplicate_concepts keeps the first module about a concept.
Deduplicate(list) ==
    Picked(list, {i \in 1..Len(list) :
                    \A j \in 1..(i - 1) : list[j].concept # list[i].concept})

Fix ==
    /\ pc = "fix"
    /\ raw_modules' = Deduplicate(StructuralFix(raw_modules))
    /\ pc' = IF Len(raw_modules') < 2 THEN "lengthen" ELSE "build"
    /\ UNCHANGED <<student, trust, attempt, concepts, confident, plan, short,
                   repaired>>

\* _llm_repair takes a list of two or more, else the modules it was given.
Repairs == {r \in Replies : Len(r) >= 2}

\* Mistake: the clean-up is repeated until the list is long enough.
LengthenedUntilEnough == "fix"

\* What follows the replacement of a list that was too short.
Lengthened == "build"

\* The list that was too short is replaced and fixed, and not deduplicated.
Lengthen ==
    /\ pc = "lengthen"
    /\ \E list \in Repairs \union {raw_modules} :
        raw_modules' = StructuralFix(list)
    /\ short' = TRUE
    /\ pc' = Lengthened
    /\ UNCHANGED <<student, trust, attempt, concepts, confident, plan, repaired>>

\* _compress_mastered: a module about a known concept goes when its score
\* reaches the threshold of the pace, but never all of them.
Mastered(m) == m.concept \in known /\ mastery[m.concept] # None
                                   /\ mastery[m.concept] >= Threshold

Compress(modules) ==
    LET kept == Picked(modules, {i \in 1..Len(modules) : ~Mastered(modules[i])})
    IN  IF kept = <<>> THEN modules ELSE kept

\* _build_master_roadmap: the steps in the order of their first modules, and the
\* modules numbered by their place among the steps.
FirstOfStep(modules) ==
    Picked(modules, {i \in 1..Len(modules) :
                       \A j \in 1..(i - 1) : modules[j].step # modules[i].step})

Roadmap(modules) ==
    LET firsts == FirstOfStep(modules)
    IN  [s \in 1..Len(firsts) |->
            Picked(modules, {i \in 1..Len(modules) : modules[i].step = firsts[s].step})]

Renumbered(modules) ==
    LET firsts == FirstOfStep(modules)
    IN  [i \in 1..Len(modules) |-> [modules[i] EXCEPT !.step =
            CHOOSE s \in 1..Len(firsts) : firsts[s].step = modules[i].step]]

Path(modules) ==
    [i \in 1..Len(modules) |-> [step |-> modules[i].step, concept |-> modules[i].concept]]

-----------------------------------------------------------------------------
(* validate_curriculum_quality. *)

\* A module depends on what is neither known nor taught before it.
DependsTooEarly(modules) ==
    \E i \in 1..Len(modules) : \E c \in Needs[modules[i].concept] :
        c \notin known /\ \A j \in 1..(i - 1) : modules[j].concept # c

Repeats(modules) ==
    \E i \in 1..Len(modules) : \E j \in 1..(i - 1) :
        modules[i].concept = modules[j].concept

Drifts(modules) == \E i \in 1..Len(modules) : modules[i].concept \in Excluded

Issues(modules) ==
    {issue \in {"none", "few", "early", "repeated", "excluded"} :
        \/ issue = "none" /\ modules = <<>>
        \/ issue = "few" /\ Len(modules) \in 1..2
        \/ issue = "early" /\ DependsTooEarly(modules)
        \/ issue = "repeated" /\ Repeats(modules)
        \/ issue = "excluded" /\ Drifts(modules)}

\* The number of modules alone is not repaired.
ToRepair(issues) == issues \ {"few"}

\* Mistake: the learning path is taken before the modules are compressed.
PathOfRaw(modules) == Path(Renumbered(raw_modules))

LearningPath(modules) == Path(Renumbered(modules))

\* The typed modules, their roadmap, the learning path and the verdict.
Build ==
    /\ pc = "build"
    /\ LET modules == Compress(raw_modules) IN
        /\ plan' = [modules |-> Renumbered(modules), roadmap |-> Roadmap(modules),
                    learning_path |-> LearningPath(modules),
                    issues |-> Issues(modules), passed |-> Issues(modules) = {}]
        /\ pc' = IF ToRepair(Issues(modules)) # {} THEN "repair" ELSE "accept"
    /\ UNCHANGED <<student, trust, attempt, concepts, raw_modules, confident,
                   short, repaired>>

\* The lists of a repair, fixed and deduplicated.
RepairedLists == {Deduplicate(StructuralFix(list)) : list \in Repairs}

\* The repair of a plan with issues: a list that leaves two modules replaces the
\* modules and the roadmap; the learning path stays as it was.
Repair ==
    /\ pc = "repair"
    /\ \E fixed \in RepairedLists \union {Deduplicate(StructuralFix(raw_modules))} :
        LET modules == Compress(fixed)
        IN  IF Len(modules) >= 2
            THEN /\ raw_modules' = fixed
                 /\ plan' = [plan EXCEPT !.modules = Renumbered(modules),
                                         !.roadmap = Roadmap(modules),
                                         !.issues = Issues(modules),
                                         !.passed = Issues(modules) = {}]
                 /\ repaired' = TRUE
            ELSE UNCHANGED <<raw_modules, plan, repaired>>
    /\ pc' = "accept"
    /\ UNCHANGED <<student, trust, attempt, concepts, confident, short>>

\* Whatever issues are left, the plan passes.
Accept ==
    /\ pc = "accept"
    /\ plan' = [plan EXCEPT !.passed = TRUE]
    /\ pc' = "built"
    /\ UNCHANGED <<student, trust, attempt, concepts, raw_modules, confident,
                   short, repaired>>

Next ==
    \/ Profile
    \/ Unavailable
    \/ Cover \/ CoverFails
    \/ Sequence \/ SequenceFails
    \/ AuditPasses \/ FillGaps
    \/ Fix \/ Lengthen \/ Build \/ Repair \/ Accept

\* A call returns or is given up, so a build that can go on does.
Spec == Init /\ [][Next]_vars /\ WF_vars(Next)

-----------------------------------------------------------------------------
(* Properties. *)

TypeOK ==
    /\ pc \in {"profile", "coverage", "sequence", "audit", "fix", "lengthen",
               "build", "repair", "accept", "built", "failed"}
    /\ attempt \in 0..1
    /\ known \subseteq Concept
    /\ mastery \in [Concept -> Scores \union {25, 78, None}]
    /\ \A i \in 1..Len(plan.modules) : plan.modules[i].step \in 1..Len(plan.roadmap)

\* _deduplicate_concepts: a plan has no two modules about one concept, whichever
\* calls failed and whatever they returned, but for a list that was too short and
\* whose replacement is not deduplicated.
NoRepeats == pc = "built" /\ Repeats(plan.modules) => short /\ ~repaired

\* learning_path names the modules of the plan in their order, with the steps of
\* the roadmap, unless the repair of the validation replaced them after it.
PathFollowsPlan ==
    pc = "built" /\ ~repaired =>
        /\ plan.learning_path = Path(plan.modules)
        /\ \A i \in 1..Len(plan.modules) :
            \E j \in 1..Len(plan.roadmap[plan.learning_path[i].step]) :
                plan.roadmap[plan.learning_path[i].step][j].concept
                    = plan.learning_path[i].concept

\* Nothing in the plan is there twice, and what is shown of it is what it has.
PlanInOrder == NoRepeats /\ PathFollowsPlan

\* _compress_mastered: what is left out is known, by the student's word or a
\* verified score, and no score on record is below the threshold of the pace.
DroppedOnEvidence ==
    pc = "built" =>
        \A i \in 1..Len(raw_modules) :
            LET c == raw_modules[i].concept IN
            (\A j \in 1..Len(plan.modules) : plan.modules[j].concept # c) =>
                /\ recorded[c] = None \/ recorded[c] >= Threshold
                /\ c \in Declared \/ \E score \in Nodes(c) : score >= 70

\* Every build ends, however often its calls fail.
BuildEnds == <>(pc \in {"built", "failed"})

\* The docstring of validate_curriculum_quality: the gates protect the plan that
\* is persisted. Refuted: a plan passes with the issues its repair left.
GatesHold == pc = "built" /\ plan.passed => ToRepair(plan.issues) = {}

\* A plan has a module. Refuted when the LLM gives nothing but blank entries.
NotEmpty == pc = "built" => plan.modules # <<>>

\* A weak concept is taught. Refuted: a student who has declared it known.
WeakIsTaught ==
    pc = "built" => \A i \in 1..Len(raw_modules) :
        raw_modules[i].concept \in Weak =>
            \E j \in 1..Len(plan.modules) : plan.modules[j].concept = raw_modules[i].concept
=============================================================================
