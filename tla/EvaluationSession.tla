-------------------------- MODULE EvaluationSession --------------------------
(***************************************************************************)
(* The evaluation a student takes after a lesson: the session row of       *)
(* evaluation_sessions, the request handler that answers one submission    *)
(* (app/course_api.py, agents/evaluation_agent.py), and the learner tables *)
(* the finalisation writes (db/postgres.py).                               *)
(*                                                                         *)
(* A handler awaits the database and the LLM between reading the session   *)
(* row and writing it back, and holds no lock: one action per await.  The  *)
(* text of questions, answers and reports is left out; an answer keeps     *)
(* what the decisions read of it.                                          *)
(***************************************************************************)
EXTENDS Naturals, Sequences, FiniteSets

CONSTANTS
    Session,      \* session ids start_session may draw
    Request,      \* answer requests the server can have in its hands
    CoursePace,   \* the pace column of the course
    HasConcept,   \* the module has a concept to hold learner data under
    None,         \* no session
    ProbeId,      \* the ids the LLM may give to a probe question, the
                  \* default of one it leaves out being an id like the others
    SignalGiven,  \* the mastery signals the LLM gives in its diagnoses
    DecisionGiven, \* the decisions of the LLM's final reports
    MaxInFlight,  \* bound: answer requests being handled at one time
    MaxSent,      \* bound: answer requests ever sent
    MaxStray,     \* bound: of these, the ones not answering the question shown
    MaxFaults,    \* bound: handlers that die before they respond
    Elsewhere     \* bound: whether anything else completes the module

ASSUME PaceAssumption == CoursePace \in {"fast", "medium", "deep"}
ASSUME ConceptAssumption == HasConcept \in BOOLEAN
ASSUME ProbeIdAssumption == ProbeId \subseteq STRING \ {""}
ASSUME BoundAssumption ==
    {MaxInFlight, MaxSent, MaxStray, MaxFaults} \subseteq Nat /\ Elsewhere \in BOOLEAN

ASSUME NoneAssumption == None \notin Session

-----------------------------------------------------------------------------
(* Pace rules *)

\* Mistake: medium sessions end at the limit of fast ones.
PaceConfigFastLimit ==
    [fast   |-> [base_q |-> 2, max_probes |-> 1, max_total |-> 3],
     medium |-> [base_q |-> 3, max_probes |-> 2, max_total |-> 3],
     deep   |-> [base_q |-> 4, max_probes |-> 3, max_total |-> 7]]

PaceConfig ==
    [fast   |-> [base_q |-> 2, max_probes |-> 1, max_total |-> 3],
     medium |-> [base_q |-> 3, max_probes |-> 2, max_total |-> 6],
     deep   |-> [base_q |-> 4, max_probes |-> 3, max_total |-> 7]]

MaxQuestions == 7

\* The table has no column for pace or probes_used, so what submit_answer
\* reads back of the session are the defaults of its two session.get calls.
SubmitPace       == "medium"
SubmitProbesUsed == 0

\* Signals that warrant a probe: the branches for fast, medium and deep agree.
StrongSignal == {"weak", "uncertain"}

\* Percentage the score is compared with when the session is finalised; this
\* one is read from the course, not from the session.
Threshold == [fast |-> 60, medium |-> 72, deep |-> 85][CoursePace]

-----------------------------------------------------------------------------
(* Data *)

BaseId == <<"q1", "q2", "q3", "q4">>

\* What a diagnosis says of an answer.  The fallback used when the LLM call
\* or its validation fails is signal "uncertain" and not worthy of a probe.
Signal    == {"clear", "uncertain", "weak"}
Diagnosis == [signal : SignalGiven, worthy : BOOLEAN]

QuestionId == {BaseId[i] : i \in 1..4} \union ProbeId
Question   == [id : QuestionId, base : BOOLEAN]
Answer     == [question : QuestionId, probe : BOOLEAN, signal : Signal]

Decision ==
    {"ADVANCE", "ADVANCE_WITH_LIGHT_REVIEW", "RETEACH_WEAK_CONCEPTS",
     "REPEAT_MODULE", "ADJUST_FUTURE_LESSON_DIFFICULTY"}

\* Decisions after which the endpoint does not complete the module.
Withheld == {"RETEACH_WEAK_CONCEPTS", "REPEAT_MODULE"}

\* What a finalisation concludes, and whether the LLM's report was missing;
\* "" is the decision of a session without a verdict.
Verdict   == [decision : Decision \union {""}, mastered : BOOLEAN,
              fallback : BOOLEAN]
NoVerdict == [decision |-> "", mastered |-> FALSE, fallback |-> FALSE]

ASSUME SignalAssumption == SignalGiven \subseteq Signal
ASSUME DecisionAssumption == DecisionGiven \subseteq Decision

Ids(questions)       == {questions[i].id : i \in DOMAIN questions}
AnsweredIds(answers) == {answers[i].question : i \in DOMAIN answers}

\* Questions whose id no answer names.
Remaining(questions, answers) ==
    {i \in DOMAIN questions : questions[i].id \notin AnsweredIds(answers)}

\* The earliest position of a set of positions.
First(positions) == CHOOSE i \in positions : \A j \in positions : i <= j

\* The question an id stands for: the first of that id, the ids of probes
\* being whatever the LLM returned.
QuestionNamed(questions, id) ==
    questions[First({i \in DOMAIN questions : questions[i].id = id})]

\* Answers with one of the signals.
Count(answers, signals) ==
    Cardinality({i \in DOMAIN answers : answers[i].signal \in signals})

\* The computed score (clear 1, uncertain 0.6, weak 0.2, averaged) reaches
\* the threshold, in integers.
ScoreReachesThreshold(answers) ==
    100 * (5 * Count(answers, {"clear"}) + 3 * Count(answers, {"uncertain"})
            + Count(answers, {"weak"}))
      >= Threshold * 5 * Len(answers)

-----------------------------------------------------------------------------
VARIABLES
    row,        \* evaluation_sessions: [Session -> the columns read back]
    history,    \* evaluation_history: the verdicts written, per session
    seen,       \* concept_mastery.sessions_seen of the module's concept
    skill,      \* student_skills(source = evaluation): who wrote it last
    adaptation, \* adaptation summary: the session that wrote it last
    completed,  \* who has set the module's status to completed
    pc,         \* where the handler of a request stands
    job,        \* what that handler has in memory
    shown,      \* client: the question a session last showed the student
    acked,      \* client: answers the server acknowledged, per session
    sent, stray, faults   \* what the bounds count

tables  == <<row, history, seen, skill, adaptation, completed>>
handler == <<pc, job>>
client  == <<shown, acked, sent, stray, faults>>
vars    == <<tables, handler, client>>

Row == [status    : {"absent", "active", "completed"},
        questions : Seq(Question),
        answers   : Seq(Answer),
        report    : BOOLEAN,               \* final_report_json is not {}
        decision  : Decision \union {""}]

Job == [session   : Session \union {None},
        question  : QuestionId \union {""},
        questions : Seq(Question),
        answers   : Seq(Answer),
        next      : QuestionId \union {""},  \* the probe generated, if any
        verdict   : Verdict]

Place == {"idle", "read", "diagnose", "probe", "report", "mastery", "skill",
          "history", "adaptation", "save", "complete", "respond"}

NoJob == [session |-> None, question |-> "", questions |-> <<>>,
          answers |-> <<>>, next |-> "", verdict |-> NoVerdict]

\* What completes a module: an evaluation, or something else.
Completer == {"evaluation", "other"}

NoRow == [status |-> "absent", questions |-> <<>>, answers |-> <<>>,
          report |-> FALSE, decision |-> ""]

InFlight == {r \in Request : pc[r] # "idle"}

Init ==
    /\ row = [s \in Session |-> NoRow]
    /\ history = [s \in Session |-> <<>>]
    /\ seen = 0
    /\ skill = [session |-> None, mastered |-> FALSE]
    /\ adaptation = None
    /\ completed = {}
    /\ pc = [r \in Request |-> "idle"]
    /\ job = [r \in Request |-> NoJob]
    /\ shown = [s \in Session |-> ""]
    /\ acked = [s \in Session |-> 0]
    /\ sent = 0 /\ stray = 0 /\ faults = 0

-----------------------------------------------------------------------------
(* Starting a session *)

\* start_session: one to base_q questions of the LLM's answer are kept (or
\* the fixed fallback, when there are none) and renamed q1, q2, ... A start
\* that is refused, for want of a lesson, writes nothing.
StartSession(s) ==
    /\ row[s].status = "absent"
    /\ \E n \in 1..PaceConfig[CoursePace].base_q :
         row' = [row EXCEPT ![s] =
                   [NoRow EXCEPT !.status = "active",
                                 !.questions = [i \in 1..n |->
                                     [id |-> BaseId[i], base |-> TRUE]]]]
    /\ shown' = [shown EXCEPT ![s] = BaseId[1]]
    /\ UNCHANGED <<history, seen, skill, adaptation, completed, handler,
                   acked, sent, stray, faults>>

-----------------------------------------------------------------------------
(* Answering one question: the handler of a request *)

Goto(r, to) == pc' = [pc EXCEPT ![r] = to]

\* The client posts an answer.  It answers the question shown, which it also
\* does again after a failure or without waiting; MaxStray times it answers
\* another question of the session.
Submit(r, s, q) ==
    /\ pc[r] = "idle"
    /\ Cardinality(InFlight) < MaxInFlight
    /\ sent < MaxSent
    /\ row[s].status # "absent"
    /\ \/ q = shown[s] /\ stray' = stray
       \/ /\ q # shown[s] /\ q \in Ids(row[s].questions)
          /\ stray < MaxStray /\ stray' = stray + 1
    /\ q # ""
    /\ sent' = sent + 1
    /\ Goto(r, "read")
    /\ job' = [job EXCEPT ![r] = [NoJob EXCEPT !.session = s, !.question = q]]
    /\ UNCHANGED <<tables, shown, acked, faults>>

\* Mistake: a completed session is not refused.
AcceptsAlways(s, q) == q \in Ids(row[s].questions)

Accepts(s, q) == row[s].status = "active" /\ q \in Ids(row[s].questions)

\* get_evaluation_session: what the handler knows of the session from here on.
ReadSession(r) ==
    LET s == job[r].session IN
    /\ pc[r] = "read"
    /\ Accepts(s, job[r].question)
    /\ job' = [job EXCEPT ![r].questions = row[s].questions,
                          ![r].answers   = row[s].answers]
    /\ Goto(r, "diagnose")
    /\ UNCHANGED <<tables, client>>

\* The ValueErrors of submit_answer: session completed, question not in it.
Reject(r) ==
    /\ pc[r] = "read"
    /\ ~Accepts(job[r].session, job[r].question)
    /\ Goto(r, "idle")
    /\ job' = [job EXCEPT ![r] = NoJob]
    /\ UNCHANGED <<tables, client>>

AtHardLimit(answers) == Len(answers) >= PaceConfig[SubmitPace].max_total

\* Mistake: nobody looks whether a question is left.
FinalizeAtLimitOnly(questions, answers) == AtHardLimit(answers)

\* No question is left, or the limit is reached.
ShouldFinalize(questions, answers) ==
    AtHardLimit(answers) \/ Remaining(questions, answers) = {}

CanProbe(diagnosis, answers) ==
    /\ diagnosis.worthy
    /\ diagnosis.signal \in StrongSignal
    /\ SubmitProbesUsed < PaceConfig[SubmitPace].max_probes
    /\ Len(answers) < MaxQuestions

\* A probe gets no probe of its own: base questions only are probed.
AsksProbe(question, diagnosis, answers) ==
    CanProbe(diagnosis, answers) /\ ~AtHardLimit(answers) /\ question.base

\* Mistake: the questions counted are the base ones.
AfterAsManyAsBase(questions, answers) ==
    IF Len(answers) >= Cardinality({i \in DOMAIN questions : questions[i].base})
    THEN "report" ELSE "save"

AfterAnswer(questions, answers) ==
    IF ShouldFinalize(questions, answers) THEN "report" ELSE "save"

\* The answer is diagnosed and appended, whether or not the question was
\* answered before.
Diagnose(r) ==
    LET question == QuestionNamed(job[r].questions, job[r].question) IN
    /\ pc[r] = "diagnose"
    /\ \E d \in Diagnosis :
         LET answers == Append(job[r].answers,
                               [question |-> job[r].question,
                                probe    |-> ~question.base,
                                signal   |-> d.signal])
         IN  /\ job' = [job EXCEPT ![r].answers = answers]
             /\ Goto(r, IF AsksProbe(question, d, answers)
                        THEN "probe"
                        ELSE AfterAnswer(job[r].questions, answers))
    /\ UNCHANGED <<tables, client>>

\* The LLM's probe is appended to the questions.
GenerateProbe(r) ==
    /\ pc[r] = "probe"
    /\ \E id \in ProbeId :
         LET questions == Append(job[r].questions, [id |-> id, base |-> FALSE])
         IN  /\ job' = [job EXCEPT ![r].questions = questions, ![r].next = id]
             /\ Goto(r, AfterAnswer(questions, job[r].answers))
    /\ UNCHANGED <<tables, client>>

\* No weakness to name in the prompt, or the LLM call or its validation failed.
NoProbe(r) ==
    /\ pc[r] = "probe"
    /\ Goto(r, AfterAnswer(job[r].questions, job[r].answers))
    /\ UNCHANGED <<tables, client, job>>

-----------------------------------------------------------------------------
(* Finalising: one action per write, each committed on its own *)

\* Mistake: a decision the rest of the code does not know.
FallbackVerdictMisnamed(answers) ==
    [decision |-> IF ScoreReachesThreshold(answers) THEN "ADVANCE" ELSE "RETEACH",
     mastered |-> ScoreReachesThreshold(answers),
     fallback |-> TRUE]

\* Without a report of the LLM, score and decision follow from the signals.
FallbackVerdict(answers) ==
    [decision |-> IF ScoreReachesThreshold(answers)
                  THEN "ADVANCE" ELSE "RETEACH_WEAK_CONCEPTS",
     mastered |-> ScoreReachesThreshold(answers),
     fallback |-> TRUE]

\* The LLM's report brings a decision and a mastery score of its own: nothing
\* ties them to one another or to the answers' signals.  A decision outside
\* DECISION_ENUM is replaced by the one the computed score gives, and a score
\* of 0 by the computed score, which adds no other outcome.
LLMVerdicts == [decision : DecisionGiven, mastered : BOOLEAN, fallback : {FALSE}]

ComposeReport(r) ==
    /\ pc[r] = "report"
    /\ \E v \in LLMVerdicts \union {FallbackVerdict(job[r].answers)} :
         job' = [job EXCEPT ![r].verdict = v]
    /\ Goto(r, IF HasConcept THEN "mastery" ELSE "history")
    /\ UNCHANGED <<tables, client>>

UpsertConceptMastery(r) ==
    /\ pc[r] = "mastery"
    /\ seen' = seen + 1
    /\ Goto(r, "skill")
    /\ UNCHANGED <<row, history, skill, adaptation, completed, job, client>>

\* Mistake: the skill is told the computed score, the report the LLM's.
UpsertSkillFromSignals(r) ==
    /\ pc[r] = "skill"
    /\ skill' = [session |-> job[r].session,
                 mastered |-> ScoreReachesThreshold(job[r].answers)]
    /\ Goto(r, "history")
    /\ UNCHANGED <<row, history, seen, adaptation, completed, job, client>>

\* Mistake: the evaluation history is forgotten.
UpsertSkillSkipHistory(r) ==
    /\ pc[r] = "skill"
    /\ skill' = [session |-> job[r].session, mastered |-> job[r].verdict.mastered]
    /\ Goto(r, "adaptation")
    /\ UNCHANGED <<row, history, seen, adaptation, completed, job, client>>

UpsertStudentSkill(r) ==
    /\ pc[r] = "skill"
    /\ skill' = [session |-> job[r].session, mastered |-> job[r].verdict.mastered]
    /\ Goto(r, "history")
    /\ UNCHANGED <<row, history, seen, adaptation, completed, job, client>>

\* write_evaluation is a plain INSERT.
WriteEvaluation(r) ==
    /\ pc[r] = "history"
    /\ history' = [history EXCEPT ![job[r].session] =
                     Append(@, [verdict |-> job[r].verdict,
                                questions_asked |-> Len(job[r].answers)])]
    /\ Goto(r, "adaptation")
    /\ UNCHANGED <<row, seen, skill, adaptation, completed, job, client>>

SaveAdaptationSummary(r) ==
    /\ pc[r] = "adaptation"
    /\ adaptation' = job[r].session
    /\ Goto(r, "save")
    /\ UNCHANGED <<row, history, seen, skill, completed, job, client>>

\* Mistake: the answer just given is not in what is stored.
RowWithoutLastAnswer(j) ==
    [status    |-> IF j.verdict.decision # "" THEN "completed" ELSE "active",
     questions |-> j.questions,
     answers   |-> SubSeq(j.answers, 1, Len(j.answers) - 1),
     report    |-> j.verdict.decision # "",
     decision  |-> j.verdict.decision]

\* What a handler stores; the columns final_report, decision and status of a
\* session that goes on are written empty and active.
RowFrom(j) ==
    [status    |-> IF j.verdict.decision # "" THEN "completed" ELSE "active",
     questions |-> j.questions,
     answers   |-> j.answers,
     report    |-> j.verdict.decision # "",
     decision  |-> j.verdict.decision]

\* Mistake: every report completes the module.
LetsGoOnAnyway(decision) == decision # ""

LetsGoOn(decision) == decision # "" /\ decision \notin Withheld

\* save_evaluation_session overwrites the whole row with what the handler has
\* in memory.
SaveSession(r) ==
    /\ pc[r] = "save"
    /\ row' = [row EXCEPT ![job[r].session] = RowFrom(job[r])]
    /\ Goto(r, IF LetsGoOn(job[r].verdict.decision) THEN "complete" ELSE "respond")
    /\ UNCHANGED <<history, seen, skill, adaptation, completed, job, client>>

\* complete_module, called by the endpoint; its failure is logged and ignored.
CompleteModule(r) ==
    /\ pc[r] = "complete"
    /\ completed' \in {completed, completed \union {"evaluation"}}
    /\ Goto(r, "respond")
    /\ UNCHANGED <<row, history, seen, skill, adaptation, job, client>>

\* The module is completed, whether it was evaluated or not.
CompletedOtherwise ==
    /\ Elsewhere
    /\ completed' = completed \union {"other"}
    /\ UNCHANGED <<row, history, seen, skill, adaptation, handler, client>>

\* POST /complete: the student is done with the module.
MarkComplete == CompletedOtherwise

\* The plan is synced into the modules: those before its index are completed.
SyncCompletes == CompletedOtherwise

\* The question the response puts to the student, "" with the final report.
NextQuestion(r) ==
    IF job[r].verdict.decision # "" THEN ""
    ELSE IF job[r].next # "" THEN job[r].next
    ELSE job[r].questions[First(Remaining(job[r].questions, job[r].answers))].id

Respond(r) ==
    LET s == job[r].session IN
    /\ pc[r] = "respond"
    /\ shown' = [shown EXCEPT ![s] = NextQuestion(r)]
    /\ acked' = [acked EXCEPT ![s] = @ + 1]
    /\ Goto(r, "idle")
    /\ job' = [job EXCEPT ![r] = NoJob]
    /\ UNCHANGED <<tables, sent, stray, faults>>

\* The handler ends without a response: a database error (500), a cancelled
\* request, a restart of the server.  What it wrote so far stays written.
Fault(r) ==
    /\ pc[r] # "idle"
    /\ faults < MaxFaults
    /\ faults' = faults + 1
    /\ Goto(r, "idle")
    /\ job' = [job EXCEPT ![r] = NoJob]
    /\ UNCHANGED <<tables, shown, acked, sent, stray>>

-----------------------------------------------------------------------------
Handle(r) ==
    \/ ReadSession(r) \/ Reject(r)
    \/ Diagnose(r) \/ GenerateProbe(r) \/ NoProbe(r)
    \/ ComposeReport(r) \/ UpsertConceptMastery(r) \/ UpsertStudentSkill(r)
    \/ WriteEvaluation(r) \/ SaveAdaptationSummary(r)
    \/ SaveSession(r) \/ CompleteModule(r) \/ Respond(r)

Next ==
    \/ \E s \in Session : StartSession(s)
    \/ \E r \in Request, s \in Session, q \in QuestionId : Submit(r, s, q)
    \/ \E r \in Request : Handle(r) \/ Fault(r)
    \/ MarkComplete \/ SyncCompletes

Spec == Init /\ [][Next]_vars

\* The event loop runs every handler on: the LLM client gives up after its
\* timeouts and retries, so each await ends.
ServerFairness == \A r \in Request : WF_vars(Handle(r))

\* A student who keeps answering the question shown.
AnswerShown(s) == shown[s] # "" /\ \E r \in Request : Submit(r, s, shown[s])

DiligentSpec ==
    Spec /\ ServerFairness /\ \A s \in Session : WF_vars(AnswerShown(s))

-----------------------------------------------------------------------------
(* Properties *)

\* The tables, handlers and client always hold values of their types.
TypeOK ==
    /\ row \in [Session -> Row]
    /\ history \in [Session -> Seq([verdict : Verdict, questions_asked : Nat])]
    /\ seen \in Nat
    /\ skill \in [session : Session \union {None}, mastered : BOOLEAN]
    /\ adaptation \in Session \union {None}
    /\ completed \subseteq Completer
    /\ pc \in [Request -> Place]
    /\ job \in [Request -> Job]
    /\ shown \in [Session -> QuestionId \union {""}]
    /\ acked \in [Session -> Nat]
    /\ sent \in Nat /\ stray \in Nat /\ faults \in Nat

\* A session the student can still answer has a question left to answer and
\* room for the answer: whatever was probed, answered twice or overwritten, no
\* stored session is stuck short of its report.
ActiveHasQuestion ==
    \A s \in Session :
      row[s].status = "active" =>
        /\ Remaining(row[s].questions, row[s].answers) # {}
        /\ ~AtHardLimit(row[s].answers)

\* A report is given only when every question of the session has an answer or
\* the limit of the pace was reached, and never on more than MAX_QUESTIONS.
CompletedExhausted ==
    \A s \in Session :
      row[s].status = "completed" =>
        /\ ShouldFinalize(row[s].questions, row[s].answers)
        /\ Len(row[s].answers) <= MaxQuestions

\* The records hold an evaluation with that decision, made from that number of
\* answers.
OnRecord(records, decision, asked) ==
    \E i \in DOMAIN records :
      /\ records[i].verdict.decision = decision
      /\ records[i].questions_asked = asked

\* A completed session shows its report, and the evaluation history holds the
\* very verdict and number of answers that report was made from: the row is
\* written after everything the finalisation owes the learner tables.
CompletedOnRecord ==
    \A s \in Session :
      row[s].status = "completed" =>
        /\ row[s].report
        /\ OnRecord(history[s], row[s].decision, Len(row[s].answers))

RoomForProbe(questions, answers) ==
    Len(questions) < Len(BaseId) + Len(answers)

\* Where a handler stands agrees with what it has in memory and with the
\* records of its session.
InStep(at, j, records) ==
    LET decided == j.verdict.decision # ""
    IN  /\ at # "idle" => j.session \in Session /\ j.question # ""
        /\ at = "diagnose" => ~AtHardLimit(j.answers)
        /\ at = "probe" => RoomForProbe(j.questions, j.answers)
        /\ at \in {"read", "diagnose", "probe", "report"} => ~decided
        /\ at \in {"report", "mastery", "skill", "history", "adaptation"}
             => ShouldFinalize(j.questions, j.answers)
        /\ at \in {"mastery", "skill", "history", "adaptation"} => decided
        /\ at \in {"save", "complete", "respond"}
             => (decided <=> ShouldFinalize(j.questions, j.answers))
        /\ at \in {"adaptation", "save", "complete", "respond"} /\ decided
             => OnRecord(records, j.verdict.decision, Len(j.answers))
        /\ at = "complete" => decided /\ j.verdict.decision \notin Withheld
        /\ at \in {"mastery", "skill"} => HasConcept

HandlerOK(r) == InStep(pc[r], job[r], history[job[r].session])

\* What a handler may rely on between two awaits, whatever the others wrote to
\* the row meanwhile: it diagnoses only with room for the answer, evaluates
\* only when nothing is left to ask, stores a session that goes on only with
\* something left to ask, and reports or completes the module only after the
\* verdict it holds is on record.
HandlerInv == \A r \in Request : HandlerOK(r)

Fits(questions, answers) ==
    /\ Len(questions) <= Len(BaseId) + Len(answers)
    /\ Len(answers) <= PaceConfig[SubmitPace].max_total

\* No session grows beyond what its answers warrant, in the table or in the
\* hands of a handler: its base questions, a probe per answer at most, and no
\* more answers than the limit.
Bounded ==
    /\ \A s \in Session : Fits(row[s].questions, row[s].answers)
    /\ \A r \in Request : Fits(job[r].questions, job[r].answers)

\* The endpoint that takes answers completes the module only on an evaluation
\* that is on record and whose decision lets the student go on, whatever else
\* completes it meanwhile without one (evaluation_submit_answer).
CompletionEarned ==
    "evaluation" \in completed =>
      \E s \in Session : \E i \in DOMAIN history[s] :
        history[s][i].verdict.decision \notin Withheld

\* One request at a time: every answer the server acknowledged is in the row,
\* so a client that reconnects finds its progress (docs/API_REFERENCE.md).
AcknowledgedKept ==
    \A s \in Session : acked[s] <= Len(row[s].answers)

\* One request at a time: a session is evaluated again only for a finalisation
\* that died before it stored the session.
FinalizedOncePerFault ==
    \A s \in Session :
      Len(history[s]) <= faults + (IF \/ row[s].status = "completed"
                                      \/ \E r \in Request : job[r].session = s
                                   THEN 1 ELSE 0)

\* One request at a time: the learner's skill says of the concept what the
\* report of the session that wrote it says.
SkillMatchesReport ==
    \A s \in Session :
      row[s].status = "completed" /\ skill.session = s =>
        LET last == history[s][Len(history[s])].verdict
        IN  last.mastered = skill.mastered /\ last.decision = row[s].decision

\* One request at a time, every one answering the question shown: a session
\* is not completed before each of its base questions is answered.
BaseAnswered ==
    \A s \in Session :
      row[s].status = "completed" =>
        \A i \in DOMAIN row[s].questions :
          row[s].questions[i].base =>
            row[s].questions[i].id \in AnsweredIds(row[s].answers)

\* One request at a time, every one answering the question shown: a report is
\* on record, says of the skill what the skill says, and leaves no base
\* question out.
ReportSound == CompletedOnRecord /\ SkillMatchesReport /\ BaseAnswered

\* The ceiling of the pace: fast means 3 questions at most (the comment on
\* _PACE_CONFIG).
PaceCeiling ==
    \A s \in Session : Len(row[s].answers) <= PaceConfig[CoursePace].max_total

\* A student who keeps answering, one request at a time, gets a report.
SessionsFinish ==
    \A s \in Session : row[s].status = "active" ~> row[s].status = "completed"

\* One request at a time, the session row and its history keep the promise of
\* EvaluationContract.
Contract == INSTANCE EvaluationContract WITH
                Answer  <- Answer,
                phase   <- [s \in Session |-> row[s].status],
                answers <- [s \in Session |-> row[s].answers],
                records <- [s \in Session |-> Len(history[s])]

KeepsContract == Contract!Spec
=============================================================================
