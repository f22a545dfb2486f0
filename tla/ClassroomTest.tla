----------------------------- MODULE ClassroomTest -----------------------------
(***************************************************************************)
(* One test of a classroom: its life from draft to closed, its questions,  *)
(* the attempts of the students, and what grading feeds: the learners'     *)
(* mastery, the event log and the cached analyses of the classroom         *)
(* (core/test_service.py, db/institution.py, app/institution_api.py).      *)
(*                                                                         *)
(* A request reads, awaits the database or the LLM and writes, without a   *)
(* lock.  One action per await that separates a read from the write it     *)
(* decides; requests that are refused write nothing and are left out.      *)
(***************************************************************************)
EXTENDS Naturals, FiniteSets

CONSTANTS
    Teacher, Student,
    Slot,         \* requests one person can have in flight
    K,            \* questions the LLM generates for the test
    MaxTime,      \* bound: the time goes from 0 to this
    MaxDrawn,     \* bound: ids ever drawn for questions, texts and rows
    MaxWritten,   \* bound: autosaves a student ever sends
    MaxAnalyses,  \* bound: analyses of the classroom ever begun
    MaxFaults     \* bound: handlers that die before they end

ASSUME PersonAssumption == Teacher \notin Student
ASSUME BoundAssumption ==
    {K, MaxTime, MaxDrawn, MaxWritten, MaxAnalyses, MaxFaults} \subseteq Nat
ASSUME QuestionAssumption == 0 < K /\ K <= MaxDrawn

Person  == {Teacher} \union Student
Handler == Person \X Slot

TestStatus == {"draft", "approved", "scheduled", "live", "closed"}

\* A time that is not set is later than any other: what the code asks of it is
\* asked only when it is set.
Time   == 0..MaxTime
NoTime == MaxTime + 1

\* A row of test_questions: its id, the text under that id, and the request
\* that inserted it.
Row == [id : 1..MaxDrawn, text : 1..MaxDrawn, by : 1..MaxDrawn]

-----------------------------------------------------------------------------
VARIABLES
    test,       \* classroom_tests: status and the scheduled window
    now,        \* the clock
    questions,  \* test_questions: the rows of the test
    attempt,    \* test_attempts: one row per student
    credited,   \* how often the test was fed to a student's mastery
    events,     \* learning_events: submissions of a student
    analysis,   \* the latest cached analysis: the attempts it knows of, stale
    pc, job,    \* the handler of each request
    acked,      \* client: the latest answers a student was told are saved
    drawn, written, analyses, faults   \* what the bounds count

tables  == <<test, questions, attempt, credited, events, analysis>>
handler == <<pc, job>>
counted == <<drawn, written, analyses, faults>>
vars    == <<tables, now, handler, acked, counted>>

\* The grades the LLM may give for the same answers.
Grade == {"better", "worse"}

\* Answers are known by the autosave that sent them, 0 before the first; a
\* graded attempt also has the answers the grade was given for.
Attempt   == [status : {"absent", "in_progress", "graded"},
              answers : 0..MaxWritten, marked : 0..MaxWritten,
              grade : Grade \union {"none"}]
NoAttempt == [status |-> "absent", answers |-> 0, marked |-> 0, grade |-> "none"]

Analysis == [knows : SUBSET Student, stale : BOOLEAN]

Job == [to      : TestStatus \union {""},        \* the status to write
        start   : 0..NoTime, end : 0..NoTime,    \* and the window, if set
        list    : SUBSET Row,                    \* the questions to insert
        doomed  : SUBSET Row,                    \* the rows DELETE has found
        target  : 0..MaxDrawn,                   \* the question regenerated
        answers : 0..MaxWritten,                 \* to save, or to grade
        knows   : SUBSET Student]                \* the attempts analysed

NoJob == [to |-> "", start |-> NoTime, end |-> NoTime, list |-> {},
          doomed |-> {}, target |-> 0, answers |-> 0, knows |-> {}]

Graded == {s \in Student : attempt[s].status = "graded"}

Init ==
    /\ test = [status |-> "absent", start |-> NoTime, end |-> NoTime]
    /\ now = 0
    /\ questions = {}
    /\ attempt = [s \in Student |-> NoAttempt]
    /\ credited = [s \in Student |-> 0]
    /\ events = [s \in Student |-> 0]
    /\ analysis = [knows |-> {}, stale |-> TRUE]
    /\ pc = [r \in Handler |-> "idle"]
    /\ job = [r \in Handler |-> NoJob]
    /\ acked = [s \in Student |-> 0]
    /\ drawn = 0 /\ written = [s \in Student |-> 0]
    /\ analyses = 0 /\ faults = 0

-----------------------------------------------------------------------------
Goto(r, to) == pc' = [pc EXCEPT ![r] = to]

Begin(r, to, work) ==
    /\ pc[r] = "idle"
    /\ Goto(r, to)
    /\ job' = [job EXCEPT ![r] = work]

End(r) == Goto(r, "idle") /\ job' = [job EXCEPT ![r] = NoJob]

Tick ==
    /\ now < MaxTime
    /\ now' = now + 1
    /\ UNCHANGED <<tables, handler, acked, counted>>

\* Mistake: the window is looked at, and not the status.
EffectiveStatusByWindow == IF now <= test.end THEN "live" ELSE "closed"

\* _effective_status: what the window makes of the stored status.
EffectiveStatus ==
    IF test.status = "scheduled" /\ test.start <= now /\ now <= test.end THEN "live"
    ELSE IF test.status \in {"scheduled", "live"} /\ test.end < now THEN "closed"
    ELSE test.status

(* The questions of the test *)

\* Rows as the request that draws n inserts them.
Stamped(rows, n) == {[q EXCEPT !.by = n] : q \in rows}
Drawn(n)         == [id |-> n, text |-> n, by |-> n]

\* generate_test: the LLM answered; the draft is inserted, empty, and then its
\* questions replace the none it has.
GenerateTest(r) ==
    /\ test.status = "absent"
    /\ test' = [test EXCEPT !.status = "draft"]
    /\ drawn' = K
    /\ Begin(r, "delete",
             [NoJob EXCEPT !.list = Stamped({Drawn(n) : n \in 1..K}, K)])
    /\ UNCHANGED <<now, questions, attempt, credited, events, analysis, acked,
                   written, analyses, faults>>

\* Mistake: a scheduled test can still be edited.
EditableUntilLive == test.status \in {"draft", "approved", "scheduled"}

Editable == test.status \in {"draft", "approved"}

\* Mistake: the last question can be removed.
EditsToNone(n) ==
    {Stamped(questions, n) \union {Drawn(n)}}
      \union {Stamped((questions \ {q}) \union {[q EXCEPT !.text = n]}, n) : q \in questions}
      \union {Stamped(questions \ {q}, n) : q \in questions}

\* The lists a teacher sends back: a question more, one with another text under
\* its id, or one less.
Edits(n) ==
    {Stamped(questions, n) \union {Drawn(n)}}
      \union {Stamped((questions \ {q}) \union {[q EXCEPT !.text = n]}, n) : q \in questions}
      \union ({Stamped(questions \ {q}, n) : q \in questions} \ {{}})

\* PATCH: the status is read, and the list sent by the client will replace the
\* one that is there.
UpdateQuestions(r) ==
    /\ Editable /\ drawn < MaxDrawn
    /\ drawn' = drawn + 1
    /\ \E list \in Edits(drawn + 1) :
         Begin(r, "delete", [NoJob EXCEPT !.list = list])
    /\ UNCHANGED <<tables, now, acked, written, analyses, faults>>

\* Mistake: only the new question is written back.
RegeneratedAlone(q, n) == {Drawn(n)}

Regenerated(q, n) == Stamped(questions \ {q}, n) \union {Drawn(n)}

\* regenerate_question: status and questions are read, then the LLM is asked
\* for one; it brings an id of its own.
RegenerateQuestion(r) ==
    /\ Editable /\ drawn < MaxDrawn
    /\ drawn' = drawn + 1
    /\ \E q \in questions :
         Begin(r, "delete", [NoJob EXCEPT !.list = Regenerated(q, drawn + 1),
                                          !.target = q.id])
    /\ UNCHANGED <<tables, now, acked, written, analyses, faults>>

\* The LLM fails, and nothing is replaced.
RegenerationFails(r) ==
    /\ pc[r] = "delete" /\ job[r].target # 0
    /\ End(r)
    /\ UNCHANGED <<tables, now, acked, counted>>

\* replace_test_questions is one transaction, and its DELETE finds the rows
\* that are committed when it starts: rows another request inserts while it
\* waits for the rows' locks are not among them.
DeleteQuestions(r) ==
    /\ pc[r] = "delete"
    /\ job' = [job EXCEPT ![r].doomed = questions]
    /\ Goto(r, "insert")
    /\ UNCHANGED <<tables, now, acked, counted>>

IdsOf(rows) == {q.id : q \in rows}

\* Mistake: only the questions that come again are replaced.
RemainingUnlisted(r) == {q \in questions : q.id \notin IdsOf(job[r].list)}

Remaining(r) == questions \ job[r].doomed

\* The inserts and the commit.  The id is the primary key: one that is there
\* rolls everything back.
InsertQuestions(r) ==
    /\ pc[r] = "insert"
    /\ questions' = IF IdsOf(Remaining(r)) \intersect IdsOf(job[r].list) = {}
                    THEN Remaining(r) \union job[r].list
                    ELSE questions
    /\ End(r)
    /\ UNCHANGED <<test, attempt, credited, events, analysis, now, acked, counted>>

(* The life of the test *)

\* Mistake: a draft can be published without approval.
MovesUnreviewed ==
    {[action |-> "approve",  from |-> {"draft"},                 to |-> "approved"],
     [action |-> "schedule", from |-> {"approved", "scheduled"}, to |-> "scheduled"],
     [action |-> "publish",  from |-> {"draft", "approved", "scheduled"}, to |-> "live"],
     [action |-> "close",    from |-> {"live", "scheduled"},     to |-> "closed"]}

\* Mistake: a live test can be scheduled again.
MovesBack ==
    {[action |-> "approve",  from |-> {"draft"},                 to |-> "approved"],
     [action |-> "schedule", from |-> {"approved", "scheduled", "live"}, to |-> "scheduled"],
     [action |-> "publish",  from |-> {"approved", "scheduled"}, to |-> "live"],
     [action |-> "close",    from |-> {"live", "scheduled"},     to |-> "closed"]}

\* Mistake: a status the rest of the code does not know.
MovesMisnamed ==
    {[action |-> "approve",  from |-> {"draft"},                 to |-> "approved"],
     [action |-> "schedule", from |-> {"approved", "scheduled"}, to |-> "scheduled"],
     [action |-> "publish",  from |-> {"approved", "scheduled"}, to |-> "published"],
     [action |-> "close",    from |-> {"live", "scheduled"},     to |-> "closed"]}

Moves ==
    {[action |-> "approve",  from |-> {"draft"},                 to |-> "approved"],
     [action |-> "schedule", from |-> {"approved", "scheduled"}, to |-> "scheduled"],
     [action |-> "publish",  from |-> {"approved", "scheduled"}, to |-> "live"],
     [action |-> "close",    from |-> {"live", "scheduled"},     to |-> "closed"]}

\* transition_test reads the test and checks the action against its status ...
Transition(r) ==
    /\ \E m \in Moves :
         /\ test.status \in m.from
         /\ \E start \in IF m.action = "schedule" THEN Time ELSE {NoTime},
               end \in IF m.action = "schedule" THEN 0..NoTime ELSE {NoTime} :
              Begin(r, "move", [NoJob EXCEPT !.to = m.to, !.start = start,
                                             !.end = end])
    /\ UNCHANGED <<tables, now, acked, counted>>

\* ... and writes the new one, whatever it is by then.  An end that is not
\* given leaves the one that is there.
WriteStatus(r) ==
    LET IfSet(new, old) == IF new = NoTime THEN old ELSE new IN
    /\ pc[r] = "move"
    /\ test' = [status |-> job[r].to,
                start  |-> IfSet(job[r].start, test.start),
                end    |-> IfSet(job[r].end, test.end)]
    /\ End(r)
    /\ UNCHANGED <<now, questions, attempt, credited, events, analysis, acked,
                   counted>>

(* The attempt of a student *)

\* start_attempt: the test was found live,
StartAttempt(r) ==
    /\ EffectiveStatus = "live"
    /\ Begin(r, "open", NoJob)
    /\ UNCHANGED <<tables, now, acked, counted>>

\* get_or_create_attempt: the student's attempt is looked for,
OpenAttempt(r) ==
    /\ pc[r] = "open"
    /\ IF attempt[r[1]].status = "absent"
       THEN Goto(r, "create") /\ UNCHANGED job
       ELSE End(r)
    /\ UNCHANGED <<tables, now, acked, counted>>

\* and inserted if there was none; the second of two INSERTs fails, for there
\* is one row per test and student.
CreateAttempt(r) ==
    /\ pc[r] = "create"
    /\ attempt' = IF attempt[r[1]].status = "absent"
                  THEN [attempt EXCEPT ![r[1]].status = "in_progress"]
                  ELSE attempt
    /\ End(r)
    /\ UNCHANGED <<test, questions, credited, events, analysis, now, acked, counted>>

\* save_answers: the attempt was found in progress, whatever the test is.
SaveAnswers(r) ==
    LET s == r[1] IN
    /\ attempt[s].status = "in_progress"
    /\ written[s] < MaxWritten
    /\ written' = [written EXCEPT ![s] = @ + 1]
    /\ Begin(r, "autosave", [NoJob EXCEPT !.answers = written[s] + 1])
    /\ UNCHANGED <<tables, now, acked, drawn, analyses, faults>>

\* Mistake: the attempt is taken for in progress until it is graded, and looked
\* up by a status it never has.
OpenForAnswersNever(s) == attempt[s].status = "submitted"

\* Mistake: the UPDATE does not look at the status.
OpenForAnswersAlways(s) == TRUE

OpenForAnswers(s) == attempt[s].status = "in_progress"

\* save_attempt_answers: an UPDATE of the row if it still is in progress.  The
\* client is told that its answers are saved either way.
WriteAnswers(r) ==
    LET s == r[1] IN
    /\ pc[r] = "autosave"
    /\ attempt' = IF OpenForAnswers(s)
                  THEN [attempt EXCEPT ![s].answers = job[r].answers]
                  ELSE attempt
    /\ acked' = [acked EXCEPT ![s] = job[r].answers]
    /\ End(r)
    /\ UNCHANGED <<test, questions, credited, events, analysis, now, counted>>

\* Mistake: an attempt that is graded can be submitted again.
SubmittableAgain(s) == attempt[s].status \in {"in_progress", "graded"}

\* Mistake: a test that was closed takes no submission.
SubmittableLive(s) ==
    attempt[s].status = "in_progress" /\ EffectiveStatus = "live"

Submittable(s) == attempt[s].status = "in_progress"

\* submit_attempt: the attempt was found in progress and its answers are read;
\* the LLM grades them, or gives half of the points when it fails.
SubmitAttempt(r) ==
    /\ Submittable(r[1])
    /\ Begin(r, "credit", [NoJob EXCEPT !.answers = attempt[r[1]].answers])
    /\ UNCHANGED <<tables, now, acked, counted>>

\* The scores go to the student's mastery; a failure is logged and ignored.
CreditMastery(r) ==
    /\ pc[r] = "credit"
    /\ \/ credited' = [credited EXCEPT ![r[1]] = @ + 1]
       \/ credited' = credited
    /\ Goto(r, "finalize")
    /\ UNCHANGED <<test, questions, attempt, events, analysis, now, job, acked,
                   counted>>

\* finalize_attempt: an UPDATE by id, with the grade the LLM gave.
FinalizeAttempt(r) ==
    LET s == r[1] IN
    /\ pc[r] = "finalize"
    /\ \E grade \in Grade :
         attempt' = [attempt EXCEPT ![s].status = "graded",
                                    ![s].marked = job[r].answers,
                                    ![s].grade  = grade]
    /\ Goto(r, "event")
    /\ UNCHANGED <<test, questions, credited, events, analysis, now, job, acked,
                   counted>>

RecordEvent(r) ==
    /\ pc[r] = "event"
    /\ events' = [events EXCEPT ![r[1]] = @ + 1]
    /\ Goto(r, "stale")
    /\ UNCHANGED <<test, questions, attempt, credited, analysis, now, job, acked,
                   counted>>

MarkArtifactsStale(r) ==
    /\ pc[r] = "stale"
    /\ analysis' = [analysis EXCEPT !.stale = TRUE]
    /\ End(r)
    /\ UNCHANGED <<test, questions, attempt, credited, events, now, acked, counted>>

(* The analyses of the classroom *)

\* ai_insights and its kin read the attempts, then ask the LLM,
Analyse(r) ==
    /\ analyses < MaxAnalyses
    /\ analyses' = analyses + 1
    /\ Begin(r, "artifact", [NoJob EXCEPT !.knows = Graded])
    /\ UNCHANGED <<tables, now, acked, drawn, written, faults>>

\* and cache what it says, fresh; or it fails, and they do not.
SaveArtifact(r) ==
    /\ pc[r] = "artifact"
    /\ \/ analysis' = [knows |-> job[r].knows, stale |-> FALSE]
       \/ analysis' = analysis
    /\ End(r)
    /\ UNCHANGED <<test, questions, attempt, credited, events, now, acked, counted>>

(* Around them *)

Fault(r) ==
    /\ pc[r] # "idle" /\ faults < MaxFaults
    /\ faults' = faults + 1
    /\ End(r)
    /\ UNCHANGED <<tables, now, acked, drawn, written, analyses>>

-----------------------------------------------------------------------------
TeacherSends(r) ==
    \/ GenerateTest(r) \/ UpdateQuestions(r) \/ RegenerateQuestion(r)
    \/ Transition(r) \/ Analyse(r)

StudentSends(r) == StartAttempt(r) \/ SaveAnswers(r) \/ SubmitAttempt(r)

TeacherHandle(r) ==
    \/ RegenerationFails(r) \/ DeleteQuestions(r) \/ InsertQuestions(r)
    \/ WriteStatus(r) \/ SaveArtifact(r)

StudentHandle(r) ==
    \/ OpenAttempt(r) \/ CreateAttempt(r) \/ WriteAnswers(r)
    \/ CreditMastery(r) \/ FinalizeAttempt(r) \/ RecordEvent(r)
    \/ MarkArtifactsStale(r)

Next ==
    \/ Tick
    \/ \E r \in {Teacher} \X Slot : TeacherSends(r) \/ TeacherHandle(r)
    \/ \E r \in Student \X Slot : StudentSends(r) \/ StudentHandle(r)
    \/ \E r \in Handler : Fault(r)

Spec == Init /\ [][Next]_vars

\* The event loop runs every handler on, its awaits end; and a student who again
\* and again could submit, instead of saving or reloading, does so some day.
DiligentSpec ==
    /\ Spec
    /\ \A r \in {Teacher} \X Slot : WF_vars(TeacherHandle(r))
    /\ \A r \in Student \X Slot :
         WF_vars(StudentHandle(r)) /\ SF_vars(SubmitAttempt(r))

-----------------------------------------------------------------------------
(* Properties *)

Place == {"idle", "delete", "insert", "move", "open", "create", "autosave",
          "credit", "finalize", "event", "stale", "artifact"}

\* The tables, the handlers and the clients always hold values of their types.
TypeOK ==
    /\ test \in [status : TestStatus \union {"absent"},
                 start : 0..NoTime, end : 0..NoTime]
    /\ now \in Time
    /\ questions \subseteq Row
    /\ attempt \in [Student -> Attempt]
    /\ credited \in [Student -> Nat]
    /\ events \in [Student -> Nat]
    /\ analysis \in Analysis
    /\ pc \in [Handler -> Place]
    /\ job \in [Handler -> Job]
    /\ acked \in [Student -> 0..MaxWritten]
    /\ drawn \in 0..MaxDrawn
    /\ written \in [Student -> 0..MaxWritten]
    /\ analyses \in Nat /\ faults \in Nat

\* No test gets to the students without its approval: in every interleaving of
\* requests, an attempt exists only for a test that left the draft.
Reviewed ==
    test.status \in {"absent", "draft"} =>
      \A s \in Student : attempt[s] = NoAttempt /\ credited[s] = 0

\* A draft becomes nothing but approved: transition_test writes a status it
\* checked an await before, and no other transition can be waiting for that.
ApprovedFirst ==
    [][test.status = "draft" => test'.status \in {"draft", "approved"}]_vars

\* The answers of a graded attempt are sealed: an autosave that passed the
\* check before the grading does not change them after it.
AnswersSealed ==
    [][\A s \in Student :
         attempt[s].status = "graded" =>
           attempt'[s].status = "graded" /\ attempt'[s].answers = attempt[s].answers]_vars

Rank(status) ==
    CASE status = "absent" -> 0 [] status = "draft" -> 1
      [] status = "approved" -> 2 [] status = "scheduled" -> 3
      [] status = "live" -> 4 [] status = "closed" -> 5

\* One request at a time per person: a test moves through approve, schedule,
\* publish, close and never back (docstring of the transition endpoint).
MovesForward == [][Rank(test.status) <= Rank(test'.status)]_vars

\* One request at a time per person: from the first attempt on the paper is
\* frozen; nobody edits a published test ("Cannot edit a published test").
PaperFrozen ==
    [][(\E s \in Student : attempt[s].status # "absent")
         => questions' = questions]_vars

\* The questions of the test are the list of one request: what is replaced is
\* replaced whole (docstring of replace_test_questions).
OneList == \A p, q \in questions : p.by = q.by

\* One request at a time per person: regenerating a question leaves the rest
\* as they are when it is done (docstring of regenerate_question).
RegenerationKeepsRest ==
    [][\A r \in Handler :
         pc[r] = "insert" /\ job[r].target # 0 /\ questions' # questions =>
           \A q \in questions :
             q.id # job[r].target =>
               \E p \in questions' : p.id = q.id /\ p.text = q.text]_vars

\* One request at a time per person: answers a student was told are saved are
\* the ones the grade is given for, or older than those.
AcknowledgedGraded ==
    \A s \in Graded : acked[s] <= attempt[s].marked

\* One request at a time per person: a grade is given once, and stays.
GradeIsFinal ==
    [][\A s \in Graded : attempt'[s] = attempt[s]]_vars

\* One request at a time per person: a test is fed to a student's mastery a
\* second time only after a submission that died before it was stored.
CreditedOncePerFault == \A s \in Student : credited[s] <= 1 + faults

\* A test that students can take has questions ("A test needs at least one
\* question"), unless a handler died between the draft and its questions.
TestHasQuestions ==
    EffectiveStatus = "live" /\ faults = 0 => questions # {}

\* The list of questions is whole wherever a student can meet it.
PaperWhole == OneList /\ TestHasQuestions

\* Nothing a student was told is left out of a grade, or counted twice.
GradesAccounted == AcknowledgedGraded /\ CreditedOncePerFault

\* One request at a time per person: the paper changes neither under students
\* nor beside the question that is regenerated.
PaperKept == PaperFrozen /\ RegenerationKeepsRest

\* With no request in flight, a cached analysis that does not know of a graded
\* attempt is flagged stale (docstring of mark_artifacts_stale).
AnalysisCurrent ==
    (\A r \in Handler : pc[r] = "idle") => analysis.stale \/ analysis.knows = Graded

\* An attempt is graded some day, though the test may be closed meanwhile: an
\* attempt that was begun is not stranded.
AttemptsGraded ==
    \A s \in Student :
      attempt[s].status = "in_progress" ~> attempt[s].status = "graded"
=============================================================================
