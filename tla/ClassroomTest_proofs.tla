------------------------- MODULE ClassroomTest_proofs -------------------------
(***************************************************************************)
(* What holds of a classroom test for any number of students, requests of  *)
(* each person, questions and faults: no student sees it before it was     *)
(* approved, and a graded attempt keeps the answers it was graded with;    *)
(* with one request per person, that grades are of the saved answers and   *)
(* final, and the paper is whole and stays.                                *)
(***************************************************************************)
EXTENDS ClassroomTest, TLAPS

-----------------------------------------------------------------------------
(* The inductive invariant *)

\* Where the handlers of a student's requests stand once they passed a check.
StudentPlace == {"open", "create", "autosave", "credit", "finalize", "event", "stale"}

Unreleased == test.status \in {"absent", "draft"}

\* A transition that was checked but not written yet: what it will write is
\* right for a draft even if the test it read is not what is there by now.
MoveOK(r) ==
    pc[r] = "move" =>
      /\ job[r].to \in {"approved", "scheduled", "live", "closed"}
      /\ test.status # "absent"
      /\ test.status = "draft" => job[r].to = "approved"

\* A student's request in flight got past a check that a draft does not pass.
VisitOK(r) == pc[r] \in StudentPlace => ~Unreleased

\* Reviewed is not inductive: an attempt is inserted, and a status written,
\* long after the check that allowed it.
IInv ==
    /\ TypeOK
    /\ Reviewed
    /\ \A r \in Handler : MoveOK(r) /\ VisitOK(r)

-----------------------------------------------------------------------------
(* Types *)

\* A handler that goes on or ends leaves the handlers typed.
LEMMA HandlerTyped ==
  ASSUME TypeOK, NEW r \in Handler, NEW p \in Place, NEW j \in Job,
         Goto(r, p), job' = [job EXCEPT ![r] = j]
  PROVE  pc' \in [Handler -> Place] /\ job' \in [Handler -> Job]
BY DEF TypeOK, Goto

\* Questions inserted by a request are rows.
LEMMA StampedRows ==
  ASSUME NEW rows \in SUBSET Row, NEW n \in 1..MaxDrawn
  PROVE  Stamped(rows, n) \in SUBSET Row
BY DEF Stamped, Row

\* A question drawn from the LLM or the teacher is a row.
LEMMA DrawnRow ==
  ASSUME NEW n \in 1..MaxDrawn
  PROVE  Drawn(n) \in Row
BY DEF Drawn, Row

\* The blank memory is a memory.
LEMMA NoJobTyped == NoJob \in Job
<1>1. NoTime \in 0..NoTime /\ 0 \in 0..MaxDrawn /\ 0 \in 0..MaxWritten
  BY BoundAssumption DEF NoTime
<1> QED BY <1>1 DEF NoJob, Job

\* Requests with questions to insert hold rows.
LEMMA EditsAreRows ==
  ASSUME questions \in SUBSET Row, NEW n \in 1..MaxDrawn, NEW list \in Edits(n)
  PROVE  list \in SUBSET Row
<1>1. Stamped(questions, n) \union {Drawn(n)} \in SUBSET Row
  BY StampedRows, DrawnRow
<1>2. ASSUME NEW q \in questions
      PROVE  /\ Stamped((questions \ {q}) \union {[q EXCEPT !.text = n]}, n) \in SUBSET Row
             /\ Stamped(questions \ {q}, n) \in SUBSET Row
  <2>1. [q EXCEPT !.text = n] \in Row
    BY <1>2 DEF Row
  <2>2. /\ (questions \ {q}) \union {[q EXCEPT !.text = n]} \in SUBSET Row
        /\ questions \ {q} \in SUBSET Row
    BY <2>1
  <2> QED BY <2>2, StampedRows
<1> QED BY <1>1, <1>2 DEF Edits

-----------------------------------------------------------------------------
(* The steps of the questions *)

\* A request that ends forgets what it held.
LEMMA EndTyped ==
  ASSUME TypeOK, NEW r \in Handler, End(r)
  PROVE  pc' \in [Handler -> Place] /\ job' \in [Handler -> Job]
<1>1. "idle" \in Place
  BY DEF Place
<1> QED BY <1>1, HandlerTyped, NoJobTyped DEF End

\* A request that begins holds what it read.
LEMMA BeginTyped ==
  ASSUME TypeOK, NEW r \in Handler, NEW p \in Place, NEW j \in Job, Begin(r, p, j)
  PROVE  pc' \in [Handler -> Place] /\ job' \in [Handler -> Job]
BY HandlerTyped DEF Begin

\* The number of a question that is drawn is within the bound.
LEMMA NextDrawn ==
  ASSUME TypeOK, drawn < MaxDrawn
  PROVE  drawn + 1 \in 1..MaxDrawn
BY BoundAssumption DEF TypeOK

\* Replacing the questions of the test keeps the types.
LEMMA QuestionsTyped ==
  ASSUME TypeOK, NEW r \in Handler,
         \/ GenerateTest(r) \/ UpdateQuestions(r) \/ RegenerateQuestion(r)
         \/ RegenerationFails(r) \/ DeleteQuestions(r) \/ InsertQuestions(r)
  PROVE  TypeOK'
<1> USE BoundAssumption
<1>1. CASE GenerateTest(r)
  <2>1. K \in 1..MaxDrawn
    BY QuestionAssumption
  <2>2. {Drawn(n) : n \in 1..K} \in SUBSET Row
    BY <2>1, DrawnRow
  <2>3. [NoJob EXCEPT !.list = Stamped({Drawn(n) : n \in 1..K}, K)] \in Job
    BY <2>1, <2>2, StampedRows, NoJobTyped DEF Job
  <2>4. "delete" \in Place /\ "draft" \in TestStatus
    BY DEF Place, TestStatus
  <2>5. pc' \in [Handler -> Place] /\ job' \in [Handler -> Job]
    BY <1>1, <2>3, <2>4, BeginTyped DEF GenerateTest
  <2> QED BY <1>1, <2>1, <2>4, <2>5 DEF GenerateTest, TypeOK
<1>2. CASE UpdateQuestions(r)
  <2>1. drawn + 1 \in 1..MaxDrawn
    BY <1>2, NextDrawn DEF UpdateQuestions
  <2>2. PICK list \in Edits(drawn + 1) : Begin(r, "delete", [NoJob EXCEPT !.list = list])
    BY <1>2 DEF UpdateQuestions
  <2>3. list \in SUBSET Row
    BY <2>1, EditsAreRows DEF TypeOK
  <2>4. [NoJob EXCEPT !.list = list] \in Job /\ "delete" \in Place
    BY <2>3, NoJobTyped DEF Job, Place
  <2>5. pc' \in [Handler -> Place] /\ job' \in [Handler -> Job]
    BY <2>2, <2>4, BeginTyped
  <2> QED BY <1>2, <2>1, <2>5 DEF UpdateQuestions, TypeOK, tables
<1>3. CASE RegenerateQuestion(r)
  <2>1. drawn + 1 \in 1..MaxDrawn
    BY <1>3, NextDrawn DEF RegenerateQuestion
  <2>2. PICK q \in questions :
          Begin(r, "delete", [NoJob EXCEPT !.list = Regenerated(q, drawn + 1),
                                           !.target = q.id])
    BY <1>3 DEF RegenerateQuestion
  <2>3. q \in Row /\ questions \ {q} \in SUBSET Row
    BY <2>2 DEF TypeOK
  <2>4. q.id \in 0..MaxDrawn
    BY <2>3 DEF Row
  <2>5. Regenerated(q, drawn + 1) \in SUBSET Row
    BY <2>1, <2>3, StampedRows, DrawnRow DEF Regenerated
  <2>6. [NoJob EXCEPT !.list = Regenerated(q, drawn + 1), !.target = q.id] \in Job
    BY <2>4, <2>5, NoJobTyped DEF Job
  <2>7. pc' \in [Handler -> Place] /\ job' \in [Handler -> Job]
    <3>1. "delete" \in Place
      BY DEF Place
    <3> QED BY <2>2, <2>6, <3>1, BeginTyped
  <2>8. drawn' \in 0..MaxDrawn
    <3>1. drawn' = drawn + 1
      BY <1>3 DEF RegenerateQuestion
    <3> QED BY <2>1, <3>1
  <2>9. UNCHANGED <<tables, now, acked, written, analyses, faults>>
    BY <1>3 DEF RegenerateQuestion
  <2> QED BY <2>7, <2>8, <2>9 DEF TypeOK, tables
<1>4. CASE RegenerationFails(r)
  BY <1>4, EndTyped DEF RegenerationFails, TypeOK, tables, counted
<1>5. CASE DeleteQuestions(r)
  <2>1. [job[r] EXCEPT !.doomed = questions] \in Job
    <3>1. job[r] \in Job /\ questions \in SUBSET Row
      BY DEF TypeOK
    <3> QED BY <3>1 DEF Job
  <2>2. job' = [job EXCEPT ![r] = [job[r] EXCEPT !.doomed = questions]]
    BY <1>5 DEF DeleteQuestions, TypeOK
  <2>3. "insert" \in Place
    BY DEF Place
  <2>4. pc' \in [Handler -> Place] /\ job' \in [Handler -> Job]
    BY <1>5, <2>1, <2>2, <2>3, HandlerTyped DEF DeleteQuestions
  <2> QED BY <1>5, <2>4 DEF DeleteQuestions, TypeOK, tables, counted
<1>6. CASE InsertQuestions(r)
  <2>1. questions' \in SUBSET Row
    <3>1. job[r].list \in SUBSET Row
      BY DEF TypeOK, Job
    <3> QED BY <1>6, <3>1 DEF InsertQuestions, Remaining, TypeOK
  <2>2. pc' \in [Handler -> Place] /\ job' \in [Handler -> Job]
    BY <1>6, EndTyped DEF InsertQuestions
  <2> QED BY <1>6, <2>1, <2>2 DEF InsertQuestions, TypeOK, counted
<1> QED BY <1>1, <1>2, <1>3, <1>4, <1>5, <1>6

-----------------------------------------------------------------------------
(* The steps of the test's life and of the attempts *)

\* A pair whose first member is a student is a request of that student.
LEMMA StudentRequest ==
  ASSUME NEW r \in Student \X Slot
  PROVE  r \in Handler /\ r[1] \in Student
BY DEF Handler, Person

\* A transition is checked, and written, with a status the table knows.
LEMMA MovesTyped ==
  ASSUME TypeOK, NEW r \in Handler, MoveOK(r), Transition(r) \/ WriteStatus(r)
  PROVE  TypeOK'
<1>0. NoTime \in 0..NoTime /\ Time \subseteq 0..NoTime
  BY BoundAssumption DEF NoTime, Time
<1>1. CASE Transition(r)
  <2>1. PICK m \in Moves, start \in 0..NoTime, end \in 0..NoTime :
          Begin(r, "move", [NoJob EXCEPT !.to = m.to, !.start = start, !.end = end])
    BY <1>0, <1>1 DEF Transition
  <2>2. m.to \in TestStatus
    BY DEF Moves, TestStatus
  <2>3. [NoJob EXCEPT !.to = m.to, !.start = start, !.end = end] \in Job
    BY <2>1, <2>2, NoJobTyped DEF Job
  <2>4. "move" \in Place
    BY DEF Place
  <2>5. pc' \in [Handler -> Place] /\ job' \in [Handler -> Job]
    BY <2>1, <2>3, <2>4, BeginTyped
  <2>6. UNCHANGED <<tables, now, acked, counted>>
    BY <1>1 DEF Transition
  <2> QED BY <2>5, <2>6 DEF TypeOK, tables, counted
<1>2. CASE WriteStatus(r)
  <2>1. /\ job[r].start \in 0..NoTime /\ job[r].end \in 0..NoTime
        /\ test.start \in 0..NoTime /\ test.end \in 0..NoTime
    BY DEF TypeOK, Job
  <2>2. job[r].to \in TestStatus
    BY <1>2 DEF MoveOK, WriteStatus, TestStatus
  <2>3. test' \in [status : TestStatus \union {"absent"},
                   start : 0..NoTime, end : 0..NoTime]
    BY <1>2, <2>1, <2>2 DEF WriteStatus
  <2>4. pc' \in [Handler -> Place] /\ job' \in [Handler -> Job]
    BY <1>2, EndTyped DEF WriteStatus
  <2>5. UNCHANGED <<now, questions, attempt, credited, events, analysis, acked,
                    counted>>
    BY <1>2 DEF WriteStatus
  <2> QED BY <2>3, <2>4, <2>5 DEF TypeOK, counted
<1> QED BY <1>1, <1>2

\* A memory with other answers is a memory.
LEMMA AnswersTyped ==
  ASSUME NEW a \in 0..MaxWritten
  PROVE  [NoJob EXCEPT !.answers = a] \in Job
BY NoJobTyped DEF Job

\* Requests of students begin with answers of theirs.
LEMMA StudentSendsTyped ==
  ASSUME TypeOK, NEW r \in Student \X Slot, StudentSends(r)
  PROVE  TypeOK'
<1>0. r \in Handler /\ r[1] \in Student /\ {"open", "autosave", "credit"} \subseteq Place
  BY StudentRequest DEF Place
<1>1. CASE StartAttempt(r)
  <2>1. pc' \in [Handler -> Place] /\ job' \in [Handler -> Job]
    BY <1>0, <1>1, BeginTyped, NoJobTyped DEF StartAttempt
  <2> QED BY <1>1, <2>1 DEF StartAttempt, TypeOK, tables, counted
<1>2. CASE SaveAnswers(r)
  <2>1. written[r[1]] + 1 \in 0..MaxWritten
    BY <1>0, <1>2, BoundAssumption DEF SaveAnswers, TypeOK
  <2>2. pc' \in [Handler -> Place] /\ job' \in [Handler -> Job]
    BY <1>0, <1>2, <2>1, BeginTyped, AnswersTyped DEF SaveAnswers
  <2>3. written' \in [Student -> 0..MaxWritten]
    BY <1>0, <1>2, <2>1 DEF SaveAnswers, TypeOK
  <2>4. UNCHANGED <<tables, now, acked, drawn, analyses, faults>>
    BY <1>2 DEF SaveAnswers
  <2> QED BY <2>2, <2>3, <2>4 DEF TypeOK, tables
<1>3. CASE SubmitAttempt(r)
  <2>1. attempt[r[1]].answers \in 0..MaxWritten
    BY <1>0 DEF TypeOK, Attempt
  <2>2. pc' \in [Handler -> Place] /\ job' \in [Handler -> Job]
    BY <1>0, <1>3, <2>1, BeginTyped, AnswersTyped DEF SubmitAttempt
  <2>3. UNCHANGED <<tables, now, acked, counted>>
    BY <1>3 DEF SubmitAttempt
  <2> QED BY <2>2, <2>3 DEF TypeOK, tables, counted
<1> QED BY <1>1, <1>2, <1>3 DEF StudentSends

\* A handler that only goes on keeps the types of handlers.
LEMMA GotoTyped ==
  ASSUME TypeOK, NEW r \in Handler, NEW p \in Place, Goto(r, p), UNCHANGED job
  PROVE  pc' \in [Handler -> Place] /\ job' \in [Handler -> Job]
BY DEF Goto, TypeOK

\* An attempt with other columns is an attempt.
LEMMA AttemptTyped ==
  ASSUME TypeOK, NEW s \in Student, NEW a \in Attempt, attempt' = [attempt EXCEPT ![s] = a]
  PROVE  attempt' \in [Student -> Attempt]
BY DEF TypeOK

\* Handlers of students write columns of the right kind.
LEMMA StudentHandleTyped ==
  ASSUME TypeOK, NEW r \in Student \X Slot, StudentHandle(r)
  PROVE  TypeOK'
<1> DEFINE s == r[1]
<1>0. /\ r \in Handler /\ s \in Student
      /\ {"create", "finalize", "event", "stale"} \subseteq Place
      /\ attempt[s] \in Attempt
      /\ job[r].answers \in 0..MaxWritten
  BY StudentRequest DEF Place, TypeOK, Job
<1> HIDE DEF s
<1>1. CASE OpenAttempt(r)
  <2>1. pc' \in [Handler -> Place] /\ job' \in [Handler -> Job]
    <3>1. End(r) \/ (Goto(r, "create") /\ UNCHANGED job)
      BY <1>1 DEF OpenAttempt
    <3> QED BY <1>0, <3>1, EndTyped, GotoTyped
  <2>2. UNCHANGED <<tables, now, acked, counted>>
    BY <1>1 DEF OpenAttempt
  <2> QED BY <2>1, <2>2 DEF TypeOK, tables, counted
<1>2. CASE CreateAttempt(r)
  <2>1. attempt' \in [Student -> Attempt]
    <3>1. [attempt[s] EXCEPT !.status = "in_progress"] \in Attempt
      BY <1>0 DEF Attempt
    <3>2. \/ attempt' = [attempt EXCEPT ![s] = [attempt[s] EXCEPT !.status = "in_progress"]]
          \/ attempt' = attempt
      BY <1>0, <1>2 DEF CreateAttempt, TypeOK, s
    <3> QED BY <1>0, <3>1, <3>2, AttemptTyped DEF TypeOK
  <2>2. pc' \in [Handler -> Place] /\ job' \in [Handler -> Job]
    BY <1>0, <1>2, EndTyped DEF CreateAttempt
  <2>3. UNCHANGED <<test, questions, credited, events, analysis, now, acked, counted>>
    BY <1>2 DEF CreateAttempt
  <2> QED BY <2>1, <2>2, <2>3 DEF TypeOK, counted
<1>3. CASE WriteAnswers(r)
  <2>1. attempt' \in [Student -> Attempt]
    <3>1. [attempt[s] EXCEPT !.answers = job[r].answers] \in Attempt
      BY <1>0 DEF Attempt
    <3>2. \/ attempt' = [attempt EXCEPT ![s] = [attempt[s] EXCEPT !.answers = job[r].answers]]
          \/ attempt' = attempt
      BY <1>0, <1>3 DEF WriteAnswers, TypeOK, s
    <3> QED BY <1>0, <3>1, <3>2, AttemptTyped DEF TypeOK
  <2>2. pc' \in [Handler -> Place] /\ job' \in [Handler -> Job]
    BY <1>0, <1>3, EndTyped DEF WriteAnswers
  <2>3. acked' \in [Student -> 0..MaxWritten]
    BY <1>0, <1>3 DEF WriteAnswers, TypeOK, s
  <2>4. UNCHANGED <<test, questions, credited, events, analysis, now, counted>>
    BY <1>3 DEF WriteAnswers
  <2> QED BY <2>1, <2>2, <2>3, <2>4 DEF TypeOK, counted
<1>4. CASE CreditMastery(r)
  <2>1. credited' \in [Student -> Nat]
    BY <1>0, <1>4 DEF CreditMastery, TypeOK, s
  <2>2. pc' \in [Handler -> Place] /\ job' \in [Handler -> Job]
    BY <1>0, <1>4, GotoTyped DEF CreditMastery
  <2>3. UNCHANGED <<test, questions, attempt, events, analysis, now, acked, counted>>
    BY <1>4 DEF CreditMastery
  <2> QED BY <2>1, <2>2, <2>3 DEF TypeOK, counted
<1>5. CASE FinalizeAttempt(r)
  <2>1. PICK grade \in Grade :
          attempt' = [attempt EXCEPT ![s].status = "graded",
                                     ![s].marked = job[r].answers,
                                     ![s].grade  = grade]
    BY <1>5 DEF FinalizeAttempt, s
  <2> DEFINE a == [attempt[s] EXCEPT !.status = "graded", !.marked = job[r].answers,
                                     !.grade = grade]
  <2>2. a \in Attempt
    BY <1>0, <2>1 DEF Attempt
  <2>3. attempt' = [attempt EXCEPT ![s] = a]
    BY <1>0, <2>1 DEF TypeOK
  <2>4. attempt' \in [Student -> Attempt]
    <3> HIDE DEF a
    <3> QED BY <1>0, <2>2, <2>3, AttemptTyped
  <2>5. pc' \in [Handler -> Place] /\ job' \in [Handler -> Job]
    BY <1>0, <1>5, GotoTyped DEF FinalizeAttempt
  <2>6. UNCHANGED <<test, questions, credited, events, analysis, now, acked, counted>>
    BY <1>5 DEF FinalizeAttempt
  <2> QED BY <2>4, <2>5, <2>6 DEF TypeOK, counted
<1>6. CASE RecordEvent(r)
  <2>1. events' \in [Student -> Nat]
    BY <1>0, <1>6 DEF RecordEvent, TypeOK, s
  <2>2. pc' \in [Handler -> Place] /\ job' \in [Handler -> Job]
    BY <1>0, <1>6, GotoTyped DEF RecordEvent
  <2>3. UNCHANGED <<test, questions, attempt, credited, analysis, now, acked, counted>>
    BY <1>6 DEF RecordEvent
  <2> QED BY <2>1, <2>2, <2>3 DEF TypeOK, counted
<1>7. CASE MarkArtifactsStale(r)
  <2>1. analysis' \in Analysis
    BY <1>7 DEF MarkArtifactsStale, TypeOK, Analysis
  <2>2. pc' \in [Handler -> Place] /\ job' \in [Handler -> Job]
    BY <1>0, <1>7, EndTyped DEF MarkArtifactsStale
  <2>3. UNCHANGED <<test, questions, attempt, credited, events, now, acked, counted>>
    BY <1>7 DEF MarkArtifactsStale
  <2> QED BY <2>1, <2>2, <2>3 DEF TypeOK, counted
<1> QED BY <1>1, <1>2, <1>3, <1>4, <1>5, <1>6, <1>7 DEF StudentHandle

\* Analyses and faults keep the types.
LEMMA OthersTyped ==
  ASSUME TypeOK, NEW r \in Handler,
         Analyse(r) \/ SaveArtifact(r) \/ Fault(r)
  PROVE  TypeOK'
<1>1. CASE Analyse(r)
  <2>1. [NoJob EXCEPT !.knows = Graded] \in Job /\ "artifact" \in Place
    BY NoJobTyped DEF Job, Graded, Place
  <2>2. pc' \in [Handler -> Place] /\ job' \in [Handler -> Job]
    BY <1>1, <2>1, BeginTyped DEF Analyse
  <2>3. analyses' \in Nat
    BY <1>1 DEF Analyse, TypeOK
  <2>4. UNCHANGED <<tables, now, acked, drawn, written, faults>>
    BY <1>1 DEF Analyse
  <2> QED BY <2>2, <2>3, <2>4 DEF TypeOK, tables
<1>2. CASE SaveArtifact(r)
  <2>1. job[r].knows \in SUBSET Student
    BY DEF TypeOK, Job
  <2>2. analysis' \in Analysis
    <3>1. \/ analysis' = [knows |-> job[r].knows, stale |-> FALSE]
          \/ analysis' = analysis
      BY <1>2 DEF SaveArtifact
    <3>2. [knows |-> job[r].knows, stale |-> FALSE] \in Analysis
      BY <2>1 DEF Analysis
    <3> QED BY <3>1, <3>2 DEF TypeOK
  <2>3. pc' \in [Handler -> Place] /\ job' \in [Handler -> Job]
    BY <1>2, EndTyped DEF SaveArtifact
  <2>4. UNCHANGED <<test, questions, attempt, credited, events, now, acked, counted>>
    BY <1>2 DEF SaveArtifact
  <2> QED BY <2>2, <2>3, <2>4 DEF TypeOK, counted
<1>3. CASE Fault(r)
  <2>1. pc' \in [Handler -> Place] /\ job' \in [Handler -> Job]
    BY <1>3, EndTyped DEF Fault
  <2>2. faults' \in Nat
    BY <1>3 DEF Fault, TypeOK
  <2>3. UNCHANGED <<tables, now, acked, drawn, written, analyses>>
    BY <1>3 DEF Fault
  <2> QED BY <2>1, <2>2, <2>3 DEF TypeOK, tables
<1> QED BY <1>1, <1>2, <1>3

\* So does the clock.
LEMMA TickTyped == TypeOK /\ Tick => TypeOK'
<1> SUFFICES ASSUME TypeOK, Tick PROVE TypeOK'
  OBVIOUS
<1>1. now' \in Time
  BY BoundAssumption DEF Tick, TypeOK, Time
<1>2. UNCHANGED <<tables, handler, acked, counted>>
  BY DEF Tick
<1> QED BY <1>1, <1>2 DEF TypeOK, tables, handler, counted

-----------------------------------------------------------------------------
(* Nothing before the approval *)

\* Where the status of the test stays, a step need only be right for the
\* handler it is of, and touch attempts only after the approval.
LEMMA TestStays ==
  ASSUME IInv, NEW r \in Handler, UNCHANGED test,
         \A o \in Handler \ {r} : pc'[o] = pc[o] /\ job'[o] = job[o],
         MoveOK(r)', VisitOK(r)',
         ~Unreleased \/ UNCHANGED <<attempt, credited>>
  PROVE  Reviewed' /\ \A o \in Handler : MoveOK(o)' /\ VisitOK(o)'
<1>1. Reviewed'
  BY DEF IInv, Reviewed, Unreleased
<1>2. ASSUME NEW o \in Handler, o # r
      PROVE  MoveOK(o)' /\ VisitOK(o)'
  <2>1. MoveOK(o) /\ VisitOK(o) /\ pc'[o] = pc[o] /\ job'[o] = job[o]
    BY <1>2 DEF IInv
  <2> QED BY <2>1 DEF MoveOK, VisitOK, Unreleased
<1> QED BY <1>1, <1>2

\* Handlers other than the one that goes on stand where they stood.
LEMMA OthersStay ==
  ASSUME TypeOK, NEW r \in Handler, NEW p, NEW j,
         pc' = [pc EXCEPT ![r] = p], job' = [job EXCEPT ![r] = j] \/ job' = job
  PROVE  /\ pc'[r] = p
         /\ \A o \in Handler \ {r} : pc'[o] = pc[o] /\ job'[o] = job[o]
BY DEF TypeOK

\* A handler that is neither moving the test nor past a check asks nothing.
LEMMA AsksNothing ==
  ASSUME NEW r \in Handler, pc'[r] \in {"idle", "delete", "insert", "artifact"}
  PROVE  MoveOK(r)' /\ VisitOK(r)'
BY DEF MoveOK, VisitOK, StudentPlace

\* Work on the questions, analyses and faults.
LEMMA QuietRelease ==
  ASSUME IInv, NEW r \in Handler,
         \/ UpdateQuestions(r) \/ RegenerateQuestion(r) \/ RegenerationFails(r)
         \/ DeleteQuestions(r) \/ InsertQuestions(r)
         \/ Analyse(r) \/ SaveArtifact(r) \/ Fault(r)
  PROVE  Reviewed' /\ \A o \in Handler : MoveOK(o)' /\ VisitOK(o)'
<1>1. TypeOK
  BY DEF IInv
<1>2. UNCHANGED <<test, attempt, credited>>
  BY DEF UpdateQuestions, RegenerateQuestion, RegenerationFails, DeleteQuestions,
         InsertQuestions, Analyse, SaveArtifact, Fault, tables
<1>3. \E p \in {"idle", "delete", "insert", "artifact"} : \E j :
        pc' = [pc EXCEPT ![r] = p] /\ (job' = [job EXCEPT ![r] = j] \/ job' = job)
  <2>1. CASE UpdateQuestions(r)
    BY <2>1 DEF UpdateQuestions, Begin, Goto
  <2>2. CASE RegenerateQuestion(r)
    BY <2>2 DEF RegenerateQuestion, Begin, Goto
  <2>3. CASE RegenerationFails(r) \/ InsertQuestions(r) \/ SaveArtifact(r) \/ Fault(r)
    BY <2>3 DEF RegenerationFails, InsertQuestions, SaveArtifact, Fault, End, Goto
  <2>4. CASE DeleteQuestions(r)
    <3>1. job' = [job EXCEPT ![r] = [job[r] EXCEPT !.doomed = questions]]
      BY <2>4, <1>1 DEF DeleteQuestions, TypeOK
    <3>2. pc' = [pc EXCEPT ![r] = "insert"]
      BY <2>4 DEF DeleteQuestions, Goto
    <3> QED BY <3>1, <3>2
  <2>5. CASE Analyse(r)
    BY <2>5 DEF Analyse, Begin, Goto
  <2> QED BY <2>1, <2>2, <2>3, <2>4, <2>5
<1>4. PICK p \in {"idle", "delete", "insert", "artifact"} : \E j :
        pc' = [pc EXCEPT ![r] = p] /\ (job' = [job EXCEPT ![r] = j] \/ job' = job)
  BY <1>3
<1>5. /\ pc'[r] = p
      /\ \A o \in Handler \ {r} : pc'[o] = pc[o] /\ job'[o] = job[o]
  BY <1>1, <1>4, OthersStay
<1>6. MoveOK(r)' /\ VisitOK(r)'
  BY <1>5, AsksNothing
<1> QED BY <1>2, <1>5, <1>6, TestStays

\* The draft is there: no student was, and none is.
LEMMA GenerateRelease ==
  ASSUME IInv, NEW r \in Handler, GenerateTest(r)
  PROVE  Reviewed' /\ \A o \in Handler : MoveOK(o)' /\ VisitOK(o)'
<1>1. TypeOK /\ test.status = "absent" /\ UNCHANGED <<attempt, credited>>
  BY DEF IInv, GenerateTest
<1>2. pc' = [pc EXCEPT ![r] = "delete"]
  BY DEF GenerateTest, Begin, Goto
<1>3. Reviewed'
  BY <1>1 DEF IInv, Reviewed
<1>4. /\ pc'[r] = "delete"
      /\ \A o \in Handler \ {r} : pc'[o] = pc[o]
  BY <1>1, <1>2 DEF TypeOK
<1>5. ASSUME NEW o \in Handler PROVE MoveOK(o)' /\ VisitOK(o)'
  <2>1. CASE o = r
    BY <1>4, <2>1, AsksNothing
  <2>2. CASE o # r
    <3>1. pc[o] # "move" /\ pc[o] \notin StudentPlace
      BY <1>1 DEF IInv, MoveOK, VisitOK, Unreleased
    <3> QED BY <1>4, <2>2, <3>1 DEF MoveOK, VisitOK
  <2> QED BY <2>1, <2>2
<1> QED BY <1>3, <1>5

\* A transition is checked against the status it finds.
LEMMA TransitionRelease ==
  ASSUME IInv, NEW r \in Handler, Transition(r)
  PROVE  Reviewed' /\ \A o \in Handler : MoveOK(o)' /\ VisitOK(o)'
<1>1. TypeOK
  BY DEF IInv
<1>2. PICK m \in Moves : \E start, end :
        /\ test.status \in m.from
        /\ Begin(r, "move", [NoJob EXCEPT !.to = m.to, !.start = start, !.end = end])
  BY DEF Transition
<1>3. PICK start, end :
        /\ test.status \in m.from
        /\ Begin(r, "move", [NoJob EXCEPT !.to = m.to, !.start = start, !.end = end])
  BY <1>2
<1> DEFINE j == [NoJob EXCEPT !.to = m.to, !.start = start, !.end = end]
<1>4. pc' = [pc EXCEPT ![r] = "move"] /\ job' = [job EXCEPT ![r] = j]
  BY <1>3 DEF Begin, Goto
<1>5. j.to = m.to
  BY DEF NoJob
<1>6. job'[r].to = m.to /\ pc'[r] = "move"
  BY <1>1, <1>4, <1>5 DEF TypeOK
<1>7. /\ m.to \in {"approved", "scheduled", "live", "closed"}
      /\ test.status # "absent"
      /\ test.status = "draft" => m.to = "approved"
  BY <1>3 DEF Moves
<1>8. UNCHANGED <<test, attempt, credited>>
  BY DEF Transition, tables
<1>9. MoveOK(r)' /\ VisitOK(r)'
  BY <1>6, <1>7, <1>8 DEF MoveOK, VisitOK, StudentPlace
<1> HIDE DEF j
<1> QED BY <1>1, <1>4, <1>8, <1>9, OthersStay, TestStays

\* What is written is past the draft.
LEMMA WriteStatusRelease ==
  ASSUME IInv, NEW r \in Handler, WriteStatus(r)
  PROVE  /\ Reviewed' /\ \A o \in Handler : MoveOK(o)' /\ VisitOK(o)'
         /\ test.status = "draft" => test'.status = "approved"
<1>1. TypeOK /\ MoveOK(r) /\ pc[r] = "move" /\ test'.status = job[r].to
  BY DEF IInv, WriteStatus
<1>2. test'.status \in {"approved", "scheduled", "live", "closed"}
  BY <1>1 DEF MoveOK
<1>3. pc' = [pc EXCEPT ![r] = "idle"] /\ job' = [job EXCEPT ![r] = NoJob]
  BY DEF WriteStatus, End, Goto
<1>4. /\ pc'[r] = "idle"
      /\ \A o \in Handler \ {r} : pc'[o] = pc[o] /\ job'[o] = job[o]
  BY <1>1, <1>3, OthersStay
<1>5. Reviewed'
  BY <1>2 DEF Reviewed
<1>6. ASSUME NEW o \in Handler PROVE MoveOK(o)' /\ VisitOK(o)'
  <2>1. CASE o = r
    BY <1>4, <2>1, AsksNothing
  <2>2. CASE o # r
    <3>1. MoveOK(o) /\ pc'[o] = pc[o] /\ job'[o] = job[o]
      BY <1>4, <2>2 DEF IInv
    <3> QED BY <1>2, <3>1 DEF MoveOK, VisitOK, Unreleased
  <2> QED BY <2>1, <2>2
<1> QED BY <1>1, <1>5, <1>6 DEF MoveOK

\* Students get past their first check only after the approval.
LEMMA StudentSendsRelease ==
  ASSUME IInv, NEW r \in Student \X Slot, StudentSends(r)
  PROVE  Reviewed' /\ \A o \in Handler : MoveOK(o)' /\ VisitOK(o)'
<1>1. TypeOK /\ r \in Handler /\ r[1] \in Student
  BY StudentRequest DEF IInv
<1>2. ~Unreleased
  <2>1. CASE EffectiveStatus = "live"
    BY <2>1 DEF EffectiveStatus, Unreleased
  <2>2. CASE attempt[r[1]].status = "in_progress"
    BY <1>1, <2>2 DEF IInv, Reviewed, Unreleased, NoAttempt
  <2> QED BY <2>1, <2>2 DEF StudentSends, StartAttempt, SaveAnswers, SubmitAttempt,
                            Submittable
<1>3. \E p \in {"open", "autosave", "credit"} : \E j :
        pc' = [pc EXCEPT ![r] = p] /\ job' = [job EXCEPT ![r] = j]
  BY DEF StudentSends, StartAttempt, SaveAnswers, SubmitAttempt, Begin, Goto
<1>4. PICK p \in {"open", "autosave", "credit"} : \E j :
        pc' = [pc EXCEPT ![r] = p] /\ job' = [job EXCEPT ![r] = j]
  BY <1>3
<1>5. /\ pc'[r] = p
      /\ \A o \in Handler \ {r} : pc'[o] = pc[o] /\ job'[o] = job[o]
  BY <1>1, <1>4, OthersStay
<1>6. UNCHANGED <<test, attempt, credited>>
  BY DEF StudentSends, StartAttempt, SaveAnswers, SubmitAttempt, tables
<1>7. MoveOK(r)' /\ VisitOK(r)'
  BY <1>2, <1>5, <1>6 DEF MoveOK, VisitOK, Unreleased
<1> QED BY <1>1, <1>5, <1>6, <1>7, TestStays

\* They go on after it.
LEMMA StudentHandleRelease ==
  ASSUME IInv, NEW r \in Student \X Slot, StudentHandle(r)
  PROVE  Reviewed' /\ \A o \in Handler : MoveOK(o)' /\ VisitOK(o)'
<1>1. TypeOK /\ r \in Handler
  BY StudentRequest DEF IInv
<1>2. ~Unreleased
  <2>1. pc[r] \in StudentPlace
    BY DEF StudentHandle, OpenAttempt, CreateAttempt, WriteAnswers, CreditMastery,
           FinalizeAttempt, RecordEvent, MarkArtifactsStale, StudentPlace
  <2> QED BY <1>1, <2>1 DEF IInv, VisitOK
<1>3. \E p \in {"idle", "create", "finalize", "event", "stale"} : \E j :
        pc' = [pc EXCEPT ![r] = p] /\ (job' = [job EXCEPT ![r] = j] \/ job' = job)
  BY DEF StudentHandle, OpenAttempt, CreateAttempt, WriteAnswers, CreditMastery,
         FinalizeAttempt, RecordEvent, MarkArtifactsStale, End, Goto
<1>4. PICK p \in {"idle", "create", "finalize", "event", "stale"} : \E j :
        pc' = [pc EXCEPT ![r] = p] /\ (job' = [job EXCEPT ![r] = j] \/ job' = job)
  BY <1>3
<1>5. /\ pc'[r] = p
      /\ \A o \in Handler \ {r} : pc'[o] = pc[o] /\ job'[o] = job[o]
  BY <1>1, <1>4, OthersStay
<1>6. UNCHANGED test
  BY DEF StudentHandle, OpenAttempt, CreateAttempt, WriteAnswers, CreditMastery,
         FinalizeAttempt, RecordEvent, MarkArtifactsStale, tables
<1>7. MoveOK(r)' /\ VisitOK(r)'
  BY <1>2, <1>5, <1>6 DEF MoveOK, VisitOK, Unreleased
<1> QED BY <1>1, <1>2, <1>5, <1>6, <1>7, TestStays

-----------------------------------------------------------------------------
(* The theorems *)

\* A request of the teacher is a request.
LEMMA TeacherRequest ==
  ASSUME NEW r \in {Teacher} \X Slot
  PROVE  r \in Handler
BY DEF Handler, Person

\* Nothing is there, and nobody at work.
LEMMA InitIInv == Init => IInv
<1> SUFFICES ASSUME Init PROVE IInv
  OBVIOUS
<1>1. NoTime \in 0..NoTime /\ 0 \in 0..MaxWritten /\ 0 \in 0..MaxDrawn /\ 0 \in Time
  BY BoundAssumption DEF NoTime, Time
<1>2. NoAttempt \in Attempt
  BY <1>1 DEF NoAttempt, Attempt
<1>3. /\ test \in [status : TestStatus \union {"absent"},
                   start : 0..NoTime, end : 0..NoTime]
      /\ analysis \in Analysis
  BY <1>1 DEF Init, Analysis
<1>4. pc \in [Handler -> Place] /\ job \in [Handler -> Job]
  BY NoJobTyped DEF Init, Place
<1>5. TypeOK
  BY <1>1, <1>2, <1>3, <1>4 DEF Init, TypeOK
<1>6. Reviewed
  BY DEF Init, Reviewed
<1>7. \A r \in Handler : MoveOK(r) /\ VisitOK(r)
  BY DEF Init, MoveOK, VisitOK, StudentPlace
<1> QED BY <1>5, <1>6, <1>7 DEF IInv

\* Every step of the teacher, the students, the clock and of faults keeps it.
LEMMA Inductive == IInv /\ [Next]_vars => IInv'
<1> SUFFICES ASSUME IInv, [Next]_vars PROVE IInv'
  OBVIOUS
<1>0. TypeOK /\ \A r \in Handler : MoveOK(r)
  BY DEF IInv
<1>1. CASE Tick
  <2>1. TypeOK'
    BY <1>0, <1>1, TickTyped
  <2>2. UNCHANGED <<test, attempt, credited, pc, job>>
    BY <1>1 DEF Tick, tables, handler
  <2> QED BY <2>1, <2>2 DEF IInv, Reviewed, MoveOK, VisitOK, Unreleased
<1>2. ASSUME NEW r \in {Teacher} \X Slot, TeacherSends(r) \/ TeacherHandle(r)
      PROVE  IInv'
  <2>1. r \in Handler
    BY TeacherRequest
  <2>2. TypeOK'
    BY <1>0, <1>2, <2>1, QuestionsTyped, MovesTyped, OthersTyped
       DEF TeacherSends, TeacherHandle
  <2>3. Reviewed' /\ \A o \in Handler : MoveOK(o)' /\ VisitOK(o)'
    BY <1>2, <2>1, QuietRelease, GenerateRelease, TransitionRelease, WriteStatusRelease
       DEF TeacherSends, TeacherHandle
  <2> QED BY <2>2, <2>3 DEF IInv
<1>3. ASSUME NEW r \in Student \X Slot, StudentSends(r) \/ StudentHandle(r)
      PROVE  IInv'
  <2>1. TypeOK'
    BY <1>0, <1>3, StudentSendsTyped, StudentHandleTyped
  <2>2. Reviewed' /\ \A o \in Handler : MoveOK(o)' /\ VisitOK(o)'
    BY <1>3, StudentSendsRelease, StudentHandleRelease
  <2> QED BY <2>1, <2>2 DEF IInv
<1>4. ASSUME NEW r \in Handler, Fault(r) PROVE IInv'
  BY <1>0, <1>4, OthersTyped, QuietRelease DEF IInv
<1>5. CASE UNCHANGED vars
  BY <1>5 DEF vars, tables, handler, counted, IInv, TypeOK, Reviewed, MoveOK, VisitOK,
              Unreleased
<1> QED BY <1>1, <1>2, <1>3, <1>4, <1>5 DEF Next

\* Types, what handlers may rely on, and that nothing precedes the approval,
\* hold in every reachable state.
THEOREM Invariance == Spec => []IInv
BY InitIInv, Inductive, PTL DEF Spec

\* Tables, handlers and clients hold values of their types.
THEOREM TypeCorrect == Spec => []TypeOK
<1>1. IInv => TypeOK
  BY DEF IInv
<1> QED BY <1>1, Invariance, PTL

\* No test gets to the students without its approval: transition_test writes
\* unconditionally, and start_attempt inserts long after it looked.
THEOREM NothingBeforeApproval == Spec => []Reviewed
<1>1. IInv => Reviewed
  BY DEF IInv
<1> QED BY <1>1, Invariance, PTL

\* Only a transition writes the status of a draft, and one that found the
\* draft can only have been an approval: the check and the write are apart, and
\* what other requests did between them does not make the draft anything else.
THEOREM DraftsAreApproved == Spec => ApprovedFirst
<1>1. ASSUME IInv, Next, test.status = "draft"
      PROVE  test'.status \in {"draft", "approved"}
  <2>1. CASE Tick
    BY <1>1, <2>1 DEF Tick, tables
  <2>2. ASSUME NEW r \in {Teacher} \X Slot, TeacherSends(r) \/ TeacherHandle(r)
        PROVE  test'.status \in {"draft", "approved"}
    <3>1. CASE WriteStatus(r)
      BY <1>1, <2>2, <3>1, TeacherRequest, WriteStatusRelease
    <3>2. CASE ~WriteStatus(r)
      <4>1. UNCHANGED test
        BY <1>1, <2>2, <3>2
           DEF TeacherSends, TeacherHandle, GenerateTest, UpdateQuestions,
               RegenerateQuestion, RegenerationFails, DeleteQuestions, InsertQuestions,
               Transition, Analyse, SaveArtifact, tables
      <4> QED BY <1>1, <4>1
    <3> QED BY <3>1, <3>2
  <2>3. ASSUME NEW r \in Student \X Slot, StudentSends(r) \/ StudentHandle(r)
        PROVE  test'.status \in {"draft", "approved"}
    <3>1. UNCHANGED test
      BY <2>3 DEF StudentSends, StartAttempt, SaveAnswers, SubmitAttempt, StudentHandle,
                  OpenAttempt, CreateAttempt, WriteAnswers, CreditMastery, FinalizeAttempt,
                  RecordEvent, MarkArtifactsStale, tables
    <3> QED BY <1>1, <3>1
  <2>4. ASSUME NEW r \in Handler, Fault(r)
        PROVE  test'.status \in {"draft", "approved"}
    BY <1>1, <2>4 DEF Fault, tables
  <2> QED BY <1>1, <2>1, <2>2, <2>3, <2>4 DEF Next
<1>2. IInv /\ [Next]_vars =>
        [test.status = "draft" => test'.status \in {"draft", "approved"}]_vars
  BY <1>1
<1> QED BY <1>2, Invariance, PTL DEF Spec, ApprovedFirst

\* What a step may do to an attempt that is graded: nothing but grade it again,
\* for the same answers in its row.
Sealed(s) ==
    attempt[s].status = "graded" =>
      attempt'[s].status = "graded" /\ attempt'[s].answers = attempt[s].answers

\* No handler of a student writes the answers of an attempt that is graded.
LEMMA StudentHandleSeals ==
  ASSUME TypeOK, NEW r \in Student \X Slot, StudentHandle(r), NEW s \in Student
  PROVE  Sealed(s)
<1>1. r[1] \in Student
  BY StudentRequest
<1>2. CASE CreateAttempt(r)
  BY <1>1, <1>2 DEF CreateAttempt, Sealed, TypeOK, Attempt
<1>3. CASE WriteAnswers(r)
  BY <1>1, <1>3 DEF WriteAnswers, OpenForAnswers, Sealed, TypeOK, Attempt
<1>4. CASE FinalizeAttempt(r)
  <2>1. PICK grade \in Grade :
          attempt' = [attempt EXCEPT ![r[1]].status = "graded",
                                     ![r[1]].marked = job[r].answers,
                                     ![r[1]].grade  = grade]
    BY <1>4 DEF FinalizeAttempt
  <2>2. attempt \in [Student -> Attempt]
    BY DEF TypeOK
  <2>3. CASE s = r[1]
    <3>1. /\ attempt'[s].status = "graded"
          /\ attempt'[s].answers = attempt[s].answers
      BY <1>1, <2>1, <2>2, <2>3 DEF Attempt
    <3> QED BY <3>1 DEF Sealed
  <2>4. CASE s # r[1]
    <3>1. attempt'[s] = attempt[s]
      BY <1>1, <2>1, <2>2, <2>4
    <3> QED BY <3>1 DEF Sealed
  <2> QED BY <2>3, <2>4
<1>5. CASE OpenAttempt(r) \/ CreditMastery(r) \/ RecordEvent(r) \/ MarkArtifactsStale(r)
  <2>1. UNCHANGED attempt
    BY <1>5 DEF OpenAttempt, CreditMastery, RecordEvent, MarkArtifactsStale, tables
  <2> QED BY <2>1 DEF Sealed
<1> QED BY <1>2, <1>3, <1>4, <1>5 DEF StudentHandle

\* An autosave that passed its check before the grading changes nothing after
\* it: the UPDATE of save_attempt_answers looks at the status again.
THEOREM GradedAnswersSealed == Spec => AnswersSealed
<1>1. ASSUME TypeOK, Next, NEW s \in Student
      PROVE  Sealed(s)
  <2>1. CASE Tick
    BY <2>1 DEF Tick, tables, Sealed
  <2>2. ASSUME NEW r \in {Teacher} \X Slot, TeacherSends(r) \/ TeacherHandle(r)
        PROVE  Sealed(s)
    <3>1. UNCHANGED attempt
      BY <2>2 DEF TeacherSends, TeacherHandle, GenerateTest, UpdateQuestions,
                  RegenerateQuestion, RegenerationFails, DeleteQuestions, InsertQuestions,
                  Transition, WriteStatus, Analyse, SaveArtifact, tables
    <3> QED BY <3>1 DEF Sealed
  <2>3. ASSUME NEW r \in Student \X Slot, StudentSends(r) PROVE Sealed(s)
    <3>1. UNCHANGED attempt
      BY <2>3 DEF StudentSends, StartAttempt, SaveAnswers, SubmitAttempt, tables
    <3> QED BY <3>1 DEF Sealed
  <2>4. ASSUME NEW r \in Student \X Slot, StudentHandle(r) PROVE Sealed(s)
    BY <1>1, <2>4, StudentHandleSeals
  <2>5. ASSUME NEW r \in Handler, Fault(r) PROVE Sealed(s)
    BY <2>5 DEF Fault, tables, Sealed
  <2> QED BY <1>1, <2>1, <2>2, <2>3, <2>4, <2>5 DEF Next
<1>2. TypeOK /\ [Next]_vars =>
        [\A s \in Student :
           attempt[s].status = "graded" =>
             attempt'[s].status = "graded" /\ attempt'[s].answers = attempt[s].answers]_vars
  BY <1>1 DEF Sealed
<1> QED BY <1>2, TypeCorrect, PTL DEF Spec, AnswersSealed
-----------------------------------------------------------------------------
(* One request at a time *)

\* Nobody has a second request in flight, as from one tab of a browser.
OneRequest == \A a, b \in Slot : a = b

\* What the handler of a student relies on until it ends: the attempt it found
\* in progress still is, and still has the answers it read.
SubmissionOK(r) ==
    /\ pc[r] \in StudentPlace \union {"idle"}
    /\ pc[r] \in {"autosave", "credit", "finalize"} =>
         attempt[r[1]].status = "in_progress"
    /\ pc[r] \in {"credit", "finalize"} => job[r].answers = attempt[r[1]].answers

\* What a student was told, what the row has and what was graded are the same
\* answers; the mastery is ahead of the faults only by the submission that is
\* stored or about to be.
GradeOK(s) ==
    /\ acked[s] = attempt[s].answers
    /\ attempt[s].status = "graded" => attempt[s].marked = attempt[s].answers
    /\ credited[s] <= 1 + faults
    /\ attempt[s].status # "graded" /\ (\A c \in Slot : pc[<<s, c>>] # "finalize") =>
         credited[s] <= faults

\* GradesAccounted and GradeIsFinal are not inductive: a grade is given awaits
\* after the answers were read.
MarkInv ==
    /\ TypeOK
    /\ \A r \in Student \X Slot : SubmissionOK(r)
    /\ \A s \in Student : GradeOK(s)

\* What has left the teacher's desk.
Released == test.status \in {"scheduled", "live", "closed"}

\* What a request of the teacher relies on until it ends: the test is where it
\* found it, and so are the questions.
EditOK(r) ==
    /\ pc[r] \in {"idle", "delete", "insert", "move", "artifact"}
    /\ pc[r] \in {"delete", "insert"} =>
         /\ Editable
         /\ job[r].list # {} /\ \A p, q \in job[r].list : p.by = q.by
         /\ job[r].target # 0 =>
              \A q \in questions :
                q.id # job[r].target =>
                  \E p \in job[r].list : p.id = q.id /\ p.text = q.text
    /\ pc[r] = "insert" => job[r].doomed = questions
    /\ pc[r] = "move" =>
         \E m \in Moves : test.status \in m.from /\ job[r].to = m.to

\* The handlers of students, and their attempts, come after the release.
AfterRelease ==
    ~Released =>
      /\ \A s \in Student : attempt[s].status = "absent"
      /\ \A r \in Student \X Slot : pc[r] = "idle"

\* The draft without questions is the one that still waits for them.
NeverBare ==
    faults = 0 /\ test.status # "absent" /\ questions = {} =>
      \E r \in {Teacher} \X Slot : pc[r] \in {"delete", "insert"} /\ job[r].target = 0

\* PaperWhole and PaperKept are not inductive: questions are replaced awaits
\* after the status, and the list, were read.
PaperInv ==
    /\ TypeOK
    /\ \A r \in Student \X Slot : pc[r] \in StudentPlace \union {"idle"}
    /\ \A r \in {Teacher} \X Slot : EditOK(r)
    /\ OneList
    /\ AfterRelease
    /\ NeverBare

-----------------------------------------------------------------------------
(* Grades, with one request at a time *)

\* Two requests of one student are the same.
LEMMA SoleRequest ==
  ASSUME OneRequest, NEW r \in Student \X Slot, NEW o \in Student \X Slot, o # r
  PROVE  o[1] # r[1]
BY DEF OneRequest

\* A step that leaves the attempts alone may end or begin work, but none that
\* rests on them.
LEMMA MarkQuiet ==
  ASSUME MarkInv, UNCHANGED <<attempt, acked, credited>>,
         faults' \in Nat, faults <= faults',
         \A o \in Student \X Slot :
           \/ pc'[o] = pc[o] /\ job'[o] = job[o]
           \/ /\ pc'[o] \in {"idle", "open", "create", "event", "stale"}
              /\ pc[o] = "finalize" => faults < faults'
  PROVE  /\ \A o \in Student \X Slot : SubmissionOK(o)'
         /\ \A s \in Student : GradeOK(s)'
<1>1. ASSUME NEW o \in Student \X Slot PROVE SubmissionOK(o)'
  <2>1. SubmissionOK(o)
    BY DEF MarkInv
  <2> QED BY <2>1 DEF SubmissionOK, StudentPlace
<1>2. ASSUME NEW s \in Student PROVE GradeOK(s)'
  <2>1. GradeOK(s) /\ credited[s] \in Nat /\ faults \in Nat
    BY DEF MarkInv, TypeOK
  <2>2. credited[s] <= 1 + faults'
    BY <2>1 DEF GradeOK
  <2>3. ASSUME attempt[s].status # "graded", \A c \in Slot : pc'[<<s, c>>] # "finalize"
        PROVE  credited[s] <= faults'
    <3>1. CASE \A c \in Slot : pc[<<s, c>>] # "finalize"
      BY <2>1, <2>3, <3>1 DEF GradeOK
    <3>2. CASE \E c \in Slot : pc[<<s, c>>] = "finalize"
      <4>1. PICK c \in Slot : pc[<<s, c>>] = "finalize"
        BY <3>2
      <4>2. <<s, c>> \in Student \X Slot /\ pc'[<<s, c>>] # "finalize"
        BY <2>3
      <4>3. faults < faults'
        BY <4>1, <4>2
      <4> QED BY <2>1, <4>3 DEF GradeOK
    <3> QED BY <3>1, <3>2
  <2> QED BY <2>1, <2>2, <2>3 DEF GradeOK
<1> QED BY <1>1, <1>2

\* A step of one student need only be right for that student.
LEMMA MarkOwn ==
  ASSUME MarkInv, OneRequest, NEW r \in Student \X Slot,
         \A o \in Handler \ {r} : pc'[o] = pc[o] /\ job'[o] = job[o],
         \A s \in Student \ {r[1]} :
           attempt'[s] = attempt[s] /\ acked'[s] = acked[s] /\ credited'[s] = credited[s],
         UNCHANGED faults,
         SubmissionOK(r)', GradeOK(r[1])'
  PROVE  /\ \A o \in Student \X Slot : SubmissionOK(o)'
         /\ \A s \in Student : GradeOK(s)'
<1>0. Student \X Slot \subseteq Handler
  BY DEF Handler, Person
<1>1. ASSUME NEW o \in Student \X Slot, o # r PROVE SubmissionOK(o)'
  <2>1. SubmissionOK(o) /\ o[1] \in Student /\ o[1] # r[1]
    BY <1>1, SoleRequest DEF MarkInv
  <2>2. /\ pc'[o] = pc[o] /\ job'[o] = job[o]
        /\ attempt'[o[1]] = attempt[o[1]]
    BY <1>0, <1>1, <2>1
  <2> QED BY <2>1, <2>2 DEF SubmissionOK
<1>2. ASSUME NEW s \in Student, s # r[1] PROVE GradeOK(s)'
  <2>1. /\ GradeOK(s)
        /\ attempt'[s] = attempt[s] /\ acked'[s] = acked[s] /\ credited'[s] = credited[s]
    BY <1>2 DEF MarkInv
  <2>2. \A c \in Slot : pc'[<<s, c>>] = pc[<<s, c>>]
    <3>1. \A c \in Slot : <<s, c>> \in Handler \ {r}
      BY <1>0, <1>2
    <3> QED BY <3>1
  <2> QED BY <2>1, <2>2 DEF GradeOK
<1> QED BY <1>1, <1>2

\* What is known of the student whose request goes on.
LEMMA Own ==
  ASSUME MarkInv, NEW r \in Student \X Slot
  PROVE  /\ r \in Handler /\ r[1] \in Student
         /\ SubmissionOK(r) /\ GradeOK(r[1])
         /\ attempt[r[1]] \in Attempt
         /\ credited[r[1]] \in Nat /\ acked[r[1]] \in Nat /\ faults \in Nat
         /\ job[r].answers \in Nat
<1>1. r \in Handler /\ r[1] \in Student
  BY StudentRequest
<1>2. job[r] \in Job
  BY <1>1 DEF MarkInv, TypeOK
<1>3. job[r].answers \in 0..MaxWritten
  BY <1>2 DEF Job
<1>4. job[r].answers \in Nat
  BY <1>3
<1> QED BY <1>1, <1>4, BoundAssumption DEF MarkInv, TypeOK

\* The one request of a student is the only one.
LEMMA OwnSlot ==
  ASSUME OneRequest, NEW r \in Student \X Slot
  PROVE  r[2] \in Slot /\ \A c \in Slot : <<r[1], c>> = r
BY DEF OneRequest

\* The requests of students.
LEMMA MarkSends ==
  ASSUME MarkInv, OneRequest, NEW r \in Student \X Slot, StudentSends(r)
  PROVE  /\ \A o \in Student \X Slot : SubmissionOK(o)'
         /\ \A s \in Student : GradeOK(s)'
<1> DEFINE s == r[1]
<1>0. TypeOK /\ r \in Handler /\ s \in Student /\ SubmissionOK(r) /\ GradeOK(s) /\ pc[r] = "idle"
  BY Own DEF MarkInv, StudentSends, StartAttempt, SaveAnswers, SubmitAttempt, Begin
<1>1. UNCHANGED <<attempt, acked, credited, faults>>
  BY DEF StudentSends, StartAttempt, SaveAnswers, SubmitAttempt, tables, counted
<1>2. PICK p \in {"open", "autosave", "credit"} : \E j :
        /\ pc' = [pc EXCEPT ![r] = p] /\ job' = [job EXCEPT ![r] = j]
        /\ p # "open" => attempt[s].status = "in_progress"
        /\ p = "credit" => j.answers = attempt[s].answers
  <2>1. CASE StartAttempt(r)
    BY <2>1 DEF StartAttempt, Begin, Goto
  <2>2. CASE SaveAnswers(r)
    BY <2>2 DEF SaveAnswers, Begin, Goto
  <2>3. CASE SubmitAttempt(r)
    <3>1. PICK j : j = [NoJob EXCEPT !.answers = attempt[s].answers]
      OBVIOUS
    <3>2. j.answers = attempt[s].answers
      BY <3>1 DEF NoJob
    <3>3. /\ pc' = [pc EXCEPT ![r] = "credit"] /\ job' = [job EXCEPT ![r] = j]
          /\ attempt[s].status = "in_progress"
      BY <2>3, <3>1 DEF SubmitAttempt, Submittable, Begin, Goto
    <3> QED BY <3>2, <3>3
  <2> QED BY <2>1, <2>2, <2>3 DEF StudentSends
<1>20. PICK j :
        /\ pc' = [pc EXCEPT ![r] = p] /\ job' = [job EXCEPT ![r] = j]
        /\ p # "open" => attempt[s].status = "in_progress"
        /\ p = "credit" => j.answers = attempt[s].answers
  BY <1>2
<1>3. /\ pc'[r] = p /\ job'[r] = j
      /\ \A o \in Handler \ {r} : pc'[o] = pc[o] /\ job'[o] = job[o]
  BY <1>0, <1>20 DEF TypeOK
<1>4. SubmissionOK(r)'
  BY <1>1, <1>20, <1>3 DEF SubmissionOK, StudentPlace
<1>5. GradeOK(s)'
  BY <1>0, <1>1, OwnSlot DEF GradeOK
<1> QED BY <1>1, <1>3, <1>4, <1>5, MarkOwn

\* Their handlers, once the answers are told, credited or graded.
LEMMA MarkWrites ==
  ASSUME MarkInv, OneRequest, NEW r \in Student \X Slot,
         CreateAttempt(r) \/ WriteAnswers(r)
  PROVE  /\ \A o \in Student \X Slot : SubmissionOK(o)'
         /\ \A s \in Student : GradeOK(s)'
<1> DEFINE s == r[1]
<1>0. /\ TypeOK /\ r \in Handler /\ s \in Student /\ SubmissionOK(r) /\ GradeOK(s)
      /\ attempt[s] \in Attempt
  BY Own DEF MarkInv
<1>1. UNCHANGED <<credited, faults>>
  BY DEF CreateAttempt, WriteAnswers, counted
<1>2. pc' = [pc EXCEPT ![r] = "idle"] /\ job' = [job EXCEPT ![r] = NoJob]
  BY DEF CreateAttempt, WriteAnswers, End, Goto
<1>3. /\ pc'[r] = "idle"
      /\ \A o \in Handler \ {r} : pc'[o] = pc[o] /\ job'[o] = job[o]
  BY <1>0, <1>2, OthersStay
<1>4. SubmissionOK(r)'
  BY <1>3 DEF SubmissionOK
<1>5. \A c \in Slot : pc[<<s, c>>] # "finalize"
  BY OwnSlot DEF CreateAttempt, WriteAnswers
<1>6. CASE CreateAttempt(r)
  <2>1. UNCHANGED acked
    BY <1>6 DEF CreateAttempt
  <2>2. CASE attempt[s].status = "absent"
    <3>1. attempt' = [attempt EXCEPT ![s].status = "in_progress"]
      BY <1>6, <2>2 DEF CreateAttempt
    <3>2. /\ attempt'[s].status = "in_progress" /\ attempt'[s].answers = attempt[s].answers
          /\ \A o \in Student \ {s} : attempt'[o] = attempt[o]
      BY <1>0, <3>1 DEF TypeOK, Attempt
    <3>3. GradeOK(s)'
      BY <1>0, <1>1, <1>5, <2>1, <2>2, <3>2 DEF GradeOK
    <3> QED BY <1>1, <1>3, <1>4, <2>1, <3>2, <3>3, MarkOwn
  <2>3. CASE attempt[s].status # "absent"
    <3>1. UNCHANGED attempt
      BY <1>6, <2>3 DEF CreateAttempt
    <3>2. GradeOK(s)'
      BY <1>0, <1>1, <1>5, <2>1, <3>1 DEF GradeOK
    <3> QED BY <1>1, <1>3, <1>4, <2>1, <3>1, <3>2, MarkOwn
  <2> QED BY <2>2, <2>3
<1>7. CASE WriteAnswers(r)
  <2>1. attempt[s].status = "in_progress"
    BY <1>0, <1>7 DEF WriteAnswers, SubmissionOK
  <2>2. attempt' = [attempt EXCEPT ![s].answers = job[r].answers]
    BY <1>7, <2>1 DEF WriteAnswers, OpenForAnswers
  <2>3. /\ attempt'[s].status = "in_progress" /\ attempt'[s].answers = job[r].answers
        /\ \A o \in Student \ {s} : attempt'[o] = attempt[o]
    BY <1>0, <2>1, <2>2 DEF TypeOK, Attempt
  <2>4. /\ acked'[s] = job[r].answers
        /\ \A o \in Student \ {s} : acked'[o] = acked[o]
    BY <1>0, <1>7 DEF WriteAnswers, TypeOK
  <2>5. GradeOK(s)'
    BY <1>0, <1>1, <1>5, <2>1, <2>3, <2>4 DEF GradeOK
  <2> QED BY <1>1, <1>3, <1>4, <2>3, <2>4, <2>5, MarkOwn
<1> QED BY <1>6, <1>7

\* The submission: credit, then the grade, for the answers that were read.
LEMMA MarkSubmits ==
  ASSUME MarkInv, OneRequest, NEW r \in Student \X Slot,
         CreditMastery(r) \/ FinalizeAttempt(r)
  PROVE  /\ \A o \in Student \X Slot : SubmissionOK(o)'
         /\ \A s \in Student : GradeOK(s)'
<1> DEFINE s == r[1]
<1>0. /\ TypeOK /\ r \in Handler /\ s \in Student /\ SubmissionOK(r) /\ GradeOK(s)
      /\ attempt[s] \in Attempt /\ credited[s] \in Nat /\ faults \in Nat
  BY Own DEF MarkInv
<1>1. UNCHANGED <<acked, faults, job>>
  BY DEF CreditMastery, FinalizeAttempt, counted
<1>2. attempt[s].status = "in_progress" /\ job[r].answers = attempt[s].answers
  BY <1>0 DEF CreditMastery, FinalizeAttempt, SubmissionOK
<1>3. CASE CreditMastery(r)
  <2>1. UNCHANGED attempt /\ pc' = [pc EXCEPT ![r] = "finalize"]
    BY <1>3 DEF CreditMastery, Goto
  <2>2. /\ pc'[r] = "finalize"
        /\ \A o \in Handler \ {r} : pc'[o] = pc[o] /\ job'[o] = job[o]
    BY <1>0, <1>1, <2>1 DEF TypeOK
  <2>3. /\ credited'[s] = credited[s] \/ credited'[s] = credited[s] + 1
        /\ \A o \in Student \ {s} : credited'[o] = credited[o]
    BY <1>0, <1>3 DEF CreditMastery, TypeOK
  <2>4. SubmissionOK(r)'
    BY <1>1, <1>2, <2>1, <2>2 DEF SubmissionOK, StudentPlace
  <2>5. \A c \in Slot : pc[<<s, c>>] # "finalize"
    BY <1>3, OwnSlot DEF CreditMastery
  <2>6. credited[s] <= faults
    BY <1>0, <1>2, <2>5 DEF GradeOK
  <2>7. ~\A c \in Slot : pc'[<<s, c>>] # "finalize"
    BY <2>2, OwnSlot
  <2>8. credited'[s] <= 1 + faults
    BY <1>0, <2>3, <2>6
  <2>9. GradeOK(s)'
    BY <1>0, <1>1, <2>1, <2>7, <2>8 DEF GradeOK
  <2> QED BY <1>1, <2>1, <2>2, <2>3, <2>4, <2>9, MarkOwn
<1>4. CASE FinalizeAttempt(r)
  <2>1. PICK grade \in Grade :
          attempt' = [attempt EXCEPT ![s].status = "graded",
                                     ![s].marked = job[r].answers,
                                     ![s].grade  = grade]
    BY <1>4 DEF FinalizeAttempt
  <2>2. UNCHANGED credited /\ pc' = [pc EXCEPT ![r] = "event"]
    BY <1>4 DEF FinalizeAttempt, Goto
  <2>3. /\ pc'[r] = "event"
        /\ \A o \in Handler \ {r} : pc'[o] = pc[o] /\ job'[o] = job[o]
    BY <1>0, <1>1, <2>2 DEF TypeOK
  <2>4. /\ attempt'[s].status = "graded" /\ attempt'[s].marked = job[r].answers
        /\ attempt'[s].answers = attempt[s].answers
        /\ \A o \in Student \ {s} : attempt'[o] = attempt[o]
    BY <1>0, <2>1 DEF TypeOK, Attempt
  <2>5. SubmissionOK(r)'
    BY <2>3 DEF SubmissionOK, StudentPlace
  <2>6. GradeOK(s)'
    BY <1>0, <1>1, <1>2, <2>2, <2>4 DEF GradeOK
  <2> QED BY <1>1, <2>2, <2>3, <2>4, <2>5, <2>6, MarkOwn
<1> QED BY <1>3, <1>4

\* The rest of the handlers of students, the teacher, the clock and faults.
LEMMA MarkRest ==
  ASSUME MarkInv,
         \/ Tick
         \/ \E r \in {Teacher} \X Slot : TeacherSends(r) \/ TeacherHandle(r)
         \/ \E r \in Student \X Slot :
              OpenAttempt(r) \/ RecordEvent(r) \/ MarkArtifactsStale(r)
         \/ \E r \in Handler : Fault(r)
  PROVE  /\ \A o \in Student \X Slot : SubmissionOK(o)'
         /\ \A s \in Student : GradeOK(s)'
<1>0. TypeOK /\ faults \in Nat /\ Student \X Slot \subseteq Handler
  BY DEF MarkInv, TypeOK, Handler, Person
<1>1. CASE Tick
  BY <1>0, <1>1, MarkQuiet DEF Tick, tables, handler, counted
<1>2. ASSUME NEW r \in {Teacher} \X Slot, TeacherSends(r) \/ TeacherHandle(r)
      PROVE  /\ UNCHANGED <<attempt, acked, credited, faults>>
             /\ \A o \in Student \X Slot : pc'[o] = pc[o] /\ job'[o] = job[o]
  <2>1. UNCHANGED <<attempt, acked, credited, faults>>
    BY <1>2 DEF TeacherSends, TeacherHandle, GenerateTest, UpdateQuestions,
                RegenerateQuestion, RegenerationFails, DeleteQuestions, InsertQuestions,
                Transition, WriteStatus, Analyse, SaveArtifact, tables, counted
  <2>2. \E p, j : pc' = [pc EXCEPT ![r] = p] /\ job' = [job EXCEPT ![r] = j]
    <3>1. CASE TeacherSends(r)
      BY <3>1 DEF TeacherSends, GenerateTest, UpdateQuestions, RegenerateQuestion,
                  Transition, Analyse, Begin, Goto
    <3>2. CASE DeleteQuestions(r)
      <4>1. job' = [job EXCEPT ![r] = [job[r] EXCEPT !.doomed = questions]]
        BY <1>0, <1>2, <3>2, TeacherRequest DEF DeleteQuestions, TypeOK
      <4> QED BY <3>2, <4>1 DEF DeleteQuestions, Goto
    <3>3. CASE RegenerationFails(r) \/ InsertQuestions(r) \/ WriteStatus(r) \/ SaveArtifact(r)
      BY <3>3 DEF RegenerationFails, InsertQuestions, WriteStatus, SaveArtifact, End, Goto
    <3> QED BY <1>2, <3>1, <3>2, <3>3 DEF TeacherHandle
  <2>3. \A o \in Student \X Slot : o # r
    BY <1>2, PersonAssumption
  <2> QED BY <1>0, <2>1, <2>2, <2>3 DEF TypeOK
<1>3. ASSUME NEW r \in {Teacher} \X Slot, TeacherSends(r) \/ TeacherHandle(r)
      PROVE  /\ \A o \in Student \X Slot : SubmissionOK(o)'
             /\ \A s \in Student : GradeOK(s)'
  BY <1>0, <1>2, <1>3, MarkQuiet
<1>4. ASSUME NEW r \in Student \X Slot,
             OpenAttempt(r) \/ RecordEvent(r) \/ MarkArtifactsStale(r)
      PROVE  /\ \A o \in Student \X Slot : SubmissionOK(o)'
             /\ \A s \in Student : GradeOK(s)'
  <2>1. UNCHANGED <<attempt, acked, credited, faults>> /\ pc[r] # "finalize"
    BY <1>4 DEF OpenAttempt, RecordEvent, MarkArtifactsStale, tables, counted
  <2>2. \E p \in {"idle", "create", "stale"} : \E j :
          pc' = [pc EXCEPT ![r] = p] /\ (job' = [job EXCEPT ![r] = j] \/ job' = job)
    BY <1>4 DEF OpenAttempt, RecordEvent, MarkArtifactsStale, End, Goto
  <2>3. PICK p \in {"idle", "create", "stale"} : \E j :
          pc' = [pc EXCEPT ![r] = p] /\ (job' = [job EXCEPT ![r] = j] \/ job' = job)
    BY <2>2
  <2>4. /\ pc'[r] = p
        /\ \A o \in Handler \ {r} : pc'[o] = pc[o] /\ job'[o] = job[o]
    BY <1>0, <2>3, OthersStay
  <2> QED BY <1>0, <2>1, <2>3, <2>4, MarkQuiet
<1>5. ASSUME NEW r \in Handler, Fault(r)
      PROVE  /\ \A o \in Student \X Slot : SubmissionOK(o)'
             /\ \A s \in Student : GradeOK(s)'
  <2>1. UNCHANGED <<attempt, acked, credited>> /\ faults' = faults + 1
    BY <1>5 DEF Fault, tables
  <2>2. pc' = [pc EXCEPT ![r] = "idle"] /\ job' = [job EXCEPT ![r] = NoJob]
    BY <1>5 DEF Fault, End, Goto
  <2>3. /\ pc'[r] = "idle"
        /\ \A o \in Handler \ {r} : pc'[o] = pc[o] /\ job'[o] = job[o]
    BY <1>0, <2>2, OthersStay
  <2>4. faults' \in Nat /\ faults < faults'
    BY <1>0, <2>1
  <2>5. ASSUME NEW o \in Student \X Slot
        PROVE  \/ pc'[o] = pc[o] /\ job'[o] = job[o]
               \/ /\ pc'[o] \in {"idle", "open", "create", "event", "stale"}
                  /\ pc[o] = "finalize" => faults < faults'
    BY <1>0, <2>3, <2>4
  <2> QED BY <1>0, <2>1, <2>4, <2>5, MarkQuiet
<1> QED BY <1>1, <1>3, <1>4, <1>5

\* Nobody has an attempt, a grade or a request.
LEMMA MarkInit == Init => MarkInv
<1> SUFFICES ASSUME Init PROVE MarkInv
  OBVIOUS
<1>1. TypeOK
  BY InitIInv DEF IInv
<1>2. Student \X Slot \subseteq Handler
  BY DEF Handler, Person
<1>3. \A r \in Student \X Slot : SubmissionOK(r)
  BY <1>2 DEF Init, SubmissionOK
<1>4. \A s \in Student : GradeOK(s)
  BY DEF Init, GradeOK, NoAttempt
<1> QED BY <1>1, <1>3, <1>4 DEF MarkInv

\* Every step keeps the answers, the grade and the mastery together.
LEMMA MarkInductive == OneRequest /\ MarkInv /\ IInv' /\ [Next]_vars => MarkInv'
<1> SUFFICES ASSUME OneRequest, MarkInv, IInv', [Next]_vars PROVE MarkInv'
  OBVIOUS
<1>1. TypeOK'
  BY DEF IInv
<1>2. ASSUME NEW r \in Student \X Slot, StudentSends(r) \/ StudentHandle(r)
      PROVE  /\ \A o \in Student \X Slot : SubmissionOK(o)'
             /\ \A s \in Student : GradeOK(s)'
  BY <1>2, MarkSends, MarkWrites, MarkSubmits, MarkRest DEF StudentHandle
<1>3. CASE UNCHANGED vars
  BY <1>1, <1>3 DEF MarkInv, SubmissionOK, GradeOK, vars, tables, handler, counted
<1>4. CASE Next
  BY <1>1, <1>2, <1>4, MarkRest DEF Next, MarkInv
<1> QED BY <1>3, <1>4

\* With one request at a time, that holds in every reachable state.
LEMMA MarkInvariance == OneRequest => (Spec => []MarkInv)
<1>1. OneRequest /\ MarkInv /\ IInv' /\ [Next]_vars => MarkInv'
  BY MarkInductive
<1>2. CASE OneRequest
  <2>1. MarkInv /\ IInv' /\ [Next]_vars => MarkInv'
    BY <1>1, <1>2
  <2> QED BY <2>1, MarkInit, Invariance, PTL DEF Spec
<1> QED BY <1>2

\* Answers that a student was told are saved are graded, and the test counts in
\* the student's mastery once, and once more for each submission that died: the
\* handlers of save_answers and submit_attempt in one tab.
THEOREM GradesAddUp == OneRequest => (Spec => []GradesAccounted)
<1>1. MarkInv => GradesAccounted
  <2> SUFFICES ASSUME MarkInv PROVE GradesAccounted
    OBVIOUS
  <2>1. \A s \in Graded : s \in Student /\ acked[s] = attempt[s].marked /\ acked[s] \in Nat
    BY BoundAssumption DEF MarkInv, GradeOK, Graded, TypeOK
  <2>2. \A s \in Student : credited[s] <= 1 + faults
    BY DEF MarkInv, GradeOK
  <2> QED BY <2>1, <2>2 DEF GradesAccounted, AcknowledgedGraded, CreditedOncePerFault
<1> QED BY <1>1, MarkInvariance, PTL

\* A grade stays: finalize_attempt updates by id alone, and still no second
\* submission gets there with one request at a time.
THEOREM GradesStay == OneRequest => (Spec => GradeIsFinal)
<1>1. ASSUME MarkInv, [Next]_vars, NEW s \in Graded
      PROVE  attempt'[s] = attempt[s]
  <2>1. s \in Student /\ attempt[s].status = "graded" /\ attempt \in [Student -> Attempt]
    BY <1>1 DEF Graded, MarkInv, TypeOK
  <2>2. ASSUME NEW r \in Student \X Slot,
               CreateAttempt(r) \/ WriteAnswers(r) \/ FinalizeAttempt(r)
        PROVE  attempt'[s] = attempt[s]
    <3>1. r[1] \in Student /\ SubmissionOK(r)
      BY <1>1 DEF MarkInv
    <3>2. CASE r[1] = s
      BY <2>1, <2>2, <3>1, <3>2
         DEF CreateAttempt, WriteAnswers, OpenForAnswers, FinalizeAttempt, SubmissionOK
    <3>3. CASE r[1] # s
      BY <2>1, <2>2, <3>3 DEF CreateAttempt, WriteAnswers, FinalizeAttempt
    <3> QED BY <3>2, <3>3
  <2>3. CASE UNCHANGED attempt
    BY <2>3
  <2>4. ASSUME NEW r \in Student \X Slot, StudentSends(r) \/ StudentHandle(r)
        PROVE  \/ CreateAttempt(r) \/ WriteAnswers(r) \/ FinalizeAttempt(r)
               \/ UNCHANGED attempt
    BY <2>4 DEF StudentSends, StartAttempt, SaveAnswers, SubmitAttempt, StudentHandle,
                OpenAttempt, CreditMastery, RecordEvent, MarkArtifactsStale, tables
  <2>5. ASSUME NEW r \in {Teacher} \X Slot, TeacherSends(r) \/ TeacherHandle(r)
        PROVE  UNCHANGED attempt
    BY <2>5 DEF TeacherSends, TeacherHandle, GenerateTest, UpdateQuestions,
                RegenerateQuestion, RegenerationFails, DeleteQuestions, InsertQuestions,
                Transition, WriteStatus, Analyse, SaveArtifact, tables
  <2>6. Tick \/ (\E r \in Handler : Fault(r)) \/ UNCHANGED vars => UNCHANGED attempt
    BY DEF Tick, Fault, vars, tables
  <2> QED BY <1>1, <2>2, <2>3, <2>4, <2>5, <2>6 DEF Next
<1>2. MarkInv /\ [Next]_vars => [\A s \in Graded : attempt'[s] = attempt[s]]_vars
  BY <1>1
<1> QED BY <1>2, MarkInvariance, PTL DEF Spec, GradeIsFinal

-----------------------------------------------------------------------------
(* The questions, with one request at a time *)

\* A step of the teacher need only be right for that request.
LEMMA PaperTeacher ==
  ASSUME PaperInv, OneRequest, TypeOK', NEW r \in {Teacher} \X Slot, UNCHANGED attempt,
         \A o \in Handler \ {r} : pc'[o] = pc[o],
         Released => Released', EditOK(r)', OneList', NeverBare'
  PROVE  PaperInv'
<1>1. Student \X Slot \subseteq Handler \ {r}
  BY PersonAssumption DEF Handler, Person
<1>2. \A o \in {Teacher} \X Slot : o = r
  BY DEF OneRequest
<1>3. \A o \in {Teacher} \X Slot : EditOK(o)'
  BY <1>2
<1>4. \A o \in Student \X Slot : pc'[o] = pc[o]
  BY <1>1
<1>5. AfterRelease'
  BY <1>4 DEF PaperInv, AfterRelease
<1> QED BY <1>3, <1>4, <1>5 DEF PaperInv

\* What is known when a request of the teacher goes on.
LEMMA TeacherOwn ==
  ASSUME PaperInv, NEW r \in {Teacher} \X Slot
  PROVE  /\ TypeOK /\ r \in Handler /\ EditOK(r) /\ OneList /\ NeverBare
         /\ questions \in SUBSET Row
BY TeacherRequest DEF PaperInv, TypeOK

\* A test that is there has questions when the teacher's one request does not
\* wait to bring them.
LEMMA NotBare ==
  ASSUME PaperInv, OneRequest, NEW r \in {Teacher} \X Slot,
         pc[r] \notin {"delete", "insert"} \/ job[r].target # 0
  PROVE  faults = 0 /\ test.status # "absent" => questions # {}
<1>1. \A o \in {Teacher} \X Slot : o = r
  BY DEF OneRequest
<1> QED BY <1>1 DEF PaperInv, NeverBare

\* A list that a request stamps is of that request.
LEMMA OneStamp ==
  ASSUME NEW rows \in SUBSET Row, NEW n \in 1..MaxDrawn
  PROVE  \A p \in Stamped(rows, n) \union {Drawn(n)} : p.by = n
BY DEF Stamped, Drawn, Row

\* Lists that are sent back are not empty, and of one request.
LEMMA EditedLists ==
  ASSUME questions \in SUBSET Row, NEW n \in 1..MaxDrawn, NEW list \in Edits(n)
  PROVE  list # {} /\ \A p, q \in list : p.by = q.by
<1>1. CASE list = Stamped(questions, n) \union {Drawn(n)}
  BY <1>1, OneStamp
<1>2. ASSUME NEW q \in questions,
             list = Stamped((questions \ {q}) \union {[q EXCEPT !.text = n]}, n)
      PROVE  list # {} /\ \A p, o \in list : p.by = o.by
  <2> DEFINE rows == (questions \ {q}) \union {[q EXCEPT !.text = n]}
  <2>1. [q EXCEPT !.text = n] \in Row
    BY DEF Row
  <2>2. rows \in SUBSET Row /\ rows # {}
    BY <2>1
  <2> HIDE DEF rows
  <2>3. Stamped(rows, n) # {}
    BY <2>2 DEF Stamped
  <2> QED BY <1>2, <2>2, <2>3, OneStamp DEF rows
<1>3. ASSUME NEW q \in questions, list = Stamped(questions \ {q}, n), list # {}
      PROVE  list # {} /\ \A p, o \in list : p.by = o.by
  BY <1>3, OneStamp
<1> QED BY <1>1, <1>2, <1>3 DEF Edits

\* The question that is drawn anew comes with all the others.
LEMMA RegeneratedList ==
  ASSUME questions \in SUBSET Row, NEW n \in 1..MaxDrawn, NEW q \in questions
  PROVE  /\ Regenerated(q, n) # {}
         /\ \A p, o \in Regenerated(q, n) : p.by = o.by
         /\ \A o \in questions :
              o.id # q.id => \E p \in Regenerated(q, n) : p.id = o.id /\ p.text = o.text
<1>1. questions \ {q} \in SUBSET Row
  OBVIOUS
<1>2. \A p \in Regenerated(q, n) : p.by = n
  BY <1>1, OneStamp DEF Regenerated
<1>3. ASSUME NEW o \in questions, o.id # q.id
      PROVE  \E p \in Regenerated(q, n) : p.id = o.id /\ p.text = o.text
  <2>1. o \in questions \ {q} /\ o \in Row
    BY <1>3
  <2>2. [o EXCEPT !.by = n] \in Stamped(questions \ {q}, n)
    BY <2>1 DEF Stamped
  <2>3. [o EXCEPT !.by = n].id = o.id /\ [o EXCEPT !.by = n].text = o.text
    BY <2>1 DEF Row
  <2> QED BY <2>2, <2>3 DEF Regenerated
<1> QED BY <1>2, <1>3 DEF Regenerated

\* Requests to work on the questions begin on a test that can be edited.
LEMMA PaperSends ==
  ASSUME PaperInv, OneRequest, TypeOK', NEW r \in {Teacher} \X Slot,
         GenerateTest(r) \/ UpdateQuestions(r) \/ RegenerateQuestion(r)
  PROVE  PaperInv'
<1>0. /\ TypeOK /\ r \in Handler /\ OneList /\ questions \in SUBSET Row
      /\ UNCHANGED <<attempt, questions, faults>> /\ pc[r] = "idle"
  BY TeacherOwn DEF GenerateTest, UpdateQuestions, RegenerateQuestion, tables, Begin
<1>1. PICK j :
        /\ pc' = [pc EXCEPT ![r] = "delete"] /\ job' = [job EXCEPT ![r] = j]
        /\ j.list # {} /\ \A p, q \in j.list : p.by = q.by
        /\ j.target # 0 =>
             \A q \in questions :
               q.id # j.target => \E p \in j.list : p.id = q.id /\ p.text = q.text
        /\ GenerateTest(r) => j.target = 0
  <2>1. CASE GenerateTest(r)
    <3> DEFINE rows == {Drawn(n) : n \in 1..K}
               j == [NoJob EXCEPT !.list = Stamped(rows, K)]
    <3>1. K \in 1..MaxDrawn
      BY BoundAssumption, QuestionAssumption
    <3>2. rows \in SUBSET Row /\ rows # {}
      <4>1. K \in 1..K /\ 1..K \subseteq 1..MaxDrawn
        BY BoundAssumption, QuestionAssumption
      <4>2. Drawn(K) \in rows
        BY <4>1
      <4>3. \A n \in 1..K : Drawn(n) \in Row
        BY <4>1, DrawnRow
      <4> QED BY <4>2, <4>3
    <3>3. pc' = [pc EXCEPT ![r] = "delete"] /\ job' = [job EXCEPT ![r] = j]
      BY <2>1 DEF GenerateTest, Begin, Goto
    <3> HIDE DEF rows
    <3>4. j.list = Stamped(rows, K) /\ j.target = 0
      BY DEF NoJob
    <3>5. Stamped(rows, K) # {} /\ \A p, q \in Stamped(rows, K) : p.by = q.by
      <4>1. Stamped(rows, K) # {}
        BY <3>2 DEF Stamped
      <4> QED BY <3>1, <3>2, <4>1, OneStamp
    <3> QED BY <3>3, <3>4, <3>5
  <2>2. CASE UpdateQuestions(r)
    <3>1. drawn + 1 \in 1..MaxDrawn
      BY <1>0, <2>2, NextDrawn DEF UpdateQuestions
    <3>2. PICK list \in Edits(drawn + 1) : Begin(r, "delete", [NoJob EXCEPT !.list = list])
      BY <2>2 DEF UpdateQuestions
    <3>3. list # {} /\ \A p, q \in list : p.by = q.by
      BY <1>0, <3>1, EditedLists
    <3> DEFINE j == [NoJob EXCEPT !.list = list]
    <3>4. pc' = [pc EXCEPT ![r] = "delete"] /\ job' = [job EXCEPT ![r] = j]
      BY <3>2 DEF Begin, Goto
    <3>5. j.list = list /\ j.target = 0
      BY DEF NoJob
    <3> QED BY <3>3, <3>4, <3>5
  <2>3. CASE RegenerateQuestion(r)
    <3>1. drawn + 1 \in 1..MaxDrawn
      BY <1>0, <2>3, NextDrawn DEF RegenerateQuestion
    <3>2. PICK q \in questions :
            Begin(r, "delete", [NoJob EXCEPT !.list = Regenerated(q, drawn + 1),
                                             !.target = q.id])
      BY <2>3 DEF RegenerateQuestion
    <3> DEFINE j == [NoJob EXCEPT !.list = Regenerated(q, drawn + 1), !.target = q.id]
    <3>3. pc' = [pc EXCEPT ![r] = "delete"] /\ job' = [job EXCEPT ![r] = j]
      BY <3>2 DEF Begin, Goto
    <3>4. j.list = Regenerated(q, drawn + 1) /\ j.target = q.id
      BY DEF NoJob
    <3>5. ~GenerateTest(r)
      <4>1. Editable
        BY <2>3 DEF RegenerateQuestion
      <4> QED BY <4>1 DEF Editable, GenerateTest
    <3>6. /\ j.list # {} /\ \A p, o \in j.list : p.by = o.by
          /\ \A o \in questions :
               o.id # j.target => \E p \in j.list : p.id = o.id /\ p.text = o.text
      <4> HIDE DEF j
      <4> QED BY <1>0, <3>1, <3>2, <3>4, RegeneratedList
    <3> HIDE DEF j
    <3> QED BY <3>3, <3>5, <3>6
  <2> QED BY <2>1, <2>2, <2>3
<1>2. /\ pc'[r] = "delete" /\ job'[r] = j
      /\ \A o \in Handler \ {r} : pc'[o] = pc[o]
  BY <1>0, <1>1 DEF TypeOK
<1>3. Editable' /\ (Released => Released')
  <2>1. CASE GenerateTest(r)
    <3>1. test'.status = "draft" /\ test.status = "absent"
      BY <1>0, <2>1 DEF GenerateTest, TypeOK
    <3> QED BY <3>1 DEF Editable, Released
  <2>2. CASE ~GenerateTest(r)
    BY <2>2 DEF UpdateQuestions, RegenerateQuestion, tables, Editable, Released
  <2> QED BY <2>1, <2>2
<1>4. EditOK(r)'
  BY <1>0, <1>1, <1>2, <1>3 DEF EditOK
<1>5. OneList'
  BY <1>0 DEF OneList
<1>6. NeverBare'
  <2>1. CASE GenerateTest(r)
    BY <1>1, <1>2, <2>1 DEF NeverBare
  <2>2. CASE ~GenerateTest(r)
    <3>1. Editable
      BY <2>2 DEF UpdateQuestions, RegenerateQuestion
    <3>2. faults = 0 => questions # {}
      BY <1>0, <3>1, NotBare DEF Editable
    <3> QED BY <1>0, <3>2 DEF NeverBare
  <2> QED BY <2>1, <2>2
<1> QED BY <1>0, <1>2, <1>3, <1>4, <1>5, <1>6, PaperTeacher

\* A transition begins on the status it is for, and ends on it.
LEMMA PaperMoves ==
  ASSUME PaperInv, OneRequest, TypeOK', NEW r \in {Teacher} \X Slot,
         Transition(r) \/ WriteStatus(r)
  PROVE  PaperInv' /\ Rank(test.status) <= Rank(test'.status)
<1>0. /\ TypeOK /\ r \in Handler /\ EditOK(r) /\ OneList /\ UNCHANGED <<attempt, questions, faults>>
  BY TeacherOwn DEF Transition, WriteStatus, tables, counted
<1>1. OneList'
  BY <1>0 DEF OneList
<1>2. pc[r] \in {"idle", "move"}
  BY DEF Transition, WriteStatus, Begin
<1>3. CASE Transition(r)
  <2>1. PICK m \in Moves : \E start, end :
          /\ test.status \in m.from
          /\ Begin(r, "move", [NoJob EXCEPT !.to = m.to, !.start = start, !.end = end])
    BY <1>3 DEF Transition
  <2>2. PICK start, end :
          Begin(r, "move", [NoJob EXCEPT !.to = m.to, !.start = start, !.end = end])
    BY <2>1
  <2> DEFINE j == [NoJob EXCEPT !.to = m.to, !.start = start, !.end = end]
  <2>3. pc' = [pc EXCEPT ![r] = "move"] /\ job' = [job EXCEPT ![r] = j]
    BY <2>2 DEF Begin, Goto
  <2>4. j.to = m.to
    BY DEF NoJob
  <2> HIDE DEF j
  <2>5. /\ pc'[r] = "move" /\ job'[r] = j
        /\ \A o \in Handler \ {r} : pc'[o] = pc[o]
    BY <1>0, <2>3 DEF TypeOK
  <2>6. UNCHANGED test
    BY <1>3 DEF Transition, tables
  <2>7. EditOK(r)'
    BY <2>1, <2>4, <2>5, <2>6 DEF EditOK
  <2>8. NeverBare'
    BY <1>0, <1>2, <2>6, NotBare DEF NeverBare
  <2>9. PaperInv'
    BY <1>0, <1>1, <2>5, <2>6, <2>7, <2>8, PaperTeacher DEF Released
  <2>10. Rank(test.status) <= Rank(test'.status)
    BY <2>1, <2>6 DEF Rank, Moves
  <2> QED BY <2>9, <2>10
<1>4. CASE WriteStatus(r)
  <2>1. PICK m \in Moves : test.status \in m.from /\ job[r].to = m.to
    BY <1>0, <1>4 DEF WriteStatus, EditOK
  <2>2. test'.status = m.to
    BY <1>4, <2>1 DEF WriteStatus
  <2>3. /\ Released => Released'
        /\ test.status # "absent"
        /\ Rank(test.status) <= Rank(test'.status)
    BY <2>1, <2>2 DEF Moves, Released, Rank
  <2>4. pc' = [pc EXCEPT ![r] = "idle"] /\ job' = [job EXCEPT ![r] = NoJob]
    BY <1>4 DEF WriteStatus, End, Goto
  <2>5. pc'[r] = "idle" /\ \A o \in Handler \ {r} : pc'[o] = pc[o]
    BY <1>0, <2>4, OthersStay
  <2>6. EditOK(r)'
    BY <2>5 DEF EditOK
  <2>7. NeverBare'
    BY <1>0, <1>2, <2>3, NotBare DEF NeverBare
  <2> QED BY <1>0, <1>1, <2>3, <2>5, <2>6, <2>7, PaperTeacher
<1> QED BY <1>3, <1>4

\* The list replaces what is there, which is what DELETE found.
LEMMA Replaced ==
  ASSUME PaperInv, NEW r \in {Teacher} \X Slot, InsertQuestions(r)
  PROVE  questions' = job[r].list
<1>1. job[r].doomed = questions
  BY DEF PaperInv, EditOK, InsertQuestions
<1>2. Remaining(r) = {}
  BY <1>1 DEF Remaining
<1>3. IdsOf(Remaining(r)) = {}
  BY <1>2 DEF IdsOf
<1> QED BY <1>2, <1>3 DEF InsertQuestions

\* The questions are deleted, replaced, or left as they are.
LEMMA PaperHandle ==
  ASSUME PaperInv, OneRequest, TypeOK', NEW r \in {Teacher} \X Slot,
         \/ RegenerationFails(r) \/ DeleteQuestions(r) \/ InsertQuestions(r)
         \/ Analyse(r) \/ SaveArtifact(r)
  PROVE  PaperInv'
<1>0. /\ TypeOK /\ r \in Handler /\ EditOK(r) /\ OneList
      /\ UNCHANGED <<test, attempt, faults>>
  BY TeacherOwn DEF RegenerationFails, DeleteQuestions, InsertQuestions, Analyse,
                    SaveArtifact, tables, counted
<1>1. Released => Released'
  BY <1>0 DEF Released
<1>2. CASE DeleteQuestions(r)
  <2>1. job' = [job EXCEPT ![r] = [job[r] EXCEPT !.doomed = questions]]
    BY <1>0, <1>2 DEF DeleteQuestions, TypeOK
  <2>2. job[r] \in Job
    BY <1>0 DEF TypeOK
  <2>3. /\ job'[r].doomed = questions /\ job'[r].list = job[r].list
        /\ job'[r].target = job[r].target
    <3>1. job'[r] = [job[r] EXCEPT !.doomed = questions]
      BY <1>0, <2>1 DEF TypeOK
    <3> QED BY <2>2, <3>1 DEF Job
  <2>4. /\ pc'[r] = "insert" /\ pc[r] = "delete"
        /\ \A o \in Handler \ {r} : pc'[o] = pc[o]
    BY <1>0, <1>2 DEF DeleteQuestions, Goto, TypeOK
  <2>5. UNCHANGED questions
    BY <1>2 DEF DeleteQuestions, tables
  <2>6. EditOK(r)'
    BY <1>0, <2>3, <2>4, <2>5 DEF EditOK, Editable
  <2>7. NeverBare'
    <3>1. CASE job[r].target = 0
      BY <2>3, <2>4, <3>1 DEF NeverBare
    <3>2. CASE job[r].target # 0
      BY <1>0, <2>5, <3>2, NotBare DEF NeverBare
    <3> QED BY <3>1, <3>2
  <2>8. OneList'
    BY <1>0, <2>5 DEF OneList
  <2> QED BY <1>0, <1>1, <2>4, <2>6, <2>7, <2>8, PaperTeacher
<1>3. CASE InsertQuestions(r)
  <2>1. /\ questions' = job[r].list /\ job[r].list # {}
        /\ \A p, q \in job[r].list : p.by = q.by
    BY <1>0, <1>3, Replaced DEF InsertQuestions, EditOK
  <2>2. pc' = [pc EXCEPT ![r] = "idle"] /\ job' = [job EXCEPT ![r] = NoJob]
    BY <1>3 DEF InsertQuestions, End, Goto
  <2>3. pc'[r] = "idle" /\ \A o \in Handler \ {r} : pc'[o] = pc[o]
    BY <1>0, <2>2, OthersStay
  <2>4. OneList' /\ NeverBare' /\ EditOK(r)'
    BY <2>1, <2>3 DEF OneList, NeverBare, EditOK
  <2> QED BY <1>0, <1>1, <2>3, <2>4, PaperTeacher
<1>4. CASE RegenerationFails(r) \/ Analyse(r) \/ SaveArtifact(r)
  <2>1. UNCHANGED questions /\ (pc[r] \notin {"delete", "insert"} \/ job[r].target # 0)
    BY <1>4 DEF RegenerationFails, Analyse, SaveArtifact, tables, Begin
  <2>2. \E p \in {"idle", "artifact"} : \E j :
          pc' = [pc EXCEPT ![r] = p] /\ job' = [job EXCEPT ![r] = j]
    BY <1>4 DEF RegenerationFails, Analyse, SaveArtifact, Begin, End, Goto
  <2>3. pc'[r] \in {"idle", "artifact"} /\ \A o \in Handler \ {r} : pc'[o] = pc[o]
    BY <1>0, <2>2 DEF TypeOK
  <2>4. EditOK(r)'
    BY <2>3 DEF EditOK
  <2>5. NeverBare'
    BY <1>0, <2>1, NotBare DEF NeverBare
  <2>6. OneList'
    BY <1>0, <2>1 DEF OneList
  <2> QED BY <1>0, <1>1, <2>3, <2>4, <2>5, <2>6, PaperTeacher
<1> QED BY <1>2, <1>3, <1>4

\* Students come after the release, and change nothing of the test.
LEMMA PaperStudents ==
  ASSUME PaperInv, TypeOK', NEW r \in Student \X Slot, StudentSends(r) \/ StudentHandle(r)
  PROVE  PaperInv' /\ UNCHANGED <<test, questions>>
<1>0. /\ TypeOK /\ r \in Handler /\ r[1] \in Student /\ pc[r] \in StudentPlace \union {"idle"}
  BY StudentRequest DEF PaperInv
<1>1. UNCHANGED <<test, questions, faults>>
  BY DEF StudentSends, StartAttempt, SaveAnswers, SubmitAttempt, StudentHandle,
         OpenAttempt, CreateAttempt, WriteAnswers, CreditMastery, FinalizeAttempt,
         RecordEvent, MarkArtifactsStale, tables, counted
<1>2. Released
  <2>1. CASE EffectiveStatus = "live"
    BY <2>1 DEF EffectiveStatus, Released
  <2>2. CASE attempt[r[1]].status = "in_progress"
    BY <1>0, <2>2 DEF PaperInv, AfterRelease
  <2>3. CASE StudentHandle(r)
    <3>1. pc[r] # "idle"
      BY <2>3 DEF StudentHandle, OpenAttempt, CreateAttempt, WriteAnswers, CreditMastery,
                  FinalizeAttempt, RecordEvent, MarkArtifactsStale
    <3> QED BY <3>1 DEF PaperInv, AfterRelease
  <2> QED BY <2>1, <2>2, <2>3 DEF StudentSends, StartAttempt, SaveAnswers, SubmitAttempt,
                                  Submittable
<1>3. PICK p \in StudentPlace \union {"idle"} : \E j :
        pc' = [pc EXCEPT ![r] = p] /\ (job' = [job EXCEPT ![r] = j] \/ job' = job)
  <2>1. CASE StudentSends(r)
    BY <2>1 DEF StudentSends, StartAttempt, SaveAnswers, SubmitAttempt, Begin, Goto,
                StudentPlace
  <2>2. CASE StudentHandle(r)
    BY <2>2 DEF StudentHandle, OpenAttempt, CreateAttempt, WriteAnswers, CreditMastery,
                FinalizeAttempt, RecordEvent, MarkArtifactsStale, End, Goto, StudentPlace
  <2> QED BY <2>1, <2>2
<1>4. /\ pc'[r] = p
      /\ \A o \in Handler \ {r} : pc'[o] = pc[o] /\ job'[o] = job[o]
  BY <1>0, <1>3, OthersStay
<1>5. /\ {Teacher} \X Slot \subseteq Handler \ {r}
      /\ Student \X Slot \subseteq Handler
  BY PersonAssumption DEF Handler, Person
<1>6. \A o \in {Teacher} \X Slot : pc'[o] = pc[o] /\ job'[o] = job[o]
  BY <1>4, <1>5
<1>7. \A o \in {Teacher} \X Slot : EditOK(o)'
  BY <1>1, <1>6 DEF PaperInv, EditOK, Editable
<1>8. \A o \in Student \X Slot : pc'[o] \in StudentPlace \union {"idle"}
  BY <1>3, <1>4, <1>5 DEF PaperInv
<1>9. OneList' /\ AfterRelease'
  BY <1>1, <1>2 DEF PaperInv, OneList, AfterRelease, Released
<1>10. NeverBare'
  BY <1>1, <1>6 DEF PaperInv, NeverBare
<1> QED BY <1>1, <1>7, <1>8, <1>9, <1>10 DEF PaperInv

\* The clock and faults, which leave more to wait for, not less.
LEMMA PaperRest ==
  ASSUME PaperInv, TypeOK',
         Tick \/ (\E r \in Handler : Fault(r)) \/ UNCHANGED vars
  PROVE  PaperInv' /\ UNCHANGED <<test, questions>>
<1>1. CASE Tick \/ UNCHANGED vars
  <2>1. UNCHANGED <<test, questions, attempt, pc, job, faults>>
    BY <1>1 DEF Tick, vars, tables, handler, counted
  <2>2. \A r \in {Teacher} \X Slot : EditOK(r)'
    BY <2>1 DEF PaperInv, EditOK, Editable
  <2>3. OneList' /\ AfterRelease' /\ NeverBare'
    BY <2>1 DEF PaperInv, OneList, AfterRelease, NeverBare, Released
  <2> QED BY <2>1, <2>2, <2>3 DEF PaperInv
<1>2. ASSUME NEW r \in Handler, Fault(r)
      PROVE  PaperInv' /\ UNCHANGED <<test, questions>>
  <2>1. UNCHANGED <<test, questions, attempt>> /\ faults' = faults + 1 /\ faults \in Nat
    BY <1>2 DEF Fault, tables, PaperInv, TypeOK
  <2>2. pc' = [pc EXCEPT ![r] = "idle"] /\ job' = [job EXCEPT ![r] = NoJob]
    BY <1>2 DEF Fault, End, Goto
  <2>3. /\ pc'[r] = "idle"
        /\ \A o \in Handler \ {r} : pc'[o] = pc[o] /\ job'[o] = job[o]
    BY <2>2, OthersStay DEF PaperInv
  <2>4. {Teacher} \X Slot \subseteq Handler /\ Student \X Slot \subseteq Handler
    BY DEF Handler, Person
  <2>5. ASSUME NEW o \in {Teacher} \X Slot PROVE EditOK(o)'
    <3>1. CASE o = r
      BY <2>3, <3>1 DEF EditOK
    <3>2. CASE o # r
      BY <2>1, <2>3, <2>4, <3>2 DEF PaperInv, EditOK, Editable
    <3> QED BY <3>1, <3>2
  <2>6. \A o \in Student \X Slot : pc'[o] \in {pc[o], "idle"}
    BY <2>3, <2>4
  <2>7. faults' # 0
    BY <2>1
  <2>8. OneList' /\ AfterRelease' /\ NeverBare'
    BY <2>1, <2>6, <2>7 DEF PaperInv, OneList, AfterRelease, NeverBare, Released
  <2>9. \A o \in Student \X Slot : pc'[o] \in StudentPlace \union {"idle"}
    BY <2>6 DEF PaperInv
  <2> QED BY <2>1, <2>5, <2>8, <2>9 DEF PaperInv
<1> QED BY <1>1, <1>2

\* There is no test, and nobody at work on one.
LEMMA PaperInit == Init => PaperInv
<1> SUFFICES ASSUME Init PROVE PaperInv
  OBVIOUS
<1>1. TypeOK
  BY InitIInv DEF IInv
<1>2. {Teacher} \X Slot \subseteq Handler /\ Student \X Slot \subseteq Handler
  BY DEF Handler, Person
<1>3. \A r \in Handler : pc[r] = "idle"
  BY DEF Init
<1>4. \A r \in {Teacher} \X Slot : EditOK(r)
  BY <1>2, <1>3 DEF EditOK
<1>5. \A r \in Student \X Slot : pc[r] = "idle"
  BY <1>2, <1>3
<1>6. OneList /\ AfterRelease /\ NeverBare
  BY <1>5 DEF Init, OneList, AfterRelease, NeverBare, NoAttempt
<1> QED BY <1>1, <1>4, <1>5, <1>6 DEF PaperInv

\* Every step keeps the paper whole, and moves the test forward.
LEMMA PaperInductive ==
  OneRequest /\ PaperInv /\ IInv' /\ [Next]_vars =>
    PaperInv' /\ Rank(test.status) <= Rank(test'.status)
<1> SUFFICES ASSUME OneRequest, PaperInv, IInv', [Next]_vars
             PROVE  PaperInv' /\ Rank(test.status) <= Rank(test'.status)
  OBVIOUS
<1>1. TypeOK /\ TypeOK'
  BY DEF PaperInv, IInv
<1>2. UNCHANGED test => Rank(test.status) <= Rank(test'.status)
  <2>1. test.status \in TestStatus \union {"absent"}
    BY <1>1 DEF TypeOK
  <2>2. Rank(test.status) \in Nat
    BY <2>1 DEF Rank, TestStatus
  <2> QED BY <2>2
<1>3. CASE Tick \/ (\E r \in Handler : Fault(r)) \/ UNCHANGED vars
  BY <1>1, <1>2, <1>3, PaperRest
<1>4. ASSUME NEW r \in Student \X Slot, StudentSends(r) \/ StudentHandle(r)
      PROVE  PaperInv' /\ Rank(test.status) <= Rank(test'.status)
  BY <1>1, <1>2, <1>4, PaperStudents
<1>5. ASSUME NEW r \in {Teacher} \X Slot, TeacherSends(r) \/ TeacherHandle(r)
      PROVE  PaperInv' /\ Rank(test.status) <= Rank(test'.status)
  <2>1. CASE GenerateTest(r)
    <3>1. test.status = "absent" /\ test'.status = "draft"
      BY <1>1, <2>1 DEF GenerateTest, TypeOK
    <3> QED BY <1>1, <2>1, <3>1, PaperSends DEF Rank
  <2>2. CASE Transition(r) \/ WriteStatus(r)
    BY <1>1, <2>2, PaperMoves
  <2>3. CASE UpdateQuestions(r) \/ RegenerateQuestion(r)
    <3>1. UNCHANGED test
      BY <2>3 DEF UpdateQuestions, RegenerateQuestion, tables
    <3> QED BY <1>1, <1>2, <2>3, <3>1, PaperSends
  <2>4. CASE \/ RegenerationFails(r) \/ DeleteQuestions(r) \/ InsertQuestions(r)
             \/ Analyse(r) \/ SaveArtifact(r)
    <3>1. UNCHANGED test
      BY <2>4 DEF RegenerationFails, DeleteQuestions, InsertQuestions, Analyse,
                  SaveArtifact, tables
    <3> QED BY <1>1, <1>2, <2>4, <3>1, PaperHandle
  <2> QED BY <1>5, <2>1, <2>2, <2>3, <2>4 DEF TeacherSends, TeacherHandle
<1> QED BY <1>3, <1>4, <1>5 DEF Next

\* With one request at a time, it is whole in every reachable state.
LEMMA PaperInvariance == OneRequest => (Spec => []PaperInv)
<1>1. OneRequest /\ PaperInv /\ IInv' /\ [Next]_vars => PaperInv'
  BY PaperInductive
<1>2. CASE OneRequest
  <2>1. PaperInv /\ IInv' /\ [Next]_vars => PaperInv'
    BY <1>1, <1>2
  <2> QED BY <2>1, PaperInit, Invariance, PTL DEF Spec
<1> QED BY <1>2

\* The questions are the list of one request, and a test that students can take
\* has some: replace_test_questions deletes and inserts long after the status
\* was checked, and generate_test commits the draft before its questions.
THEOREM PapersAreWhole == OneRequest => (Spec => []PaperWhole)
<1>1. PaperInv => PaperWhole
  <2> SUFFICES ASSUME PaperInv PROVE PaperWhole
    OBVIOUS
  <2>1. ASSUME EffectiveStatus = "live", faults = 0, questions = {} PROVE FALSE
    <3>1. Released
      BY <2>1 DEF EffectiveStatus, Released
    <3>2. PICK r \in {Teacher} \X Slot : pc[r] \in {"delete", "insert"}
      BY <2>1, <3>1 DEF PaperInv, NeverBare, Released
    <3>3. Editable
      BY <3>2 DEF PaperInv, EditOK
    <3> QED BY <3>1, <3>3 DEF Editable, Released
  <2> QED BY <2>1 DEF PaperInv, PaperWhole, TestHasQuestions
<1> QED BY <1>1, PaperInvariance, PTL

\* A test moves from draft to closed and never back: every transition is
\* written on the status it was checked on.
THEOREM TestsMoveForward == OneRequest => (Spec => MovesForward)
<1>1. CASE OneRequest
  <2>1. PaperInv /\ IInv' /\ [Next]_vars => [Rank(test.status) <= Rank(test'.status)]_vars
    BY <1>1, PaperInductive
  <2> QED BY <1>1, <2>1, PaperInvariance, Invariance, PTL DEF Spec, MovesForward
<1> QED BY <1>1

\* Nobody changes the questions once a student has an attempt, and a question
\* that is regenerated leaves the rest as they were, though the whole list is
\* deleted and written anew.
THEOREM PapersAreKept == OneRequest => (Spec => PaperKept)
<1> DEFINE Frozen == (\E s \in Student : attempt[s].status # "absent") => questions' = questions
           Kept   == \A r \in Handler :
                       pc[r] = "insert" /\ job[r].target # 0 /\ questions' # questions =>
                         \A q \in questions :
                           q.id # job[r].target =>
                             \E p \in questions' : p.id = q.id /\ p.text = q.text
<1>1. ASSUME OneRequest, PaperInv, [Next]_vars PROVE Frozen /\ Kept
  <2>1. ASSUME NEW t \in {Teacher} \X Slot, InsertQuestions(t) PROVE Frozen /\ Kept
    <3>1. EditOK(t) /\ pc[t] = "insert" /\ questions' = job[t].list
      BY <1>1, <2>1, Replaced DEF PaperInv, InsertQuestions
    <3>2. ~Released
      BY <3>1 DEF EditOK, Editable, Released
    <3>3. Frozen
      BY <1>1, <3>2 DEF PaperInv, AfterRelease
    <3>4. ASSUME NEW r \in Handler, pc[r] = "insert" PROVE r = t
      <4>1. r \notin Student \X Slot
        BY <1>1, <3>4 DEF PaperInv, StudentPlace
      <4>2. r \in {Teacher} \X Slot
        BY <4>1 DEF Handler, Person
      <4> QED BY <1>1, <4>2 DEF OneRequest
    <3>5. Kept
      BY <3>1, <3>4 DEF EditOK
    <3> QED BY <3>3, <3>5
  <2>2. CASE UNCHANGED questions
    BY <2>2
  <2>3. ASSUME NEW r \in {Teacher} \X Slot, TeacherSends(r) \/ TeacherHandle(r)
        PROVE  InsertQuestions(r) \/ UNCHANGED questions
    BY <2>3 DEF TeacherSends, TeacherHandle, GenerateTest, UpdateQuestions,
                RegenerateQuestion, RegenerationFails, DeleteQuestions, Transition,
                WriteStatus, Analyse, SaveArtifact, tables
  <2>4. ASSUME NEW r \in Student \X Slot, StudentSends(r) \/ StudentHandle(r)
        PROVE  UNCHANGED questions
    BY <2>4 DEF StudentSends, StartAttempt, SaveAnswers, SubmitAttempt, StudentHandle,
                OpenAttempt, CreateAttempt, WriteAnswers, CreditMastery, FinalizeAttempt,
                RecordEvent, MarkArtifactsStale, tables
  <2>5. Tick \/ (\E r \in Handler : Fault(r)) \/ UNCHANGED vars => UNCHANGED questions
    BY DEF Tick, Fault, vars, tables
  <2> HIDE DEF Frozen, Kept
  <2> QED BY <1>1, <2>1, <2>2, <2>3, <2>4, <2>5 DEF Next
<1>2. CASE OneRequest
  <2>1. PaperInv /\ [Next]_vars => [Frozen]_vars /\ [Kept]_vars
    BY <1>1, <1>2
  <2>2. Spec => [][Frozen]_vars /\ [][Kept]_vars
    <3> HIDE DEF Frozen, Kept
    <3> QED BY <1>2, <2>1, PaperInvariance, PTL DEF Spec
  <2> QED BY <2>2 DEF PaperKept, PaperFrozen, RegenerationKeepsRest
<1> QED BY <1>2
=============================================================================
