----------------------- MODULE EvaluationSession_proofs -----------------------
(***************************************************************************)
(* The safety of evaluation sessions, for every set of sessions, requests, *)
(* probe ids and every bound: concurrent handlers included.                *)
(***************************************************************************)
EXTENDS EvaluationSession, FiniteSetTheorems, SequenceTheorems, TLAPS

\* submit_answer knows one pace, whose limit is six answers.
LEMMA LimitIsSix == PaceConfig[SubmitPace].max_total = 6 /\ Len(BaseId) = 4
BY DEF PaceConfig, SubmitPace, BaseId

\* A non-empty set of at most ten positions has a smallest; the sets of positions
\* the handlers look at are that small.
LEMMA SmallestPosition ==
  ASSUME NEW P, P \subseteq 1..10, P # {}
  PROVE  \E i \in P : \A j \in P : i <= j
<1>0. SUFFICES ASSUME \A i \in P : \E j \in P : j < i PROVE FALSE
  OBVIOUS
<1>1. 1 \notin P /\ 2 \notin P  BY <1>0
<1>2. 3 \notin P /\ 4 \notin P  BY <1>0, <1>1
<1>3. 5 \notin P /\ 6 \notin P  BY <1>0, <1>1, <1>2
<1>4. 7 \notin P /\ 8 \notin P  BY <1>0, <1>1, <1>2, <1>3
<1>5. 9 \notin P /\ 10 \notin P  BY <1>0, <1>1, <1>2, <1>3, <1>4
<1>6. PICK i \in P : i \in 1..10  OBVIOUS
<1> QED BY <1>1, <1>2, <1>3, <1>4, <1>5, <1>6

\* The first of them is one of them.
LEMMA FirstIsIn ==
  ASSUME NEW P, P \subseteq 1..10, P # {}
  PROVE  First(P) \in P
BY SmallestPosition DEF First

-----------------------------------------------------------------------------
(* The inductive invariant *)

\* What the table shows of every session, and what the module's completion
\* rests on.
RowsInv ==
    /\ ActiveHasQuestion
    /\ CompletedExhausted
    /\ CompletedOnRecord
    /\ CompletionEarned

\* The properties of the table are not inductive by themselves: a handler
\* writes back what it read long before, so what it holds has to be right too.
IInv == TypeOK /\ Bounded /\ HandlerInv /\ RowsInv

\* The table and the memory of a handler hold sequences of the right kind.
LEMMA Typed ==
  ASSUME TypeOK
  PROVE  /\ \A s \in Session :
              /\ row[s].questions \in Seq(Question)
              /\ row[s].answers \in Seq(Answer)
              /\ row[s].decision \in Decision \union {""}
              /\ history[s] \in Seq([verdict : Verdict, questions_asked : Nat])
         /\ \A r \in Request :
              /\ job[r].session \in Session \union {None}
              /\ job[r].question \in QuestionId \union {""}
              /\ job[r].questions \in Seq(Question)
              /\ job[r].answers \in Seq(Answer)
              /\ Len(job[r].answers) \in Nat
              /\ Len(job[r].questions) \in Nat
              /\ job[r].next \in QuestionId \union {""}
              /\ job[r].verdict \in Verdict
              /\ job[r].verdict.decision \in Decision \union {""}
<1>1. \A s \in Session :
        row[s] \in Row
          /\ history[s] \in Seq([verdict : Verdict, questions_asked : Nat])
  BY DEF TypeOK
<1>2. \A r \in Request : job[r] \in Job
  BY DEF TypeOK
<1>3. \A q \in Seq(Question), a \in Seq(Answer) : Len(q) \in Nat /\ Len(a) \in Nat
  OBVIOUS
<1>4. \A v \in Verdict : v.decision \in Decision \union {""}
  BY DEF Verdict
<1> QED BY <1>1, <1>2, <1>3, <1>4 DEF Row, Job

\* No decision is the empty one.
LEMMA DecisionsNamed == "" \notin Decision
BY DEF Decision

\* What a handler relies on stays true when records are added.
LEMMA RecordsGrow ==
  ASSUME NEW at, NEW j, NEW old, NEW new, InStep(at, j, old),
         \A d, n : OnRecord(old, d, n) => OnRecord(new, d, n)
  PROVE  InStep(at, j, new)
BY DEF InStep

\* A step of one handler that keeps what is on record leaves the others right.
LEMMA RestOfHandlers ==
  ASSUME HandlerInv, NEW r \in Request, HandlerOK(r)',
         \A o \in Request \ {r} : pc'[o] = pc[o] /\ job'[o] = job[o],
         \A s \in Session : \A d, n :
           OnRecord(history[s], d, n) => OnRecord(history'[s], d, n)
  PROVE  HandlerInv'
<1> SUFFICES ASSUME NEW o \in Request, o # r PROVE HandlerOK(o)'
  BY DEF HandlerInv
<1>1. HandlerOK(o) /\ pc'[o] = pc[o] /\ job'[o] = job[o]
  BY DEF HandlerInv
<1>2. pc[o] # "idle" => job[o].session \in Session
  BY <1>1 DEF HandlerOK, InStep
<1>3. CASE pc[o] = "idle"
  BY <1>1, <1>3 DEF HandlerOK, InStep
<1>4. CASE pc[o] # "idle"
  <2>1. \A d, n : OnRecord(history[job[o].session], d, n)
                    => OnRecord(history'[job[o].session], d, n)
    BY <1>2, <1>4
  <2> QED BY <1>1, <2>1, RecordsGrow DEF HandlerOK
<1> QED BY <1>3, <1>4

\* Where neither rows nor history nor the completion change, what they show
\* does not either.
LEMMA RowsUnchanged ==
  ASSUME RowsInv, UNCHANGED <<row, history, completed>>
  PROVE  RowsInv'
BY DEF RowsInv, ActiveHasQuestion, CompletedExhausted, CompletedOnRecord,
       CompletionEarned, OnRecord, ShouldFinalize, AtHardLimit, Remaining,
       AnsweredIds

\* With no session started and no handler at work, there is nothing to keep.
LEMMA InitIInv == Init => IInv
<1> SUFFICES ASSUME Init PROVE IInv
  OBVIOUS
<1>1. TypeOK
  <2>1. NoVerdict \in Verdict
    BY DEF NoVerdict, Verdict
  <2>2. NoRow \in Row /\ NoJob \in Job
    BY <2>1, EmptySeq DEF NoRow, NoJob, Row, Job
  <2>3. history \in [Session -> Seq([verdict : Verdict, questions_asked : Nat])]
    BY EmptySeq DEF Init
  <2>4. row \in [Session -> Row] /\ job \in [Request -> Job]
    BY <2>2 DEF Init
  <2>5. /\ seen \in Nat /\ adaptation \in Session \union {None}
        /\ completed \subseteq Completer
    BY DEF Init
  <2>6. sent \in Nat /\ stray \in Nat /\ faults \in Nat
    BY DEF Init
  <2>7. skill \in [session : Session \union {None}, mastered : BOOLEAN]
    BY DEF Init
  <2>8. pc \in [Request -> Place]
    BY DEF Init, Place
  <2>9. shown \in [Session -> QuestionId \union {""}] /\ acked \in [Session -> Nat]
    BY DEF Init
  <2> QED BY <2>3, <2>4, <2>5, <2>6, <2>7, <2>8, <2>9 DEF TypeOK
<1>2. Bounded
  <2>1. Fits(<<>>, <<>>)
    BY LimitIsSix, Len(<<>>) = 0 DEF Fits
  <2> QED BY <2>1 DEF Init, Bounded, NoRow, NoJob
<1>3. HandlerInv
  BY DEF Init, HandlerInv, HandlerOK, InStep, NoJob, NoVerdict
<1>4. RowsInv
  <2>1. \A s \in Session : row[s].status = "absent"
    BY DEF Init, NoRow
  <2> QED BY <2>1 DEF Init, RowsInv, ActiveHasQuestion, CompletedExhausted,
                      CompletedOnRecord, CompletionEarned
<1> QED BY <1>1, <1>2, <1>3, <1>4 DEF IInv

-----------------------------------------------------------------------------
(* Steps that change only what one handler has in memory *)

\* A step that changes what one handler has in memory and where it stands, and
\* no table, needs to be right for that handler only.
LEMMA HandlerStep ==
  ASSUME IInv, NEW r \in Request, NEW p \in Place, NEW j \in Job,
         pc' = [pc EXCEPT ![r] = p], job' = [job EXCEPT ![r] = j],
         UNCHANGED <<tables, shown, acked>>,
         sent' \in Nat, stray' \in Nat, faults' \in Nat,
         Fits(j.questions, j.answers), HandlerOK(r)'
  PROVE  IInv'
<1> USE DEF IInv, tables
<1>1. /\ pc'[r] = p /\ job'[r] = j
      /\ \A o \in Request \ {r} : pc'[o] = pc[o] /\ job'[o] = job[o]
  BY DEF TypeOK
<1>2. TypeOK'
  BY DEF TypeOK
<1>3. Bounded'
  BY <1>1 DEF Bounded
<1>4. HandlerInv'
  BY <1>1, RestOfHandlers
<1>5. RowsInv'
  BY RowsUnchanged
<1> QED BY <1>2, <1>3, <1>4, <1>5

\* A new request brings a handler that knows nothing of its session yet.
LEMMA SubmitStep ==
  ASSUME IInv, NEW r \in Request, NEW s \in Session, NEW q \in QuestionId,
         Submit(r, s, q)
  PROVE  IInv'
<1> DEFINE j == [NoJob EXCEPT !.session = s, !.question = q]
<1>1. TypeOK
  BY DEF IInv
<1>2. NoVerdict \in Verdict
  BY DEF NoVerdict, Verdict
<1>3. j \in Job
  BY <1>2, EmptySeq DEF NoJob, Job
<1>4. Fits(j.questions, j.answers)
  BY LimitIsSix, Len(<<>>) = 0 DEF Fits, NoJob
<1>5. pc'[r] = "read" /\ job'[r] = j
  BY <1>1 DEF Submit, Goto, TypeOK
<1>6. HandlerOK(r)'
  <2>1. j.session = s /\ j.question = q /\ j.verdict.decision = ""
    BY DEF NoJob, NoVerdict
  <2>2. q # ""
    BY DEF Submit
  <2> QED BY <1>5, <2>1, <2>2 DEF HandlerOK, InStep
<1>7. sent' \in Nat /\ stray' \in Nat /\ faults' \in Nat
  <2>1. sent \in Nat /\ stray \in Nat /\ faults \in Nat
    BY <1>1 DEF TypeOK
  <2>2. sent' = sent + 1 /\ faults' = faults /\ stray' \in {stray, stray + 1}
    BY DEF Submit
  <2> QED BY <2>1, <2>2
<1> QED BY <1>3, <1>4, <1>6, <1>7, HandlerStep DEF Submit, Goto, Place

\* Back to idle: a rejected request, a handler that dies.
LEMMA IdleStep ==
  ASSUME IInv, NEW r \in Request, Reject(r) \/ Fault(r)
  PROVE  IInv'
<1>1. TypeOK
  BY DEF IInv
<1>2. NoVerdict \in Verdict
  BY DEF NoVerdict, Verdict
<1>3. NoJob \in Job
  BY <1>2, EmptySeq DEF NoJob, Job
<1>4. Fits(NoJob.questions, NoJob.answers)
  BY LimitIsSix, Len(<<>>) = 0 DEF Fits, NoJob
<1>5. pc'[r] = "idle" /\ job'[r] = NoJob
  BY <1>1 DEF Reject, Fault, Goto, TypeOK
<1>6. HandlerOK(r)'
  BY <1>5 DEF HandlerOK, InStep, NoJob, NoVerdict
<1>7. /\ sent' \in Nat /\ stray' \in Nat /\ faults' \in Nat
      /\ UNCHANGED <<tables, shown, acked>>
  <2>1. sent \in Nat /\ stray \in Nat /\ faults \in Nat
    BY <1>1 DEF TypeOK
  <2> QED BY <2>1 DEF Reject, Fault, client
<1> QED BY <1>3, <1>4, <1>6, <1>7, HandlerStep DEF Reject, Fault, Goto, Place

\* What a handler reads of an active session has room for an answer.
LEMMA ReadSessionStep ==
  ASSUME IInv, NEW r \in Request, ReadSession(r)
  PROVE  IInv'
<1> DEFINE s == job[r].session
           j == [job[r] EXCEPT !.questions = row[s].questions,
                               !.answers   = row[s].answers]
<1>1. TypeOK /\ HandlerOK(r) /\ Bounded /\ ActiveHasQuestion
  BY DEF IInv, HandlerInv, RowsInv
<1>2. s \in Session
  BY <1>1 DEF ReadSession, HandlerOK, InStep
<1>3. j \in Job
  <2>1. row[s].questions \in Seq(Question) /\ row[s].answers \in Seq(Answer)
    BY <1>1, <1>2, Typed
  <2>2. job[r] \in Job
    BY <1>1 DEF TypeOK
  <2> HIDE DEF s
  <2> QED BY <2>1, <2>2 DEF Job
<1>4. Fits(j.questions, j.answers)
  BY <1>1, <1>2 DEF Bounded, Job, TypeOK
<1>5. ~AtHardLimit(j.answers)
  BY <1>1, <1>2 DEF ReadSession, Accepts, ActiveHasQuestion, TypeOK, Job
<1>6. /\ pc' = [pc EXCEPT ![r] = "diagnose"] /\ job' = [job EXCEPT ![r] = j]
      /\ UNCHANGED <<tables, client>>
  BY DEF ReadSession, Goto
<1>7. pc'[r] = "diagnose" /\ job'[r] = j
  BY <1>1, <1>6 DEF TypeOK
<1>8. HandlerOK(r)'
  BY <1>1, <1>2, <1>3, <1>5, <1>7 DEF HandlerOK, InStep, ReadSession, Job, TypeOK
<1> QED BY <1>1, <1>3, <1>4, <1>6, <1>8, HandlerStep DEF Place, client, TypeOK

\* The answer is appended: there was room for it, so there still is none too
\* many; whether the session ends is decided on what the handler then holds.
LEMMA DiagnoseStep ==
  ASSUME IInv, NEW r \in Request, Diagnose(r)
  PROVE  IInv'
<1>1. TypeOK /\ HandlerOK(r) /\ Bounded
  BY DEF IInv, HandlerInv
<1>2. /\ pc[r] = "diagnose" /\ job[r].session \in Session
      /\ ~AtHardLimit(job[r].answers) /\ job[r].verdict.decision = ""
      /\ job[r].questions \in Seq(Question) /\ job[r].answers \in Seq(Answer)
      /\ job[r].question \in QuestionId
  <2>1. pc[r] = "diagnose"
    BY DEF Diagnose
  <2> QED BY <1>1, <2>1, Typed DEF HandlerOK, InStep
<1> DEFINE question == QuestionNamed(job[r].questions, job[r].question)
           answer(d) == [question |-> job[r].question, probe |-> ~question.base,
                         signal |-> d.signal]
           answers(d) == Append(job[r].answers, answer(d))
           j(d) == [job[r] EXCEPT !.answers = answers(d)]
<1>3. PICK d \in Diagnosis :
        /\ job' = [job EXCEPT ![r] = j(d)]
        /\ pc' = [pc EXCEPT ![r] =
                    IF AsksProbe(question, d, answers(d))
                    THEN "probe" ELSE AfterAnswer(job[r].questions, answers(d))]
        /\ UNCHANGED <<tables, client>>
  BY DEF Diagnose, Goto
<1>4. answer(d) \in Answer
  BY <1>2, SignalAssumption DEF Diagnosis, Answer
<1>5. answers(d) \in Seq(Answer) /\ Len(answers(d)) = Len(job[r].answers) + 1
  <2>1. \A a \in Answer : /\ Append(job[r].answers, a) \in Seq(Answer)
                          /\ Len(Append(job[r].answers, a)) = Len(job[r].answers) + 1
    <3>1. job[r].answers \in Seq(Answer)
      BY <1>2
    <3> QED BY <3>1, AppendProperties
  <2> QED BY <1>4, <2>1
<1>6. j(d) \in Job
  <2>1. job[r] \in Job
    BY <1>1 DEF TypeOK
  <2> HIDE DEF answers
  <2> QED BY <1>5, <2>1 DEF Job
<1>7. /\ Fits(j(d).questions, j(d).answers)
      /\ RoomForProbe(job[r].questions, answers(d))
  <2>1. /\ Len(job[r].questions) \in Nat /\ Len(job[r].answers) \in Nat
        /\ Len(job[r].questions) <= 4 + Len(job[r].answers)
        /\ Len(job[r].answers) < 6
    <3>1. Len(job[r].questions) \in Nat /\ Len(job[r].answers) \in Nat
      BY <1>1, Typed
    <3>2. Fits(job[r].questions, job[r].answers)
      BY <1>1 DEF Bounded
    <3>3. Len(job[r].questions) <= 4 + Len(job[r].answers)
      BY <3>2, LimitIsSix DEF Fits
    <3>4. ~(Len(job[r].answers) >= 6)
      BY <1>2, LimitIsSix DEF AtHardLimit
    <3> QED BY <3>1, <3>3, <3>4
  <2>2. j(d).questions = job[r].questions /\ j(d).answers = answers(d)
    BY <1>1 DEF TypeOK, Job
  <2>3. RoomForProbe(job[r].questions, answers(d))
    BY <1>5, <2>1, LimitIsSix DEF RoomForProbe
  <2> QED BY <1>5, <2>1, <2>2, <2>3, LimitIsSix DEF Fits
<1>8. pc'[r] \in {"probe", "report", "save"} /\ job'[r] = j(d)
  BY <1>1, <1>3 DEF TypeOK, AfterAnswer
<1>9. /\ pc'[r] = "report" => ShouldFinalize(job[r].questions, answers(d))
      /\ pc'[r] = "save" => ~ShouldFinalize(job[r].questions, answers(d))
  BY <1>1, <1>3 DEF TypeOK, AfterAnswer
<1>10. HandlerOK(r)'
  <2>1. /\ j(d).questions = job[r].questions /\ j(d).answers = answers(d)
        /\ j(d).session = job[r].session /\ j(d).question = job[r].question
        /\ j(d).verdict = job[r].verdict
    BY <1>1 DEF TypeOK, Job
  <2>2. job[r].question # ""
    BY <1>1, <1>2 DEF HandlerOK, InStep
  <2> HIDE DEF j, answers
  <2> QED BY <1>2, <1>7, <1>8, <1>9, <2>1, <2>2 DEF HandlerOK, InStep
<1>11. pc' = [pc EXCEPT ![r] = pc'[r]] /\ pc'[r] \in Place
  BY <1>1, <1>3, <1>8 DEF TypeOK, Place
<1> QED BY <1>1, <1>3, <1>6, <1>7, <1>10, <1>11, HandlerStep DEF client, TypeOK

\* A probe adds one question, which the answer just given has made room for.
LEMMA ProbeStep ==
  ASSUME IInv, NEW r \in Request, GenerateProbe(r) \/ NoProbe(r)
  PROVE  IInv'
<1>1. TypeOK /\ HandlerOK(r) /\ Bounded /\ pc[r] = "probe"
  BY DEF IInv, HandlerInv, GenerateProbe, NoProbe
<1>2. /\ job[r].session \in Session /\ job[r].question # ""
      /\ job[r].verdict.decision = "" /\ job[r] \in Job
      /\ RoomForProbe(job[r].questions, job[r].answers)
      /\ Fits(job[r].questions, job[r].answers)
  BY <1>1 DEF HandlerOK, InStep, Bounded, TypeOK
<1>3. PICK questions \in Seq(Question), next \in QuestionId \union {""} :
        /\ Fits(questions, job[r].answers)
        /\ job' = [job EXCEPT ![r] = [job[r] EXCEPT !.questions = questions, !.next = next]]
        /\ pc' = [pc EXCEPT ![r] = AfterAnswer(questions, job[r].answers)]
        /\ UNCHANGED <<tables, client>>
  <2>1. CASE GenerateProbe(r)
    <3>1. PICK id \in ProbeId :
            /\ job' = [job EXCEPT ![r].questions =
                          Append(job[r].questions, [id |-> id, base |-> FALSE]),
                        ![r].next = id]
            /\ pc' = [pc EXCEPT ![r] =
                        AfterAnswer(Append(job[r].questions, [id |-> id, base |-> FALSE]),
                                    job[r].answers)]
            /\ UNCHANGED <<tables, client>>
      BY <2>1 DEF GenerateProbe, Goto
    <3>2. id \in QuestionId /\ [id |-> id, base |-> FALSE] \in Question
      BY DEF QuestionId, Question
    <3>3. \A q \in Question :
            /\ Append(job[r].questions, q) \in Seq(Question)
            /\ Len(Append(job[r].questions, q)) = Len(job[r].questions) + 1
      BY <1>1, Typed, AppendProperties
    <3>4. Fits(Append(job[r].questions, [id |-> id, base |-> FALSE]), job[r].answers)
      <4> DEFINE probed == Append(job[r].questions, [id |-> id, base |-> FALSE])
      <4>1. Len(probed) = Len(job[r].questions) + 1
        BY <3>2, <3>3
      <4>2. Len(job[r].questions) \in Nat /\ Len(job[r].answers) \in Nat
        BY <1>1, Typed
      <4>3. /\ Len(job[r].questions) < 4 + Len(job[r].answers)
            /\ Len(job[r].answers) <= PaceConfig[SubmitPace].max_total
        BY <1>2, LimitIsSix DEF Fits, RoomForProbe
      <4> HIDE DEF probed
      <4>4. Fits(probed, job[r].answers)
        BY <4>1, <4>2, <4>3, LimitIsSix DEF Fits
      <4> QED BY <4>4 DEF probed
    <3> QED BY <1>1, <3>1, <3>2, <3>3, <3>4 DEF TypeOK
  <2>2. CASE NoProbe(r)
    <3>1. job[r] = [job[r] EXCEPT !.questions = job[r].questions, !.next = job[r].next]
      BY <1>2 DEF Job
    <3>2. job' = [job EXCEPT ![r] = job[r]]
      BY <1>1, <2>2 DEF NoProbe, TypeOK
    <3> QED BY <1>1, <1>2, <2>2, <3>1, <3>2, Typed DEF NoProbe, Goto
  <2> QED BY <2>1, <2>2
<1> DEFINE j == [job[r] EXCEPT !.questions = questions, !.next = next]
<1>4. /\ j \in Job /\ j.questions = questions /\ j.answers = job[r].answers
      /\ j.session = job[r].session /\ j.question = job[r].question
      /\ j.verdict = job[r].verdict
  BY <1>2 DEF Job
<1> HIDE DEF j
<1>5. /\ pc'[r] \in {"report", "save"} /\ job'[r] = j
      /\ pc'[r] = "report" <=> ShouldFinalize(questions, job[r].answers)
  BY <1>1, <1>3 DEF TypeOK, AfterAnswer, j
<1>6. HandlerOK(r)'
  BY <1>2, <1>4, <1>5 DEF HandlerOK, InStep
<1>7. pc' = [pc EXCEPT ![r] = pc'[r]] /\ pc'[r] \in Place /\ job' = [job EXCEPT ![r] = j]
  BY <1>1, <1>3, <1>5 DEF TypeOK, Place, j
<1> QED BY <1>1, <1>3, <1>4, <1>6, <1>7, HandlerStep DEF client, TypeOK

\* Any verdict is a verdict: of the LLM or computed.
LEMMA ComposeReportStep ==
  ASSUME IInv, NEW r \in Request, ComposeReport(r)
  PROVE  IInv'
<1>1. TypeOK /\ HandlerOK(r) /\ Bounded /\ pc[r] = "report"
  BY DEF IInv, HandlerInv, ComposeReport
<1>2. /\ job[r].session \in Session /\ job[r].question # "" /\ job[r] \in Job
      /\ ShouldFinalize(job[r].questions, job[r].answers)
      /\ Fits(job[r].questions, job[r].answers)
  BY <1>1 DEF HandlerOK, InStep, Bounded, TypeOK
<1>3. PICK v \in LLMVerdicts \union {FallbackVerdict(job[r].answers)} :
        /\ job' = [job EXCEPT ![r] = [job[r] EXCEPT !.verdict = v]]
        /\ pc' = [pc EXCEPT ![r] = IF HasConcept THEN "mastery" ELSE "history"]
        /\ UNCHANGED <<tables, client>>
  BY <1>1 DEF ComposeReport, Goto, TypeOK
<1>4. v \in Verdict /\ v.decision # ""
  <2>1. CASE v \in LLMVerdicts
    BY <2>1, DecisionAssumption, DecisionsNamed DEF LLMVerdicts, Verdict
  <2>2. CASE v = FallbackVerdict(job[r].answers)
    <3>1. ScoreReachesThreshold(job[r].answers) \in BOOLEAN
      BY DEF ScoreReachesThreshold
    <3> QED BY <2>2, <3>1 DEF FallbackVerdict, Verdict, Decision
  <2> QED BY <2>1, <2>2
<1> DEFINE j == [job[r] EXCEPT !.verdict = v]
<1>5. /\ j \in Job /\ j.questions = job[r].questions /\ j.answers = job[r].answers
      /\ j.session = job[r].session /\ j.question = job[r].question
      /\ j.verdict = v
  BY <1>2, <1>4 DEF Job
<1> HIDE DEF j
<1>6. /\ pc'[r] = IF HasConcept THEN "mastery" ELSE "history"
      /\ job'[r] = j
  BY <1>1, <1>3 DEF TypeOK, j
<1>7. HandlerOK(r)'
  BY <1>2, <1>4, <1>5, <1>6 DEF HandlerOK, InStep
<1>8. pc' = [pc EXCEPT ![r] = pc'[r]] /\ pc'[r] \in Place /\ job' = [job EXCEPT ![r] = j]
  BY <1>3, <1>6 DEF j, Place
<1> QED BY <1>1, <1>2, <1>3, <1>5, <1>7, <1>8, HandlerStep DEF client, TypeOK

-----------------------------------------------------------------------------
(* The writes of a finalisation *)

\* Writes of tables the properties of the rows do not read.
LEMMA LearnerTablesStep ==
  ASSUME IInv, NEW r \in Request,
         \/ UpsertConceptMastery(r) \/ UpsertStudentSkill(r)
         \/ SaveAdaptationSummary(r)
  PROVE  IInv'
<1>1. TypeOK /\ HandlerOK(r) /\ HandlerInv /\ Bounded /\ RowsInv
  BY DEF IInv, HandlerInv
<1>2. /\ UNCHANGED <<row, history, completed, job, client>>
      /\ <<pc[r], pc'[r]>> \in {<<"mastery", "skill">>, <<"skill", "history">>,
                               <<"adaptation", "save">>}
      /\ pc' = [pc EXCEPT ![r] = pc'[r]]
  BY <1>1 DEF UpsertConceptMastery, UpsertStudentSkill, SaveAdaptationSummary,
              Goto, TypeOK
<1>3. job[r].session \in Session /\ job[r].verdict \in Verdict
  BY <1>1, <1>2, Typed DEF HandlerOK, InStep
<1>4. TypeOK'
  <2>1. pc' \in [Request -> Place]
    BY <1>1, <1>2 DEF TypeOK, Place
  <2>2. seen' \in Nat
    <3>1. seen \in Nat /\ seen' \in {seen, seen + 1}
      BY <1>1 DEF TypeOK, UpsertConceptMastery, UpsertStudentSkill,
                  SaveAdaptationSummary
    <3> QED BY <3>1
  <2>3. skill' \in [session : Session \union {None}, mastered : BOOLEAN]
    <3>1. job[r].verdict.mastered \in BOOLEAN
      BY <1>3 DEF Verdict
    <3>2. skill' \in {skill, [session |-> job[r].session,
                             mastered |-> job[r].verdict.mastered]}
      BY DEF UpsertConceptMastery, UpsertStudentSkill, SaveAdaptationSummary
    <3>3. skill \in [session : Session \union {None}, mastered : BOOLEAN]
      BY <1>1 DEF TypeOK
    <3>4. [session |-> job[r].session, mastered |-> job[r].verdict.mastered]
            \in [session : Session \union {None}, mastered : BOOLEAN]
      BY <1>3, <3>1
    <3> QED BY <3>2, <3>3, <3>4
  <2>4. adaptation' \in Session \union {None}
    BY <1>1, <1>3 DEF TypeOK, UpsertConceptMastery, UpsertStudentSkill,
                      SaveAdaptationSummary
  <2> QED BY <1>1, <1>2, <2>1, <2>2, <2>3, <2>4 DEF TypeOK, client
<1>5. Bounded'
  BY <1>1, <1>2 DEF Bounded
<1>6. HandlerOK(r)'
  BY <1>1, <1>2 DEF HandlerOK, InStep
<1>7. HandlerInv'
  <2>1. \A o \in Request \ {r} : pc'[o] = pc[o] /\ job'[o] = job[o]
    BY <1>1, <1>2 DEF TypeOK
  <2>2. history' = history
    BY <1>2
  <2> QED BY <1>1, <1>6, <2>1, <2>2, RestOfHandlers
<1>8. RowsInv'
  BY <1>1, <1>2, RowsUnchanged
<1> QED BY <1>4, <1>5, <1>7, <1>8 DEF IInv

\* The evaluation goes on record, and what was on record stays there.
LEMMA WriteEvaluationStep ==
  ASSUME IInv, NEW r \in Request, WriteEvaluation(r)
  PROVE  IInv'
<1> DEFINE s == job[r].session
           record == [verdict |-> job[r].verdict,
                      questions_asked |-> Len(job[r].answers)]
           Record == [verdict : Verdict, questions_asked : Nat]
<1>1. TypeOK /\ HandlerOK(r) /\ HandlerInv /\ Bounded /\ RowsInv
  BY DEF IInv, HandlerInv
<1>2. /\ UNCHANGED <<row, seen, skill, adaptation, completed, job, client>>
      /\ pc[r] = "history" /\ pc' = [pc EXCEPT ![r] = "adaptation"]
      /\ history' = [history EXCEPT ![s] = Append(@, record)]
  BY DEF WriteEvaluation, Goto
<1>3. s \in Session /\ record \in Record
  BY <1>1, <1>2, Typed DEF HandlerOK, InStep
<1>4. /\ history'[s] = Append(history[s], record)
      /\ \A o \in Session \ {s} : history'[o] = history[o]
  BY <1>1, <1>2, <1>3 DEF TypeOK
<1>5. /\ history[s] \in Seq(Record) /\ history'[s] \in Seq(Record)
      /\ DOMAIN history[s] = 1..Len(history[s]) /\ Len(history[s]) \in Nat
      /\ DOMAIN history'[s] = 1..(Len(history[s]) + 1)
      /\ \A i \in 1..Len(history[s]) : history'[s][i] = history[s][i]
      /\ history'[s][Len(history[s]) + 1] = record
  <2>1. history[s] \in Seq(Record)
    BY <1>1, <1>3, Typed
  <2> HIDE DEF Record, record
  <2> QED BY <1>3, <1>4, <2>1, AppendProperties, LenProperties
<1>6. \A o \in Session : \A d, n :
        OnRecord(history[o], d, n) => OnRecord(history'[o], d, n)
  <2>1. ASSUME NEW d, NEW n, OnRecord(history[s], d, n)
        PROVE  OnRecord(history'[s], d, n)
    <3>1. PICK i \in DOMAIN history[s] :
             history[s][i].verdict.decision = d /\ history[s][i].questions_asked = n
      BY <2>1 DEF OnRecord
    <3>2. i \in DOMAIN history'[s] /\ history'[s][i] = history[s][i]
      BY <1>5, <3>1
    <3> QED BY <3>1, <3>2 DEF OnRecord
  <2> QED BY <1>4, <2>1
<1>7. OnRecord(history'[s], job[r].verdict.decision, Len(job[r].answers))
  <2>1. Len(history[s]) + 1 \in DOMAIN history'[s]
    BY <1>5
  <2>2. /\ history'[s][Len(history[s]) + 1].verdict = job[r].verdict
        /\ history'[s][Len(history[s]) + 1].questions_asked = Len(job[r].answers)
    BY <1>5
  <2> QED BY <2>1, <2>2 DEF OnRecord
<1>8. TypeOK'
  <2>1. history' \in [Session -> Seq(Record)]
    BY <1>1, <1>2, <1>3, <1>5, <1>4 DEF TypeOK
  <2>2. pc' \in [Request -> Place]
    BY <1>1, <1>2 DEF TypeOK, Place
  <2> QED BY <1>1, <1>2, <2>1, <2>2 DEF TypeOK, client
<1>9. Bounded'
  BY <1>1, <1>2 DEF Bounded
<1>10. HandlerOK(r)'
  <2>1. pc'[r] = "adaptation" /\ job'[r] = job[r]
    BY <1>1, <1>2 DEF TypeOK
  <2> QED BY <1>1, <1>2, <1>7, <2>1 DEF HandlerOK, InStep
<1>11. HandlerInv'
  <2>1. \A o \in Request \ {r} : pc'[o] = pc[o] /\ job'[o] = job[o]
    BY <1>1, <1>2 DEF TypeOK
  <2> QED BY <1>1, <1>6, <1>10, <2>1, RestOfHandlers
<1>12. RowsInv'
  <2>1. ActiveHasQuestion' /\ CompletedExhausted'
    BY <1>1, <1>2 DEF RowsInv, ActiveHasQuestion, CompletedExhausted
  <2>2. CompletedOnRecord'
    BY <1>1, <1>2, <1>6 DEF RowsInv, CompletedOnRecord
  <2>3. CompletionEarned'
    <3>1. SUFFICES ASSUME "evaluation" \in completed
                   PROVE  \E o \in Session : \E i \in DOMAIN history'[o] :
                            history'[o][i].verdict.decision \notin Withheld
      BY <1>2 DEF CompletionEarned
    <3>2. PICK o \in Session : \E i \in DOMAIN history[o] :
            history[o][i].verdict.decision \notin Withheld
      BY <1>1, <3>1 DEF RowsInv, CompletionEarned
    <3>3. PICK i \in DOMAIN history[o] :
            history[o][i].verdict.decision \notin Withheld
      BY <3>2
    <3>4. i \in DOMAIN history'[o] /\ history'[o][i] = history[o][i]
      <4>0. \A k \in DOMAIN history[s] :
              k \in DOMAIN history'[s] /\ history'[s][k] = history[s][k]
        <5> HIDE DEF s, record, Record
        <5> QED BY <1>5
      <4>1. CASE o = s
        <5> HIDE DEF s
        <5> QED BY <3>3, <4>0, <4>1
      <4>2. CASE o # s
        BY <1>4, <3>3, <4>2
      <4> QED BY <4>1, <4>2
    <3> QED BY <3>3, <3>4
  <2> QED BY <2>1, <2>2, <2>3 DEF RowsInv
<1> QED BY <1>8, <1>9, <1>11, <1>12 DEF IInv

\* The row becomes what the handler holds: an active session with something
\* left to ask, or a completed one whose evaluation is on record.
LEMMA SaveSessionStep ==
  ASSUME IInv, NEW r \in Request, SaveSession(r)
  PROVE  IInv'
<1> DEFINE s == job[r].session
           final == job[r].verdict.decision # ""
           next == IF LetsGoOn(job[r].verdict.decision) THEN "complete" ELSE "respond"
           stored == RowFrom(job[r])
<1>1. TypeOK /\ HandlerOK(r) /\ HandlerInv /\ Bounded /\ RowsInv
  BY DEF IInv, HandlerInv
<1>2. /\ UNCHANGED <<history, seen, skill, adaptation, completed, job, client>>
      /\ pc[r] = "save" /\ pc' = [pc EXCEPT ![r] = next]
      /\ row' = [row EXCEPT ![s] = stored]
  BY DEF SaveSession, Goto
<1>3. /\ s \in Session
      /\ final <=> ShouldFinalize(job[r].questions, job[r].answers)
      /\ final => OnRecord(history[s], job[r].verdict.decision, Len(job[r].answers))
      /\ Fits(job[r].questions, job[r].answers)
  BY <1>1, <1>2 DEF HandlerOK, InStep, Bounded
<1>4. stored \in Row
  BY <1>1, Typed DEF Row, RowFrom
<1>5. /\ row'[s].status = IF final THEN "completed" ELSE "active"
      /\ row'[s].questions = job[r].questions /\ row'[s].answers = job[r].answers
      /\ final => row'[s].report
      /\ row'[s].decision = job[r].verdict.decision
      /\ \A o \in Session \ {s} : row'[o] = row[o]
  <2>1. row'[s] = stored /\ \A o \in Session \ {s} : row'[o] = row[o]
    BY <1>1, <1>2, <1>3 DEF TypeOK
  <2>2. final => stored.report
    BY Zenon DEF RowFrom
  <2>3. /\ stored.status = (IF final THEN "completed" ELSE "active")
        /\ stored.questions = job[r].questions /\ stored.answers = job[r].answers
        /\ stored.decision = job[r].verdict.decision
    BY DEF RowFrom
  <2> HIDE DEF stored
  <2> QED BY <2>1, <2>2, <2>3
<1>6. pc'[r] = next
  BY <1>1, <1>2 DEF TypeOK
<1> HIDE DEF stored
<1>7. TypeOK'
  <2>1. row' \in [Session -> Row]
    BY <1>1, <1>2, <1>4 DEF TypeOK
  <2>2. pc' \in [Request -> Place]
    BY <1>1, <1>2 DEF TypeOK, Place
  <2> QED BY <1>1, <1>2, <2>1, <2>2 DEF TypeOK, client
<1>8. Bounded'
  BY <1>1, <1>2, <1>3, <1>5 DEF Bounded
<1>9. HandlerOK(r)'
  <2>1. job'[r] = job[r] /\ history' = history /\ next \in {"complete", "respond"}
    BY <1>2
  <2>2. next = "complete" => final /\ job[r].verdict.decision \notin Withheld
    BY DEF LetsGoOn
  <2>3. s \in Session /\ job[r].question # ""
    BY <1>1, <1>2 DEF HandlerOK, InStep
  <2> HIDE DEF next
  <2> QED BY <1>3, <1>6, <2>1, <2>2, <2>3 DEF HandlerOK, InStep
<1>10. HandlerInv'
  <2>1. \A o \in Request \ {r} : pc'[o] = pc[o] /\ job'[o] = job[o]
    BY <1>1, <1>2 DEF TypeOK
  <2>2. history' = history
    BY <1>2
  <2> QED BY <1>1, <1>9, <2>1, <2>2, RestOfHandlers
<1>11. RowsInv'
  <2>1. ActiveHasQuestion'
    <3>1. ~final => ~ShouldFinalize(job[r].questions, job[r].answers)
      BY <1>3
    <3>2. row'[s].status = "active" =>
            /\ Remaining(row'[s].questions, row'[s].answers) # {}
            /\ ~AtHardLimit(row'[s].answers)
      BY <1>5, <3>1 DEF ShouldFinalize
    <3> QED BY <1>1, <1>5, <3>2 DEF RowsInv, ActiveHasQuestion
  <2>2. CompletedExhausted'
    <3>1. Len(job[r].answers) \in Nat /\ Len(job[r].answers) <= 6
      BY <1>1, <1>3, Typed, LimitIsSix DEF Fits
    <3>2. row'[s].status = "completed" =>
            /\ ShouldFinalize(row'[s].questions, row'[s].answers)
            /\ Len(row'[s].answers) <= MaxQuestions
      <4>1. Len(job[r].answers) <= 7
        BY <3>1
      <4>2. row'[s].status = "completed" => final
        BY <1>5
      <4> QED BY <1>3, <1>5, <4>1, <4>2 DEF MaxQuestions
    <3> QED BY <1>1, <1>5, <3>2 DEF RowsInv, CompletedExhausted
  <2>3. CompletedOnRecord'
    <3>1. row'[s].status = "completed" =>
            /\ row'[s].report
            /\ OnRecord(history[s], row'[s].decision, Len(row'[s].answers))
      BY <1>3, <1>5
    <3> QED BY <1>1, <1>2, <1>5, <3>1 DEF RowsInv, CompletedOnRecord
  <2>4. CompletionEarned'
    BY <1>1, <1>2 DEF RowsInv, CompletionEarned
  <2> QED BY <2>1, <2>2, <2>3, <2>4 DEF RowsInv
<1> QED BY <1>7, <1>8, <1>10, <1>11 DEF IInv

\* The endpoint completes the module on the strength of the evaluation on record.
LEMMA CompleteModuleStep ==
  ASSUME IInv, NEW r \in Request, CompleteModule(r)
  PROVE  IInv'
<1>1. TypeOK /\ HandlerOK(r) /\ HandlerInv /\ Bounded /\ RowsInv
  BY DEF IInv, HandlerInv
<1>2. /\ UNCHANGED <<row, history, seen, skill, adaptation, job, client>>
      /\ pc[r] = "complete" /\ pc' = [pc EXCEPT ![r] = "respond"]
      /\ completed' \in {completed, completed \union {"evaluation"}}
  BY DEF CompleteModule, Goto
<1>3. TypeOK'
  <2>1. pc' \in [Request -> Place]
    BY <1>1, <1>2 DEF TypeOK, Place
  <2>2. completed' \subseteq Completer
    BY <1>1, <1>2 DEF TypeOK, Completer
  <2> QED BY <1>1, <1>2, <2>1, <2>2 DEF TypeOK, client
<1>4. Bounded'
  BY <1>1, <1>2 DEF Bounded
<1>5. HandlerInv'
  <2>1. \A o \in Request \ {r} : pc'[o] = pc[o] /\ job'[o] = job[o]
    BY <1>1, <1>2 DEF TypeOK
  <2>2. history' = history /\ pc'[r] = "respond" /\ job'[r] = job[r]
    BY <1>1, <1>2 DEF TypeOK
  <2>3. HandlerOK(r)'
    BY <1>1, <1>2, <2>2 DEF HandlerOK, InStep
  <2> QED BY <1>1, <2>1, <2>2, <2>3, RestOfHandlers
<1>6. RowsInv'
  <2>1. ActiveHasQuestion' /\ CompletedExhausted' /\ CompletedOnRecord'
    BY <1>1, <1>2 DEF RowsInv, ActiveHasQuestion, CompletedExhausted,
                      CompletedOnRecord
  <2>2. CompletionEarned'
    <3>1. /\ job[r].session \in Session
          /\ job[r].verdict.decision \notin Withheld
          /\ OnRecord(history[job[r].session], job[r].verdict.decision,
                      Len(job[r].answers))
      BY <1>1, <1>2 DEF HandlerOK, InStep
    <3>2. PICK i \in DOMAIN history[job[r].session] :
            history[job[r].session][i].verdict.decision \notin Withheld
      BY <3>1 DEF OnRecord
    <3> QED BY <1>2, <3>1, <3>2 DEF CompletionEarned
  <2> QED BY <2>1, <2>2 DEF RowsInv
<1> QED BY <1>3, <1>4, <1>5, <1>6 DEF IInv

\* What completes the module otherwise touches nothing the others read.
LEMMA OtherwiseStep ==
  ASSUME IInv, MarkComplete \/ SyncCompletes
  PROVE  IInv'
<1>1. TypeOK /\ HandlerInv /\ Bounded /\ RowsInv
  BY DEF IInv
<1>2. /\ completed' = completed \union {"other"}
      /\ UNCHANGED <<row, history, seen, skill, adaptation, pc, job, client>>
  BY DEF MarkComplete, SyncCompletes, CompletedOtherwise, handler
<1>3. TypeOK' /\ Bounded' /\ HandlerInv'
  BY <1>1, <1>2 DEF TypeOK, Completer, Bounded, HandlerInv, HandlerOK, client
<1>4. ActiveHasQuestion' /\ CompletedExhausted' /\ CompletedOnRecord'
  BY <1>1, <1>2 DEF RowsInv, ActiveHasQuestion, CompletedExhausted, CompletedOnRecord
<1>5. CompletionEarned'
  <2>1. "evaluation" \in completed' => "evaluation" \in completed
    BY <1>2
  <2> QED BY <1>1, <1>2, <2>1 DEF RowsInv, CompletionEarned
<1> QED BY <1>3, <1>4, <1>5 DEF IInv, RowsInv

-----------------------------------------------------------------------------
(* What the student sees *)

\* A response without a report puts a question, since one remains.
LEMMA RespondStep ==
  ASSUME IInv, NEW r \in Request, Respond(r)
  PROVE  IInv'
<1> DEFINE j == job[r]
<1>1. TypeOK /\ HandlerOK(r) /\ HandlerInv /\ Bounded /\ RowsInv
  BY DEF IInv, HandlerInv
<1>2. /\ UNCHANGED tables /\ UNCHANGED <<sent, stray, faults>>
      /\ pc[r] = "respond" /\ pc' = [pc EXCEPT ![r] = "idle"]
      /\ job' = [job EXCEPT ![r] = NoJob]
      /\ shown' = [shown EXCEPT ![j.session] = NextQuestion(r)]
      /\ acked' = [acked EXCEPT ![j.session] = @ + 1]
  BY DEF Respond, Goto
<1>3. /\ j.session \in Session /\ Fits(j.questions, j.answers)
      /\ j.verdict.decision = "" => ~ShouldFinalize(j.questions, j.answers)
      /\ j.questions \in Seq(Question) /\ j.next \in QuestionId \union {""}
      /\ Len(j.questions) \in Nat /\ Len(j.answers) \in Nat
  BY <1>1, <1>2, Typed DEF HandlerOK, InStep, Bounded
<1>4. NextQuestion(r) \in QuestionId \union {""}
  <2> DEFINE left == Remaining(j.questions, j.answers)
  <2>1. SUFFICES ASSUME j.verdict.decision = "", j.next = ""
                 PROVE  NextQuestion(r) \in QuestionId
    BY <1>3 DEF NextQuestion
  <2>2. left # {}
    BY <1>3, <2>1 DEF ShouldFinalize
  <2>3. Len(j.questions) <= 10
    <3>1. Len(j.questions) <= 4 + Len(j.answers)
      BY <1>3, LimitIsSix DEF Fits
    <3>2. Len(j.answers) <= 6
      BY <1>3, LimitIsSix DEF Fits
    <3>3. \A m, k \in Nat : m <= 4 + k /\ k <= 6 => m <= 10
      OBVIOUS
    <3> HIDE DEF j
    <3> QED BY <1>3, <3>1, <3>2, <3>3
  <2>4. left \subseteq 1..Len(j.questions)
    <3>1. DOMAIN j.questions = 1..Len(j.questions)
      BY <1>3, LenProperties
    <3> QED BY <3>1 DEF Remaining
  <2>5. left \subseteq 1..10
    <3>1. \A m \in Nat : m <= 10 => 1..m \subseteq 1..10
      OBVIOUS
    <3> HIDE DEF left, j
    <3> QED BY <1>3, <2>3, <2>4, <3>1
  <2> HIDE DEF left
  <2>6. First(left) \in 1..Len(j.questions)
    BY <2>2, <2>4, <2>5, FirstIsIn
  <2>7. j.questions[First(left)] \in Question
    BY <1>3, <2>6, ElementOfSeq
  <2> QED BY <2>1, <2>7 DEF NextQuestion, Question, left
<1>5. /\ pc'[r] = "idle" /\ job'[r] = NoJob
      /\ \A o \in Request \ {r} : pc'[o] = pc[o] /\ job'[o] = job[o]
  BY <1>1, <1>2 DEF TypeOK
<1>6. NoVerdict \in Verdict
  BY DEF NoVerdict, Verdict
<1>7. NoJob \in Job
  BY <1>6, EmptySeq DEF NoJob, Job
<1>8. TypeOK'
  <2>1. pc' \in [Request -> Place] /\ job' \in [Request -> Job]
    BY <1>1, <1>2, <1>7 DEF TypeOK, Place
  <2>2. shown' \in [Session -> QuestionId \union {""}]
    BY <1>1, <1>2, <1>4 DEF TypeOK
  <2>3. acked' \in [Session -> Nat]
    <3>1. acked \in [Session -> Nat] /\ acked[j.session] \in Nat
      BY <1>1, <1>3 DEF TypeOK
    <3>2. acked[j.session] + 1 \in Nat
      BY <3>1
    <3> QED BY <1>2, <3>1, <3>2
  <2> QED BY <1>1, <1>2, <2>1, <2>2, <2>3 DEF TypeOK, tables
<1>9. Bounded'
  <2>1. Fits(NoJob.questions, NoJob.answers)
    BY LimitIsSix, Len(<<>>) = 0 DEF Fits, NoJob
  <2> QED BY <1>1, <1>2, <1>5, <2>1 DEF Bounded, tables
<1>10. HandlerInv'
  <2>1. HandlerOK(r)'
    BY <1>5 DEF HandlerOK, InStep
  <2>2. history' = history
    BY <1>2 DEF tables
  <2> QED BY <1>1, <1>5, <2>1, <2>2, RestOfHandlers
<1>11. RowsInv'
  BY <1>1, <1>2, RowsUnchanged DEF tables
<1> QED BY <1>8, <1>9, <1>10, <1>11 DEF IInv

\* A session starts with questions to ask and no answers.
LEMMA StartSessionStep ==
  ASSUME IInv, NEW s \in Session, StartSession(s)
  PROVE  IInv'
<1>1. TypeOK /\ HandlerInv /\ Bounded /\ RowsInv
  BY DEF IInv
<1>2. PICK n \in 1..PaceConfig[CoursePace].base_q :
        row' = [row EXCEPT ![s] =
                  [NoRow EXCEPT !.status = "active",
                                !.questions = [i \in 1..n |->
                                    [id |-> BaseId[i], base |-> TRUE]]]]
  BY DEF StartSession
<1> DEFINE questions == [i \in 1..n |-> [id |-> BaseId[i], base |-> TRUE]]
           stored == [NoRow EXCEPT !.status = "active", !.questions = questions]
<1>3. /\ UNCHANGED <<history, seen, skill, adaptation, completed, handler>>
      /\ UNCHANGED <<acked, sent, stray, faults>>
      /\ shown' = [shown EXCEPT ![s] = BaseId[1]]
  BY DEF StartSession
<1>4. n \in 1..4
  BY PaceAssumption DEF PaceConfig
<1>5. /\ questions \in Seq(Question) /\ Len(questions) = n
      /\ questions[1].id = BaseId[1] /\ DOMAIN questions = 1..n
  <2>1. \A i \in 1..n : [id |-> BaseId[i], base |-> TRUE] \in Question
    BY <1>4 DEF Question, QuestionId
  <2> QED BY <1>4, <2>1
<1>6. /\ stored.status = "active" /\ stored.questions = questions
      /\ stored.answers = <<>> /\ stored \in Row
  <2> HIDE DEF questions
  <2> QED BY <1>5, EmptySeq DEF NoRow, Row
<1>7. row' \in [Session -> Row] /\ row'[s] = stored
      /\ \A o \in Session \ {s} : row'[o] = row[o]
  BY <1>1, <1>2, <1>6 DEF TypeOK
<1> HIDE DEF questions, stored
<1>8. TypeOK'
  <2>1. BaseId[1] \in QuestionId
    BY DEF QuestionId
  <2>2. shown' \in [Session -> QuestionId \union {""}]
    BY <1>1, <1>3, <2>1 DEF TypeOK
  <2> QED BY <1>1, <1>3, <1>7, <2>2 DEF TypeOK, handler
<1>9. Bounded'
  <2>1. Fits(stored.questions, stored.answers)
    BY <1>4, <1>5, <1>6, LimitIsSix, Len(<<>>) = 0 DEF Fits
  <2> QED BY <1>1, <1>3, <1>7, <2>1 DEF Bounded, handler
<1>10. HandlerInv'
  BY <1>1, <1>3 DEF HandlerInv, HandlerOK, handler
<1>11. RowsInv'
  <2>1. ActiveHasQuestion'
    <3>1. 1 \in Remaining(questions, <<>>)
      BY <1>4, <1>5 DEF Remaining, AnsweredIds
    <3>2. ~AtHardLimit(<<>>)
      BY LimitIsSix, Len(<<>>) = 0 DEF AtHardLimit
    <3> QED BY <1>1, <1>6, <1>7, <3>1, <3>2 DEF RowsInv, ActiveHasQuestion
  <2>2. CompletedExhausted'
    BY <1>1, <1>6, <1>7 DEF RowsInv, CompletedExhausted
  <2>3. CompletedOnRecord'
    BY <1>1, <1>3, <1>6, <1>7 DEF RowsInv, CompletedOnRecord
  <2>4. CompletionEarned'
    BY <1>1, <1>3 DEF RowsInv, CompletionEarned
  <2> QED BY <2>1, <2>2, <2>3, <2>4 DEF RowsInv
<1> QED BY <1>8, <1>9, <1>10, <1>11 DEF IInv

\* The invariant reads nothing but the variables.
LEMMA StutterStep ==
  ASSUME IInv, UNCHANGED vars
  PROVE  IInv'
<1> USE DEF vars, tables, handler, client
<1>1. TypeOK' /\ Bounded' /\ HandlerInv'
  BY DEF IInv, TypeOK, Bounded, HandlerInv, HandlerOK
<1>2. RowsInv'
  BY RowsUnchanged DEF IInv
<1> QED BY <1>1, <1>2 DEF IInv

-----------------------------------------------------------------------------
(* The theorems *)

\* Every action of every handler, start and fault keeps the invariant.
LEMMA Inductive == IInv /\ [Next]_vars => IInv'
<1> SUFFICES ASSUME IInv, [Next]_vars PROVE IInv'
  OBVIOUS
<1>1. CASE \E s \in Session : StartSession(s)
  BY <1>1, StartSessionStep
<1>2. CASE \E r \in Request, s \in Session, q \in QuestionId : Submit(r, s, q)
  BY <1>2, SubmitStep
<1>3. CASE \E r \in Request : Fault(r)
  BY <1>3, IdleStep
<1>4. ASSUME NEW r \in Request, Handle(r) PROVE IInv'
  BY <1>4, ReadSessionStep, IdleStep, DiagnoseStep, ProbeStep,
     ComposeReportStep, LearnerTablesStep, WriteEvaluationStep,
     SaveSessionStep, CompleteModuleStep, RespondStep DEF Handle
<1>5. CASE MarkComplete \/ SyncCompletes
  BY <1>5, OtherwiseStep
<1>6. CASE UNCHANGED vars
  BY <1>6, StutterStep
<1> QED BY <1>1, <1>2, <1>3, <1>4, <1>5, <1>6 DEF Next

\* Everything in the invariant holds in every reachable state, however many
\* handlers, strays and faults there are.
THEOREM Invariance == Spec => []IInv
<1> QED BY InitIInv, Inductive, PTL DEF Spec

\* Tables, handlers and client hold values of their types.
THEOREM TypeCorrect == Spec => []TypeOK
<1>1. IInv => TypeOK
  BY DEF IInv
<1> QED BY <1>1, Invariance, PTL

\* No stored session is stuck: an active one has a question left to answer.
THEOREM NeverStuck == Spec => []ActiveHasQuestion
<1>1. IInv => ActiveHasQuestion
  BY DEF IInv, RowsInv
<1> QED BY <1>1, Invariance, PTL

\* A report is given only once the questions or the limit are exhausted.
THEOREM ReportedWhenExhausted == Spec => []CompletedExhausted
<1>1. IInv => CompletedExhausted
  BY DEF IInv, RowsInv
<1> QED BY <1>1, Invariance, PTL

\* A completed session has its verdict in the evaluation history.
THEOREM ReportsOnRecord == Spec => []CompletedOnRecord
<1>1. IInv => CompletedOnRecord
  BY DEF IInv, RowsInv
<1> QED BY <1>1, Invariance, PTL

\* The endpoint that takes answers completes the module only on an evaluation on
\* record that lets the student go on, however many answers are handled at once
\* and whatever else completes it (evaluation_submit_answer).
THEOREM CompletionIsEarned == Spec => []CompletionEarned
<1>1. IInv => CompletionEarned
  BY DEF IInv, RowsInv
<1> QED BY <1>1, Invariance, PTL

\* What a handler relies on between two awaits holds.
THEOREM HandlersInStep == Spec => []HandlerInv
<1>1. IInv => HandlerInv
  BY DEF IInv
<1> QED BY <1>1, Invariance, PTL

\* Sessions stay within their questions and answers.
THEOREM SessionsBounded == Spec => []Bounded
<1>1. IInv => Bounded
  BY DEF IInv
<1> QED BY <1>1, Invariance, PTL


-----------------------------------------------------------------------------
(* One request at a time *)

\* Places at which the session has been read and not yet written back, ...
Working  == {"diagnose", "probe", "report", "mastery", "skill", "history", "adaptation", "save"}

\* ... and those of them at which the answer is in what will be written.
Answered == Working \ {"diagnose"}

\* One handler is at work, or none.
Alone == \A r, o \in Request : pc[r] # "idle" /\ pc[o] # "idle" => r = o

\* The skill and the newest record say what the handler has concluded.
OnSkill(r) == HasConcept => skill = [session |-> job[r].session, mastered |-> job[r].verdict.mastered]

Newest(records) == records[Len(records)].verdict

OnNewest(r) ==
    /\ history[job[r].session] # <<>>
    /\ Newest(history[job[r].session]) = job[r].verdict

\* The verdict of a finalisation is on record, the session not yet stored.
Recording(r) == pc[r] \in {"adaptation", "save"} /\ job[r].verdict.decision # ""

\* What a handler that is alone knows of its session: what it has read is still
\* there, and what it will write has one answer more.
HandlerRow(r) ==
    /\ pc[r] = "idle" => job[r] = NoJob
    /\ pc[r] \in Working => row[job[r].session].status = "active"
    /\ pc[r] = "diagnose" => job[r].answers = row[job[r].session].answers
    /\ pc[r] \in Answered =>
         \E a \in Answer : job[r].answers = Append(row[job[r].session].answers, a)
    /\ pc[r] \in {"complete", "respond"}
         => acked[job[r].session] < Len(row[job[r].session].answers)
    /\ pc[r] = "history" => OnSkill(r)
    /\ Recording(r) => OnSkill(r) /\ OnNewest(r)

\* A session has been recorded once for each fault, and once more when its
\* report is there or on its way.
RecordsOK(s) ==
    /\ Len(history[s]) <= faults + 1
    /\ \/ Len(history[s]) <= faults
       \/ row[s].status = "completed"
       \/ \E r \in Request : job[r].session = s /\ Recording(r)

\* What the tables say of one session.
SessionRow(s) ==
    /\ row[s].status = "absent" => row[s].answers = <<>>
    /\ acked[s] <= Len(row[s].answers)
    /\ row[s].status = "completed" => history[s] # <<>>
    /\ row[s].status = "completed" /\ skill.session = s =>
         /\ Newest(history[s]).mastered = skill.mastered
         /\ Newest(history[s]).decision = row[s].decision
    /\ skill.session = s => HasConcept

OneInv ==
    /\ IInv /\ Alone
    /\ \A r \in Request : HandlerRow(r)
    /\ \A s \in Session : SessionRow(s) /\ RecordsOK(s)

\* A session that is neither completed nor being recorded has been recorded once
\* for each fault at most.
LEMMA NotYetRecorded ==
  ASSUME OneInv, NEW s \in Session, \A r \in Request : ~Recording(r)
  PROVE  Len(history[s]) <= faults \/ row[s].status = "completed"
BY DEF OneInv, RecordsOK

\* A request is taken when no other is being handled.
LEMMA SubmittedAlone ==
  ASSUME MaxInFlight = 1, OneInv, NEW r \in Request, NEW s \in Session, NEW q \in QuestionId,
         Submit(r, s, q), NEW o \in Request
  PROVE  pc[o] = "idle"
<1> SUFFICES ASSUME pc[o] # "idle" PROVE FALSE
  OBVIOUS
<1>1. InFlight = {o}
  BY DEF OneInv, Alone, InFlight
<1>2. Cardinality({o}) = 1
  BY FS_Singleton
<1>3. Cardinality(InFlight) < 1
  BY DEF Submit
<1> QED BY <1>1, <1>2, <1>3

\* Beside a handler at work the others are idle, and have nothing in memory.
LEMMA OthersIdle ==
  ASSUME OneInv, NEW r \in Request, pc[r] # "idle", NEW o \in Request \ {r}
  PROVE  pc[o] = "idle" /\ job[o] = NoJob
BY DEF OneInv, Alone, HandlerRow

\* A step of the only handler has to be right for that handler and the sessions.
LEMMA OneStep ==
  ASSUME IInv', NEW r \in Request,
         \A o \in Request \ {r} : pc'[o] = "idle" /\ job'[o] = NoJob,
         HandlerRow(r)', \A s \in Session : SessionRow(s)' /\ RecordsOK(s)'
  PROVE  OneInv'
<1>1. \A o \in Request \ {r} : HandlerRow(o)'
  BY DEF HandlerRow, Working, Answered, Recording
<1>2. Alone'
  BY DEF Alone
<1> QED BY <1>1, <1>2 DEF OneInv

\* Where the tables a session shows stay, what they say does.
LEMMA SessionsKept ==
  ASSUME NEW s \in Session, SessionRow(s), UNCHANGED <<row, history, acked, skill>>
  PROVE  SessionRow(s)'
BY DEF SessionRow, Newest

LEMMA RecordsKept ==
  ASSUME OneInv, NEW s \in Session, UNCHANGED <<row, history, faults>>,
         \A r \in Request : ~Recording(r)
  PROVE  RecordsOK(s)'
<1>1. Len(history[s]) <= faults \/ row[s].status = "completed"
  BY NotYetRecorded
<1>2. Len(history[s]) <= faults + 1
  BY DEF OneInv, RecordsOK
<1> QED BY <1>1, <1>2 DEF RecordsOK

LEMMA StartsAlone ==
  ASSUME MaxInFlight = 1, OneInv, NEW r \in Request, NEW s \in Session, NEW q \in QuestionId,
         Submit(r, s, q)
  PROVE  OneInv'
<1>1. TypeOK /\ \A o \in Request : pc[o] = "idle" /\ job[o] = NoJob
  BY SubmittedAlone DEF OneInv, IInv, HandlerRow
<1>2. IInv'
  BY SubmitStep DEF OneInv
<1>3. /\ pc'[r] = "read" /\ \A o \in Request \ {r} : pc'[o] = pc[o] /\ job'[o] = job[o]
      /\ UNCHANGED <<row, history, acked, skill, faults>>
  BY <1>1 DEF Submit, Goto, TypeOK, tables
<1>4. HandlerRow(r)'
  BY <1>3 DEF HandlerRow, Working, Answered, Recording
<1>5. \A o \in Request : ~Recording(o)
  BY <1>1 DEF Recording
<1>6. \A t \in Session : SessionRow(t)' /\ RecordsOK(t)'
  BY <1>3, <1>5, SessionsKept, RecordsKept DEF OneInv
<1> QED BY <1>1, <1>2, <1>3, <1>4, <1>6, OneStep

LEMMA OpensAlone ==
  ASSUME OneInv, NEW s \in Session, StartSession(s)
  PROVE  OneInv'
<1>1. TypeOK /\ \A r \in Request : HandlerRow(r) /\ HandlerOK(r)
  BY DEF OneInv, IInv, HandlerInv
<1>2. IInv'
  BY StartSessionStep DEF OneInv
<1>3. UNCHANGED <<history, skill, pc, job, acked, faults>>
  BY DEF StartSession, handler
<1>4. PICK questions : row' = [row EXCEPT ![s] =
            [NoRow EXCEPT !.status = "active", !.questions = questions]]
  BY DEF StartSession
<1>5. /\ row[s].status = "absent" /\ row'[s].status = "active" /\ row'[s].answers = <<>>
      /\ \A t \in Session : t # s => row'[t] = row[t]
      /\ row[s].answers = <<>>
  BY <1>1, <1>4 DEF StartSession, OneInv, SessionRow, TypeOK, NoRow
<1>6. ASSUME NEW r \in Request
      PROVE  HandlerRow(r)'
  <2>1. pc[r] # "idle" => job[r].session \in Session
    BY <1>1 DEF HandlerOK, InStep
  <2>2. job[r].session = s => pc[r] \notin Working
    BY <1>1, <1>5 DEF HandlerRow
  <2>3. pc[r] # "idle" => row'[job[r].session].answers = row[job[r].session].answers
    BY <1>5, <2>1
  <2>4. pc[r] \in Working => row'[job[r].session].status = "active"
    BY <1>1, <1>5, <2>1, <2>2 DEF HandlerRow, Working
  <2> QED BY <1>1, <1>3, <2>3, <2>4 DEF HandlerRow, Working, Answered, Recording, OnSkill,
                                       OnNewest, Newest
<1>7. ASSUME NEW t \in Session
      PROVE  SessionRow(t)' /\ RecordsOK(t)'
  <2>1. SessionRow(t) /\ RecordsOK(t)
    BY DEF OneInv
  <2>2. row'[t].answers = row[t].answers
    BY <1>5
  <2>3. row'[t].status \in {"absent", "completed"} => row'[t] = row[t]
    BY <1>5
  <2>4. row[t].status = "completed" => row'[t] = row[t]
    BY <1>5
  <2>5. SessionRow(t)'
    BY <1>3, <2>1, <2>2, <2>3 DEF SessionRow, Newest
  <2>6. RecordsOK(t)'
    BY <1>3, <2>1, <2>4 DEF RecordsOK, Recording
  <2> QED BY <2>5, <2>6
<1> QED BY <1>2, <1>3, <1>6, <1>7 DEF OneInv, Alone

\* Steps in the memory of the handler, before its verdict is recorded.
LEMMA ThinksAlone ==
  ASSUME OneInv, NEW r \in Request,
         \/ ReadSession(r) \/ Diagnose(r) \/ GenerateProbe(r) \/ NoProbe(r) \/ ComposeReport(r)
         \/ Reject(r)
  PROVE  OneInv'
<1>1. TypeOK /\ HandlerRow(r) /\ HandlerOK(r)
  BY DEF OneInv, IInv, HandlerInv
<1>2. IInv'
  BY ReadSessionStep, DiagnoseStep, ProbeStep, ComposeReportStep, IdleStep DEF OneInv
<1>3. /\ pc[r] \in {"read", "diagnose", "probe", "report"}
      /\ \A o \in Request \ {r} : pc'[o] = pc[o] /\ job'[o] = job[o]
      /\ UNCHANGED <<row, history, acked, skill, faults>>
  BY <1>1 DEF ReadSession, Diagnose, GenerateProbe, NoProbe, ComposeReport, Reject, Goto,
              TypeOK, tables, client
<1>4. \A o \in Request : ~Recording(o)
  BY <1>3, OthersIdle DEF Recording
<1>5. \A t \in Session : SessionRow(t)' /\ RecordsOK(t)'
  BY <1>3, <1>4, SessionsKept, RecordsKept DEF OneInv
<1>6. HandlerRow(r)'
  <2>0. job[r].verdict.decision = ""
    BY <1>1, <1>3 DEF HandlerOK, InStep
  <2> job[r] \in Job /\ pc[r] \in Place
    BY <1>1 DEF TypeOK
  <2>1. CASE Reject(r)
    <3>1. pc'[r] = "idle" /\ job'[r] = NoJob
      BY <1>1, <2>1 DEF Reject, Goto, TypeOK
    <3> QED BY <3>1 DEF HandlerRow, Working, Answered, Recording
  <2>2. CASE ReadSession(r)
    <3>1. /\ pc'[r] = "diagnose" /\ job'[r].answers = row[job[r].session].answers
          /\ job'[r].session = job[r].session
      BY <1>1, <2>2 DEF ReadSession, Goto, TypeOK, Job
    <3>2. row[job[r].session].status = "active"
      BY <2>2 DEF ReadSession, Accepts
    <3> QED BY <1>3, <3>1, <3>2 DEF HandlerRow, Working, Answered, Recording
  <2>3. CASE Diagnose(r)
    <3> DEFINE question == QuestionNamed(job[r].questions, job[r].question)
               answer(d) == [question |-> job[r].question, probe |-> ~question.base,
                             signal |-> d.signal]
    <3>1. pc[r] = "diagnose" /\ job[r].question \in QuestionId
      BY <1>1, <2>3 DEF Diagnose, HandlerOK, InStep, Job
    <3>2. PICK d \in Diagnosis :
            job' = [job EXCEPT ![r].answers = Append(job[r].answers, answer(d))]
      BY <2>3 DEF Diagnose
    <3>3. answer(d) \in Answer
      BY <3>1, SignalAssumption DEF Diagnosis, Answer
    <3> HIDE DEF answer
    <3>4. /\ job'[r].answers = Append(job[r].answers, answer(d))
          /\ job'[r].session = job[r].session /\ job'[r].verdict = job[r].verdict
      BY <1>1, <3>2 DEF TypeOK, Job
    <3>5. pc'[r] \in {"probe", "report", "save"}
      BY <1>1, <2>3 DEF Diagnose, Goto, AfterAnswer, TypeOK
    <3> QED BY <1>1, <1>3, <2>0, <3>1, <3>3, <3>4, <3>5
            DEF HandlerRow, Working, Answered, Recording
  <2>4. CASE GenerateProbe(r) \/ NoProbe(r) \/ ComposeReport(r)
    <3>1. CASE GenerateProbe(r)
      <4>1. PICK id \in ProbeId :
              /\ job' = [job EXCEPT ![r].questions =
                            Append(job[r].questions, [id |-> id, base |-> FALSE]),
                          ![r].next = id]
              /\ pc' = [pc EXCEPT ![r] =
                          AfterAnswer(Append(job[r].questions, [id |-> id, base |-> FALSE]),
                                      job[r].answers)]
        BY <3>1 DEF GenerateProbe, Goto
      <4>2. pc[r] = "probe" /\ pc'[r] \in {"report", "save"}
        BY <1>1, <3>1, <4>1 DEF GenerateProbe, AfterAnswer, TypeOK
      <4>3. /\ job'[r].answers = job[r].answers /\ job'[r].session = job[r].session
            /\ job'[r].verdict = job[r].verdict
        BY <1>1, <4>1 DEF TypeOK, Job
      <4> QED BY <1>1, <1>3, <2>0, <4>2, <4>3 DEF HandlerRow, Working, Answered, Recording
    <3>2. CASE NoProbe(r)
      <4>1. job' = job /\ pc[r] = "probe" /\ pc'[r] \in {"report", "save"}
        BY <1>1, <3>2 DEF NoProbe, Goto, AfterAnswer, TypeOK
      <4> QED BY <1>1, <1>3, <2>0, <4>1 DEF HandlerRow, Working, Answered, Recording
    <3>3. CASE ComposeReport(r)
      <4>1. PICK v : job' = [job EXCEPT ![r].verdict = v]
        BY <3>3 DEF ComposeReport
      <4>2. job'[r].answers = job[r].answers /\ job'[r].session = job[r].session
        BY <1>1, <4>1 DEF TypeOK, Job
      <4>3. pc[r] = "report" /\ pc'[r] = IF HasConcept THEN "mastery" ELSE "history"
        BY <1>1, <3>3 DEF ComposeReport, Goto, TypeOK
      <4> QED BY <1>1, <1>3, <4>2, <4>3 DEF HandlerRow, Working, Answered, Recording, OnSkill
    <3> QED BY <2>4, <3>1, <3>2, <3>3
  <2> QED BY <2>1, <2>2, <2>3, <2>4
<1>7. \A o \in Request \ {r} : pc'[o] = "idle" /\ job'[o] = NoJob
  BY <1>3, OthersIdle
<1> QED BY <1>2, <1>5, <1>6, <1>7, OneStep

\* The writes of a finalisation, up to the last before the session is stored.
LEMMA WritesAlone ==
  ASSUME OneInv, NEW r \in Request,
         \/ UpsertConceptMastery(r) \/ UpsertStudentSkill(r) \/ SaveAdaptationSummary(r)
  PROVE  OneInv'
<1>1. TypeOK /\ HandlerRow(r) /\ HandlerOK(r)
  BY DEF OneInv, IInv, HandlerInv
<1>2. IInv'
  BY LearnerTablesStep DEF OneInv
<1>3. /\ <<pc[r], pc'[r]>> \in {<<"mastery", "skill">>, <<"skill", "history">>,
                               <<"adaptation", "save">>}
      /\ \A o \in Request \ {r} : pc'[o] = pc[o]
      /\ UNCHANGED <<job, row, history, acked, faults>>
      /\ skill' = IF pc[r] = "skill"
                  THEN [session |-> job[r].session, mastered |-> job[r].verdict.mastered]
                  ELSE skill
  BY <1>1 DEF UpsertConceptMastery, UpsertStudentSkill, SaveAdaptationSummary, Goto, TypeOK, client
<1>4. /\ job[r].session \in Session /\ row[job[r].session].status = "active"
      /\ job[r].verdict.decision # ""
  BY <1>1, <1>3 DEF HandlerOK, InStep, HandlerRow, Working
<1>5. HandlerRow(r)'
  <2>1. \E a \in Answer : job[r].answers = Append(row[job[r].session].answers, a)
    BY <1>1, <1>3 DEF HandlerRow, Working, Answered
  <2>2. Recording(r)' => Recording(r) /\ skill' = skill
    BY <1>3, <1>4 DEF Recording
  <2>3. pc'[r] = "history" => OnSkill(r)'
    BY <1>3 DEF OnSkill
  <2>4. Recording(r)' => OnSkill(r)' /\ OnNewest(r)'
    BY <1>1, <1>3, <2>2 DEF HandlerRow, OnSkill, OnNewest, Newest
  <2>5. pc'[r] \in {"skill", "history", "save"}
    BY <1>3
  <2> QED BY <1>3, <1>4, <2>1, <2>3, <2>4, <2>5 DEF HandlerRow, Working, Answered
<1>6. ASSUME NEW t \in Session
      PROVE  SessionRow(t)' /\ RecordsOK(t)'
  <2>1. SessionRow(t) /\ RecordsOK(t)
    BY DEF OneInv
  <2>2. SessionRow(t)'
    <3>1. pc[r] = "skill" => HasConcept
      BY <1>1 DEF HandlerOK, InStep
    <3> QED BY <1>3, <1>4, <2>1, <3>1 DEF SessionRow, Newest
  <2>3. \A o \in Request : Recording(o) => Recording(o)' /\ job'[o] = job[o]
    BY <1>3, <1>4 DEF Recording
  <2> QED BY <1>3, <2>1, <2>2, <2>3 DEF RecordsOK
<1>7. \A o \in Request \ {r} : pc'[o] = "idle" /\ job'[o] = NoJob
  BY <1>3, OthersIdle
<1> QED BY <1>2, <1>5, <1>6, <1>7, OneStep

LEMMA RecordsAlone ==
  ASSUME OneInv, NEW r \in Request, WriteEvaluation(r)
  PROVE  OneInv'
<1> DEFINE s == job[r].session
           record == [verdict |-> job[r].verdict, questions_asked |-> Len(job[r].answers)]
           Record == [verdict : Verdict, questions_asked : Nat]
<1>1. TypeOK /\ HandlerRow(r) /\ HandlerOK(r)
  BY DEF OneInv, IInv, HandlerInv
<1>2. IInv'
  BY WriteEvaluationStep DEF OneInv
<1>3. /\ pc[r] = "history" /\ pc'[r] = "adaptation"
      /\ \A o \in Request \ {r} : pc'[o] = pc[o]
      /\ UNCHANGED <<job, row, acked, faults, skill>>
      /\ history' = [history EXCEPT ![s] = Append(history[s], record)]
  BY <1>1 DEF WriteEvaluation, Goto, TypeOK, client
<1>4. /\ s \in Session /\ row[s].status = "active" /\ job[r].verdict.decision # ""
      /\ record \in Record /\ history[s] \in Seq(Record)
  BY <1>1, <1>3, Typed DEF HandlerOK, InStep, HandlerRow, Working
<1>5. /\ history'[s] = Append(history[s], record)
      /\ \A t \in Session : t # s => history'[t] = history[t]
  BY <1>1, <1>3, <1>4 DEF TypeOK
<1>6. /\ history'[s] # <<>> /\ Len(history'[s]) = Len(history[s]) + 1 /\ Len(history[s]) \in Nat
      /\ Newest(history'[s]) = job[r].verdict
  <2>1. record.verdict = job[r].verdict
    OBVIOUS
  <2> HIDE DEF record, Record
  <2>2. /\ history'[s] # <<>> /\ Len(history'[s]) = Len(history[s]) + 1
        /\ history'[s][Len(history[s]) + 1] = record /\ Len(history[s]) \in Nat
    <3>1. ASSUME NEW h \in Seq(Record)
          PROVE  /\ Append(h, record) # <<>> /\ Len(Append(h, record)) = Len(h) + 1
                 /\ Append(h, record)[Len(h) + 1] = record /\ Len(h) \in Nat
      <4>1. record \in Record
        BY <1>4
      <4> QED BY <4>1, AppendProperties, LenProperties
    <3> QED BY <1>4, <1>5, <3>1
  <2> QED BY <2>1, <2>2 DEF Newest
<1>7. HandlerRow(r)'
  <2>1. \E a \in Answer : job[r].answers = Append(row[s].answers, a)
    BY <1>1, <1>3 DEF HandlerRow, Working, Answered
  <2>2. OnSkill(r)'
    BY <1>1, <1>3 DEF HandlerRow, OnSkill
  <2>3. OnNewest(r)'
    BY <1>3, <1>6 DEF OnNewest
  <2> QED BY <1>3, <1>4, <2>1, <2>2, <2>3 DEF HandlerRow, Working, Answered
<1>8. \A o \in Request : ~Recording(o)
  BY <1>3, OthersIdle DEF Recording
<1>9. ASSUME NEW t \in Session
      PROVE  SessionRow(t)' /\ RecordsOK(t)'
  <2>1. SessionRow(t) /\ RecordsOK(t)
    BY DEF OneInv
  <2>2. CASE t # s
    <3>1. history'[t] = history[t]
      BY <1>5, <2>2
    <3>2. SessionRow(t)'
      BY <1>3, <2>1, <3>1 DEF SessionRow, Newest
    <3>3. Len(history[t]) <= faults \/ row[t].status = "completed"
      BY <1>8, NotYetRecorded
    <3>4. RecordsOK(t)'
      BY <1>3, <2>1, <3>1, <3>3 DEF RecordsOK
    <3> QED BY <3>2, <3>4
  <2>3. CASE t = s
    <3>1. SessionRow(t)'
      BY <1>3, <1>4, <2>1, <2>3 DEF SessionRow
    <3>2. Len(history[s]) <= faults
      BY <1>4, <1>8, NotYetRecorded
    <3>3. Len(history'[s]) <= faults' + 1
      <4>1. faults \in Nat /\ faults' = faults
        BY <1>1, <1>3 DEF TypeOK
      <4> HIDE DEF s
      <4> QED BY <1>6, <3>2, <4>1
    <3>4. Recording(r)' /\ job'[r].session = s
      BY <1>3, <1>4 DEF Recording
    <3>5. RecordsOK(t)'
      BY <2>3, <3>3, <3>4 DEF RecordsOK
    <3> QED BY <3>1, <3>5
  <2> QED BY <2>2, <2>3
<1>10. \A o \in Request \ {r} : pc'[o] = "idle" /\ job'[o] = NoJob
  BY <1>3, OthersIdle
<1> QED BY <1>2, <1>7, <1>9, <1>10, OneStep

LEMMA SavesAlone ==
  ASSUME OneInv, NEW r \in Request, SaveSession(r)
  PROVE  OneInv'
<1> DEFINE s == job[r].session
           final == job[r].verdict.decision # ""
<1>1. TypeOK /\ HandlerRow(r) /\ HandlerOK(r)
  BY DEF OneInv, IInv, HandlerInv
<1>2. IInv'
  BY SaveSessionStep DEF OneInv
<1>3. /\ pc[r] = "save" /\ pc'[r] \in {"complete", "respond"}
      /\ \A o \in Request \ {r} : pc'[o] = pc[o]
      /\ UNCHANGED <<job, history, acked, faults, skill>>
      /\ row' = [row EXCEPT ![s] = RowFrom(job[r])]
  BY <1>1 DEF SaveSession, Goto, TypeOK, client
<1>4. /\ s \in Session /\ row[s].status = "active" /\ (final => Recording(r))
  BY <1>1, <1>3 DEF HandlerOK, InStep, HandlerRow, Working, Recording
<1>5. /\ row'[s] = RowFrom(job[r]) /\ \A t \in Session : t # s => row'[t] = row[t]
  BY <1>1, <1>3, <1>4 DEF TypeOK
<1>6. /\ row'[s].status = IF final THEN "completed" ELSE "active"
      /\ row'[s].answers = job[r].answers /\ row'[s].decision = job[r].verdict.decision
  <2>1. /\ RowFrom(job[r]).status = (IF final THEN "completed" ELSE "active")
        /\ RowFrom(job[r]).answers = job[r].answers
        /\ RowFrom(job[r]).decision = job[r].verdict.decision
    BY DEF RowFrom
  <2> QED BY <1>5, <2>1
<1>7. Len(row'[s].answers) = Len(row[s].answers) + 1 /\ Len(row[s].answers) \in Nat
  <2>1. PICK a \in Answer : job[r].answers = Append(row[s].answers, a)
    BY <1>1, <1>3 DEF HandlerRow, Working, Answered
  <2>2. row[s].answers \in Seq(Answer)
    BY <1>1, <1>4, Typed
  <2>3. /\ Len(Append(row[s].answers, a)) = Len(row[s].answers) + 1
        /\ Len(row[s].answers) \in Nat
    BY <2>2, AppendProperties, LenProperties
  <2> QED BY <1>6, <2>1, <2>3
<1>8. acked[s] <= Len(row[s].answers) /\ acked[s] \in Nat
  BY <1>1, <1>4 DEF OneInv, SessionRow, TypeOK
<1>9. acked[s] < Len(row'[s].answers)
  <2> HIDE DEF s
  <2> QED BY <1>7, <1>8
<1>10. final => OnSkill(r) /\ OnNewest(r)
  BY <1>1, <1>4 DEF HandlerRow
<1>11. HandlerRow(r)'
  BY <1>3, <1>9 DEF HandlerRow, Working, Answered, Recording
<1>12. \A o \in Request : Recording(o) => o = r /\ final
  BY <1>3, OthersIdle DEF Recording
<1>13. ASSUME NEW t \in Session
      PROVE  SessionRow(t)' /\ RecordsOK(t)'
  <2>1. SessionRow(t) /\ RecordsOK(t)
    BY DEF OneInv
  <2>2. CASE t # s
    <3>1. SessionRow(t)'
      BY <1>3, <1>5, <2>1, <2>2 DEF SessionRow, Newest
    <3>2. RecordsOK(t)'
      BY <1>3, <1>5, <1>12, <2>1, <2>2 DEF RecordsOK
    <3> QED BY <3>1, <3>2
  <2>3. CASE t = s
    <3>1. acked'[s] <= Len(row'[s].answers)
      <4> HIDE DEF s
      <4> QED BY <1>3, <1>7, <1>8
    <3>2. row'[s].status = "completed" => final
      BY <1>6
    <3>3. row'[s].status # "absent"
      BY <1>6
    <3>4. final => /\ history[s] # <<>> /\ Newest(history[s]) = job[r].verdict
                   /\ (skill.session = s => skill.mastered = job[r].verdict.mastered)
      <4>1. HasConcept /\ OnSkill(r) => skill.mastered = job[r].verdict.mastered
        BY DEF OnSkill
      <4>2. OnNewest(r) => history[s] # <<>> /\ Newest(history[s]) = job[r].verdict
        BY DEF OnNewest
      <4>3. skill.session = s => HasConcept
        BY <2>1, <2>3 DEF SessionRow
      <4> QED BY <1>10, <4>1, <4>2, <4>3
    <3>5. SessionRow(t)'
      <4>1. skill'.session = s => HasConcept
        BY <1>3, <2>1, <2>3 DEF SessionRow
      <4>2. row'[s].status = "completed" => history'[s] # <<>>
        BY <1>3, <3>2, <3>4
      <4>3. row'[s].status = "completed" /\ skill'.session = s =>
              /\ Newest(history'[s]).mastered = skill'.mastered
              /\ Newest(history'[s]).decision = row'[s].decision
        BY <1>3, <1>6, <3>2, <3>4
      <4> QED BY <1>3, <2>3, <3>1, <3>3, <4>1, <4>2, <4>3 DEF SessionRow, Newest
    <3>6. CASE final
      BY <1>3, <1>6, <2>1, <2>3, <3>5, <3>6 DEF RecordsOK
    <3>7. CASE ~final
      <4>1. Len(history[s]) <= faults
        BY <1>4, <1>12, <3>7, NotYetRecorded
      <4> QED BY <1>3, <2>1, <2>3, <3>5, <4>1 DEF RecordsOK
    <3> QED BY <3>6, <3>7
  <2> QED BY <2>2, <2>3
<1>14. \A o \in Request \ {r} : pc'[o] = "idle" /\ job'[o] = NoJob
  BY <1>3, OthersIdle
<1> QED BY <1>2, <1>11, <1>13, <1>14, OneStep

LEMMA EndsAlone ==
  ASSUME OneInv, NEW r \in Request, CompleteModule(r) \/ Respond(r) \/ Fault(r)
  PROVE  OneInv'
<1>1. TypeOK /\ HandlerRow(r) /\ HandlerOK(r)
  BY DEF OneInv, IInv, HandlerInv
<1>2. IInv'
  BY CompleteModuleStep, RespondStep, IdleStep DEF OneInv
<1>3. pc[r] # "idle" /\ UNCHANGED <<row, history, skill>>
  BY DEF CompleteModule, Respond, Fault, tables
<1>4. CASE CompleteModule(r)
  <2>1. /\ pc[r] = "complete" /\ pc'[r] = "respond"
        /\ \A o \in Request \ {r} : pc'[o] = pc[o]
        /\ UNCHANGED <<job, acked, faults>>
    BY <1>1, <1>4 DEF CompleteModule, Goto, TypeOK, client
  <2>2. \A o \in Request : ~Recording(o)
    BY <2>1, OthersIdle DEF Recording
  <2>3. \A t \in Session : SessionRow(t)' /\ RecordsOK(t)'
    BY <1>3, <2>1, <2>2, SessionsKept, RecordsKept DEF OneInv
  <2>4. HandlerRow(r)'
    BY <1>1, <1>3, <2>1 DEF HandlerRow, Working, Answered, Recording
  <2>5. \A o \in Request \ {r} : pc'[o] = "idle" /\ job'[o] = NoJob
    BY <1>3, <2>1, OthersIdle
  <2> QED BY <1>2, <2>3, <2>4, <2>5, OneStep
<1>5. CASE Respond(r) \/ Fault(r)
  <2>1. /\ pc'[r] = "idle" /\ job'[r] = NoJob
        /\ \A o \in Request \ {r} : pc'[o] = pc[o] /\ job'[o] = job[o]
    BY <1>1, <1>5 DEF Respond, Fault, Goto, TypeOK
  <2>2. HandlerRow(r)'
    BY <2>1 DEF HandlerRow, Working, Answered, Recording
  <2>3. \A o \in Request \ {r} : pc'[o] = "idle" /\ job'[o] = NoJob
    BY <1>3, <2>1, OthersIdle
  <2>4. CASE Respond(r)
    <3>1. /\ pc[r] = "respond" /\ faults' = faults
          /\ acked' = [acked EXCEPT ![job[r].session] = @ + 1]
      BY <2>4 DEF Respond
    <3>2. \A o \in Request : ~Recording(o)
      BY <3>1, OthersIdle DEF Recording
    <3>3. acked[job[r].session] < Len(row[job[r].session].answers) /\ job[r].session \in Session
      BY <1>1, <3>1 DEF HandlerRow, HandlerOK, InStep
    <3>4. ASSUME NEW t \in Session
          PROVE  acked'[t] <= Len(row[t].answers)
      <4>1. acked[t] \in Nat /\ acked[t] <= Len(row[t].answers) /\ Len(row[t].answers) \in Nat
        BY <1>1, Typed, LenProperties DEF OneInv, SessionRow, TypeOK
      <4>2. acked'[t] = IF t = job[r].session THEN acked[t] + 1 ELSE acked[t]
        BY <1>1, <3>1, <3>3 DEF TypeOK
      <4> QED BY <3>3, <4>1, <4>2
    <3>5. \A t \in Session : SessionRow(t)' /\ RecordsOK(t)'
      BY <1>3, <3>1, <3>2, <3>4, RecordsKept DEF OneInv, SessionRow, Newest
    <3> QED BY <1>2, <2>2, <2>3, <3>5, OneStep
  <2>5. CASE Fault(r)
    <3>1. faults' = faults + 1 /\ acked' = acked /\ faults \in Nat
      BY <1>1, <2>5 DEF Fault, TypeOK
    <3>2. ASSUME NEW t \in Session
          PROVE  RecordsOK(t)'
      <4>1. Len(history[t]) <= faults + 1 /\ Len(history[t]) \in Nat
        BY <1>1, Typed, LenProperties DEF OneInv, RecordsOK
      <4>2. Len(history[t]) <= faults' /\ Len(history[t]) <= faults' + 1
        BY <3>1, <4>1
      <4> QED BY <1>3, <4>2 DEF RecordsOK
    <3>3. \A t \in Session : SessionRow(t)'
      BY <1>3, <3>1, SessionsKept DEF OneInv
    <3> QED BY <1>2, <2>2, <2>3, <3>2, <3>3, OneStep
  <2> QED BY <1>5, <2>4, <2>5
<1> QED BY <1>4, <1>5

\* Nothing is in the memory of a handler nobody has called.
LEMMA OneInit == Init => OneInv
<1> SUFFICES ASSUME Init PROVE OneInv
  OBVIOUS
<1>1. IInv
  BY InitIInv
<1>2. Alone /\ \A r \in Request : HandlerRow(r)
  BY DEF Init, Alone, HandlerRow, Working, Answered, Recording
<1>3. \A s \in Session : SessionRow(s) /\ RecordsOK(s)
  <2> SUFFICES ASSUME NEW s \in Session PROVE SessionRow(s) /\ RecordsOK(s)
    OBVIOUS
  <2>1. /\ row[s].status = "absent" /\ row[s].answers = <<>> /\ history[s] = <<>>
        /\ acked[s] = 0 /\ faults = 0 /\ skill.session # s
    BY NoneAssumption DEF Init, NoRow
  <2>2. SessionRow(s)
    BY <2>1, Len(<<>>) = 0 DEF SessionRow
  <2>3. Len(history[s]) <= faults /\ Len(history[s]) <= faults + 1
    BY <2>1, Len(<<>>) = 0
  <2> QED BY <2>2, <2>3 DEF RecordsOK
<1> QED BY <1>1, <1>2, <1>3 DEF OneInv

LEMMA OneInductive == MaxInFlight = 1 /\ OneInv /\ [Next]_vars => OneInv'
<1> SUFFICES ASSUME MaxInFlight = 1, OneInv, [Next]_vars PROVE OneInv'
  OBVIOUS
<1>1. CASE \E s \in Session : StartSession(s)
  BY <1>1, OpensAlone
<1>2. CASE \E r \in Request, s \in Session, q \in QuestionId : Submit(r, s, q)
  BY <1>2, StartsAlone
<1>3. CASE \E r \in Request : Handle(r) \/ Fault(r)
  BY <1>3, ThinksAlone, WritesAlone, RecordsAlone, SavesAlone, EndsAlone DEF Handle
<1>4. CASE MarkComplete \/ SyncCompletes \/ UNCHANGED vars
  <2>1. IInv'
    BY <1>4, StutterStep, OtherwiseStep DEF OneInv
  <2>2. UNCHANGED <<row, history, skill, pc, job, acked, faults>>
    BY <1>4 DEF vars, tables, handler, client, MarkComplete, SyncCompletes, CompletedOtherwise
  <2>3. Alone' /\ \A r \in Request : HandlerRow(r)'
    BY <2>2 DEF OneInv, Alone, HandlerRow, Working, Answered, Recording, OnSkill, OnNewest, Newest
  <2>4. \A s \in Session : SessionRow(s)' /\ RecordsOK(s)'
    BY <2>2 DEF OneInv, SessionRow, RecordsOK, Recording, Newest
  <2> QED BY <2>1, <2>3, <2>4 DEF OneInv
<1> QED BY <1>1, <1>2, <1>3, <1>4 DEF Next

\* What holds when a client waits for the answer to a request before it sends the
\* next, whatever the faults, the stray answers and the other sessions.
THEOREM OneByOne == MaxInFlight = 1 => (Spec => []OneInv)
<1> SUFFICES ASSUME MaxInFlight = 1 PROVE Spec => []OneInv
  OBVIOUS
<1>1. OneInv /\ [Next]_vars => OneInv'
  BY OneInductive
<1> QED BY <1>1, OneInit, PTL DEF Spec

\* One request at a time: every answer the server acknowledged is in the row.
THEOREM AnswersKept == MaxInFlight = 1 => (Spec => []AcknowledgedKept)
<1> SUFFICES ASSUME MaxInFlight = 1 PROVE Spec => []AcknowledgedKept
  OBVIOUS
<1>1. OneInv => AcknowledgedKept
  BY DEF OneInv, SessionRow, AcknowledgedKept
<1> QED BY <1>1, OneByOne, PTL

\* One request at a time: a session is evaluated again only for a finalisation
\* that died before it stored the session.
THEOREM FinalizedOnce == MaxInFlight = 1 => (Spec => []FinalizedOncePerFault)
<1> SUFFICES ASSUME MaxInFlight = 1 PROVE Spec => []FinalizedOncePerFault
  OBVIOUS
<1>1. OneInv => FinalizedOncePerFault
  <2> SUFFICES ASSUME OneInv, NEW s \in Session
               PROVE  Len(history[s]) <= faults
                        + (IF row[s].status = "completed" \/ \E r \in Request : job[r].session = s
                           THEN 1 ELSE 0)
    BY DEF FinalizedOncePerFault
  <2>1. RecordsOK(s) /\ faults \in Nat
    BY DEF OneInv, IInv, TypeOK
  <2>2. CASE row[s].status = "completed" \/ \E r \in Request : job[r].session = s
    BY <2>1, <2>2 DEF RecordsOK
  <2>3. CASE ~(row[s].status = "completed" \/ \E r \in Request : job[r].session = s)
    <3>1. Len(history[s]) <= faults
      BY <2>1, <2>3 DEF RecordsOK
    <3>2. faults + 0 = faults
      BY <2>1
    <3> QED BY <2>3, <3>1, <3>2
  <2> QED BY <2>2, <2>3
<1> QED BY <1>1, OneByOne, PTL

\* One request at a time: the learner's skill says of the concept what the report
\* of the session that wrote it says.
THEOREM SkillAsReported == MaxInFlight = 1 => (Spec => []SkillMatchesReport)
<1> SUFFICES ASSUME MaxInFlight = 1 PROVE Spec => []SkillMatchesReport
  OBVIOUS
<1>1. OneInv => SkillMatchesReport
  <2> SUFFICES ASSUME OneInv, NEW s \in Session, row[s].status = "completed", skill.session = s
               PROVE  /\ history[s][Len(history[s])].verdict.mastered = skill.mastered
                      /\ history[s][Len(history[s])].verdict.decision = row[s].decision
    BY DEF SkillMatchesReport
  <2> QED BY DEF OneInv, SessionRow, Newest
<1> QED BY <1>1, OneByOne, PTL

-----------------------------------------------------------------------------
(* The contract *)

\* Who stores a session closes it, or takes one answer.
LEMMA SaveIsTakeOrClose ==
  ASSUME OneInv, NEW r \in Request, SaveSession(r)
  PROVE  \E s \in Session : \E a \in Answer : Contract!Take(s, a) \/ Contract!Close(s, a)
<1> DEFINE s == job[r].session
           final == job[r].verdict.decision # ""
<1>1. TypeOK /\ HandlerRow(r) /\ HandlerOK(r)
  BY DEF OneInv, IInv, HandlerInv
<1>2. /\ pc[r] = "save" /\ UNCHANGED history
      /\ row' = [row EXCEPT ![s] = RowFrom(job[r])]
  BY DEF SaveSession
<1>3. /\ s \in Session /\ row[s].status = "active" /\ (final => Recording(r))
  BY <1>1, <1>2 DEF HandlerOK, InStep, HandlerRow, Working, Recording
<1>4. PICK a \in Answer : job[r].answers = Append(row[s].answers, a)
  BY <1>1, <1>2 DEF HandlerRow, Working, Answered
<1>5. /\ RowFrom(job[r]).status = (IF final THEN "completed" ELSE "active")
      /\ RowFrom(job[r]).answers = Append(row[s].answers, a)
  BY <1>4 DEF RowFrom
<1>6. [t \in Session |-> row'[t].answers]
        = [[t \in Session |-> row[t].answers] EXCEPT ![s] = Append(row[s].answers, a)]
  BY <1>1, <1>2, <1>3, <1>5 DEF TypeOK
<1>7. [t \in Session |-> row'[t].status]
        = [[t \in Session |-> row[t].status] EXCEPT ![s] = IF final THEN "completed" ELSE "active"]
  BY <1>1, <1>2, <1>3, <1>5 DEF TypeOK
<1>8. [t \in Session |-> Len(history'[t])] = [t \in Session |-> Len(history[t])]
  BY <1>2
<1>9. CASE final
  <2>1. history[s] # <<>> /\ history[s] \in Seq([verdict : Verdict, questions_asked : Nat])
    BY <1>1, <1>3, <1>9, Typed DEF HandlerRow, OnNewest
  <2>2. Len(history[s]) > 0
    <3>1. \A h \in Seq([verdict : Verdict, questions_asked : Nat]) : h # <<>> => Len(h) > 0
      BY EmptySeq, LenProperties
    <3> QED BY <2>1, <3>1
  <2>3. Contract!Close(s, a)
    BY <1>3, <1>6, <1>7, <1>8, <1>9, <2>2 DEF Contract!Close
  <2> QED BY <1>3, <2>3
<1>10. CASE ~final
  <2>1. [t \in Session |-> row'[t].status] = [t \in Session |-> row[t].status]
    BY <1>3, <1>7, <1>10
  <2>2. Contract!Take(s, a)
    BY <1>3, <1>6, <1>8, <2>1 DEF Contract!Take
  <2> QED BY <1>3, <2>2
<1> QED BY <1>9, <1>10

\* One request at a time, the session row and its history do what EvaluationContract
\* promises: each step of the handlers is one of its steps, or none.
THEOREM ContractKept == MaxInFlight = 1 => (Spec => KeepsContract)
<1> SUFFICES ASSUME MaxInFlight = 1 PROVE Spec => KeepsContract
  OBVIOUS
<1>1. Init => Contract!Init
  <2> SUFFICES ASSUME Init PROVE Contract!Init
    OBVIOUS
  <2>1. \A s \in Session : row[s].status = "absent" /\ row[s].answers = <<>> /\ history[s] = <<>>
    BY DEF Init, NoRow
  <2>2. \A s \in Session : Len(history[s]) = 0
    BY <2>1, Len(<<>>) = 0
  <2> QED BY <2>1, <2>2 DEF Contract!Init
<1>2. OneInv /\ [Next]_vars => [Contract!Next]_(Contract!vars)
  <2> SUFFICES ASSUME OneInv, [Next]_vars PROVE Contract!Next \/ UNCHANGED Contract!vars
    OBVIOUS
  <2> TypeOK
    BY DEF OneInv, IInv
  <2>1. UNCHANGED <<row, history>> => UNCHANGED Contract!vars
    BY DEF Contract!vars
  <2>2. ASSUME NEW s \in Session, StartSession(s)
        PROVE  Contract!Next
    <3>1. PICK questions : row' = [row EXCEPT ![s] =
              [NoRow EXCEPT !.status = "active", !.questions = questions]]
      BY <2>2 DEF StartSession
    <3>2. /\ row[s].status = "absent" /\ row[s].answers = <<>> /\ history' = history
      BY <2>2 DEF StartSession, OneInv, SessionRow
    <3>3. [t \in Session |-> row'[t].answers] = [t \in Session |-> row[t].answers]
      BY <3>1, <3>2 DEF TypeOK, NoRow
    <3>4. [t \in Session |-> row'[t].status]
            = [[t \in Session |-> row[t].status] EXCEPT ![s] = "active"]
      BY <3>1 DEF TypeOK, NoRow
    <3>5. Contract!Open(s)
      BY <3>2, <3>3, <3>4 DEF Contract!Open
    <3> QED BY <3>5 DEF Contract!Next
  <2>3. ASSUME NEW r \in Request, WriteEvaluation(r)
        PROVE  Contract!Next
    <3> DEFINE s == job[r].session
               record == [verdict |-> job[r].verdict, questions_asked |-> Len(job[r].answers)]
               Record == [verdict : Verdict, questions_asked : Nat]
    <3>1. HandlerRow(r) /\ HandlerOK(r)
      BY DEF OneInv, IInv, HandlerInv
    <3>2. /\ pc[r] = "history" /\ row' = row
          /\ history' = [history EXCEPT ![s] = Append(history[s], record)]
      BY <2>3 DEF WriteEvaluation
    <3>3. /\ s \in Session /\ row[s].status = "active"
          /\ record \in Record /\ history[s] \in Seq(Record)
      BY <3>1, <3>2, Typed DEF HandlerOK, InStep, HandlerRow, Working
    <3>4. Len(Append(history[s], record)) = Len(history[s]) + 1
      <4>1. ASSUME NEW h \in Seq(Record) PROVE Len(Append(h, record)) = Len(h) + 1
        BY <3>3, AppendProperties
      <4> QED BY <3>3, <4>1
    <3> HIDE DEF record
    <3>5. [t \in Session |-> Len(history'[t])]
            = [[t \in Session |-> Len(history[t])] EXCEPT ![s] = Len(history[s]) + 1]
      BY <3>2, <3>3, <3>4 DEF TypeOK
    <3>6. PICK t \in Session : t = s
      BY <3>3
    <3>7. Contract!Record(t)
      BY <3>2, <3>3, <3>5, <3>6 DEF Contract!Record
    <3> QED BY <3>7 DEF Contract!Next
  <2>4. ASSUME NEW r \in Request, SaveSession(r)
        PROVE  Contract!Next
    BY <2>4, SaveIsTakeOrClose DEF Contract!Next
  <2>5. ASSUME NEW r \in Request, Handle(r) \/ Fault(r), ~WriteEvaluation(r), ~SaveSession(r)
        PROVE  UNCHANGED <<row, history>>
    BY <2>5 DEF Handle, Fault, ReadSession, Reject, Diagnose, GenerateProbe, NoProbe, ComposeReport,
       UpsertConceptMastery, UpsertStudentSkill, SaveAdaptationSummary, CompleteModule, Respond, tables
  <2>6. ASSUME NEW r \in Request, NEW s \in Session, NEW q \in QuestionId, Submit(r, s, q)
        PROVE  UNCHANGED <<row, history>>
    BY <2>6 DEF Submit, tables
  <2>7. MarkComplete \/ SyncCompletes \/ UNCHANGED vars => UNCHANGED <<row, history>>
    BY DEF vars, tables, MarkComplete, SyncCompletes, CompletedOtherwise
  <2> QED BY <2>1, <2>2, <2>3, <2>4, <2>5, <2>6, <2>7 DEF Next
<1> QED BY <1>1, <1>2, OneByOne, PTL DEF Spec, KeepsContract, Contract!Spec

-----------------------------------------------------------------------------
(* No base question left out *)

\* Base questions come first, within the number of the pace; a probe's id is
\* that of no base question.
QuestionsOK(questions) ==
    \A i \in DOMAIN questions :
      /\ questions[i].base => i <= PaceConfig[CoursePace].base_q /\ questions[i].id \notin ProbeId
      /\ ~questions[i].base => questions[i].id \in ProbeId
      /\ \A j \in DOMAIN questions : i < j /\ questions[j].base => questions[i].base

\* The positions of the base questions with and without an answer.
BaseDone(questions, answers) ==
    {i \in DOMAIN questions : questions[i].base /\ questions[i].id \in AnsweredIds(answers)}

BaseOpen(questions, answers) ==
    {i \in DOMAIN questions : questions[i].base /\ questions[i].id \notin AnsweredIds(answers)}

\* While a base question is open, each one done pays for two answers: its own and
\* that of its probe.
Covered(questions, answers, due, budget) ==
    BaseOpen(questions, answers) # {} =>
      Len(answers) + due <= 2 * Cardinality(BaseDone(questions, answers)) + budget

\* A stray answer pays for two, since it may earn a probe again, a fault for one,
\* that of the question still shown.
Budget == 2 * stray + faults

\* Answers a client gives before it is shown an open base question: one to a probe,
\* two to a base question already answered and its probe.
Due(question, answers) ==
    IF question \in ProbeId THEN 1
    ELSE IF question \in AnsweredIds(answers) THEN 2 ELSE 0

\* The session is stored, the client not yet told.
Stored == {"complete", "respond"}

AwaitsResponse(s) == \E r \in Request : pc[r] \in Stored /\ job[r].session = s

\* What a handler has to write: an answer to its question, and a probe for a base
\* question only.
Adds(j, stored) ==
    /\ \E a \in Answer : a.question = j.question /\ j.answers = Append(stored.answers, a)
    /\ \/ j.questions = stored.questions /\ j.next = ""
       \/ /\ j.next \in ProbeId /\ j.question \notin ProbeId
          /\ j.questions = Append(stored.questions, [id |-> j.next, base |-> FALSE])

\* What a handler asks of its session, and how it is paid for.
Asks(at, j, stored, question, budget) ==
    /\ at # "idle" => stored.status # "absent" /\ j.question \in QuestionId
    /\ at \in {"read", "diagnose", "probe"} => j.next = ""
    /\ at \in Working => j.question \in Ids(stored.questions)
    /\ at \in {"diagnose", "probe"} => j.questions = stored.questions
    /\ at = "probe" => j.question \notin ProbeId
    /\ at \in Answered => Adds(j, stored)
    /\ at \in Stored =>
         /\ j.questions = stored.questions /\ j.answers = stored.answers
         /\ j.next \in ProbeId \union {""}
         /\ Covered(stored.questions, stored.answers, IF j.next = "" THEN 0 ELSE 1, budget)
    /\ at \in {"read"} \union Working /\ j.question # question =>
         Covered(stored.questions, stored.answers, Due(question, stored.answers) + 2, budget)

HandlerAsks(r) == Asks(pc[r], job[r], row[job[r].session], shown[job[r].session], Budget)

SessionAsks(s) ==
    /\ row[s].status = "absent" => row[s].questions = <<>>
    /\ QuestionsOK(row[s].questions)
    /\ Covered(row[s].questions, row[s].answers, Due(shown[s], row[s].answers),
               Budget + (IF AwaitsResponse(s) THEN 1 ELSE 0))

WithinBounds == stray <= MaxStray /\ faults <= MaxFaults

AskInv ==
    /\ OneInv /\ WithinBounds
    /\ \A r \in Request : HandlerAsks(r)
    /\ \A s \in Session : SessionAsks(s)
    /\ BaseAnswered

\* Within the limit that submit_answer applies there is room for each base question
\* with its probe, and for what stray answers and faults add: the last base question
\* is answered when the limit is reached at the latest.
RoomForAll ==
    2 * PaceConfig[CoursePace].base_q + 2 * MaxStray + MaxFaults
      <= PaceConfig[SubmitPace].max_total + 1

\* A probe is not given the id of a base question.
ProbesApart == \A i \in DOMAIN BaseId : BaseId[i] \notin ProbeId

\* The pace asks two to four base questions.
LEMMA BaseQuestions == PaceConfig[CoursePace].base_q \in 2..4
BY PaceAssumption DEF PaceConfig

\* One answer more is one answered id more.
LEMMA AnsweredMore ==
  ASSUME NEW A \in Seq(Answer), NEW a \in Answer
  PROVE  /\ AnsweredIds(Append(A, a)) = AnsweredIds(A) \union {a.question}
         /\ Len(Append(A, a)) = Len(A) + 1 /\ Len(A) \in Nat
<1>1. /\ Len(Append(A, a)) = Len(A) + 1 /\ Len(A) \in Nat
      /\ DOMAIN A = 1..Len(A) /\ DOMAIN Append(A, a) = 1..(Len(A) + 1)
      /\ \A i \in 1..Len(A) : Append(A, a)[i] = A[i]
      /\ Append(A, a)[Len(A) + 1] = a
  BY AppendProperties, LenProperties
<1>2. AnsweredIds(Append(A, a)) = {Append(A, a)[i].question : i \in 1..(Len(A) + 1)}
  BY <1>1 DEF AnsweredIds
<1>3. 1..(Len(A) + 1) = (1..Len(A)) \union {Len(A) + 1}
  BY <1>1
<1>4. {Append(A, a)[i].question : i \in 1..(Len(A) + 1)}
        = {Append(A, a)[i].question : i \in 1..Len(A)} \union {Append(A, a)[Len(A) + 1].question}
  BY <1>3
<1>5. {Append(A, a)[i].question : i \in 1..Len(A)} = {A[i].question : i \in 1..Len(A)}
  BY <1>1
<1>6. AnsweredIds(A) = {A[i].question : i \in 1..Len(A)}
  BY <1>1 DEF AnsweredIds
<1> QED BY <1>1, <1>2, <1>4, <1>5, <1>6

\* The base questions done are finitely many, ...
LEMMA DoneFinite ==
  ASSUME NEW Q \in Seq(Question), NEW A
  PROVE  IsFiniteSet(BaseDone(Q, A)) /\ Cardinality(BaseDone(Q, A)) \in Nat
<1>1. DOMAIN Q = 1..Len(Q) /\ Len(Q) \in Nat
  BY LenProperties
<1>2. BaseDone(Q, A) \subseteq 1..Len(Q)
  BY <1>1 DEF BaseDone
<1>3. IsFiniteSet(1..Len(Q))
  BY <1>1, FS_Interval
<1> QED BY <1>2, <1>3, FS_Subset, FS_CardinalityType

\* ... and fewer than the pace has while one is open.
LEMMA DoneBounded ==
  ASSUME NEW Q \in Seq(Question), NEW A, QuestionsOK(Q), BaseOpen(Q, A) # {}
  PROVE  Cardinality(BaseDone(Q, A)) < PaceConfig[CoursePace].base_q
<1>1. DOMAIN Q = 1..Len(Q) /\ Len(Q) \in Nat
  BY LenProperties
<1>2. PICK n \in 2..4 : n = PaceConfig[CoursePace].base_q
  BY BaseQuestions
<1>3. PICK o : o \in BaseOpen(Q, A)
  OBVIOUS
<1>4. o \in 1..n /\ o \notin BaseDone(Q, A)
  BY <1>1, <1>2, <1>3 DEF BaseOpen, BaseDone, QuestionsOK
<1>5. BaseDone(Q, A) \subseteq (1..n) \ {o}
  BY <1>1, <1>2, <1>4 DEF BaseDone, QuestionsOK
<1>6. IsFiniteSet(1..n) /\ Cardinality(1..n) = n
  <2>1. 1 \in Int /\ n \in Int /\ ~(1 > n) /\ n - 1 + 1 = n
    BY <1>2
  <2> HIDE <1>2
  <2> QED BY <2>1, FS_Interval
<1>7. IsFiniteSet((1..n) \ {o}) /\ Cardinality((1..n) \ {o}) = n - 1
  BY <1>4, <1>6, FS_RemoveElement
<1>8. Cardinality(BaseDone(Q, A)) <= n - 1
  BY <1>5, <1>7, FS_Subset
<1>9. Cardinality(BaseDone(Q, A)) \in Nat
  BY DoneFinite
<1> QED BY <1>2, <1>8, <1>9

\* What is covered stays so when no more is due than is paid for.
LEMMA StillCovered ==
  ASSUME NEW Q \in Seq(Question), NEW A \in Seq(Answer),
         NEW d \in Nat, NEW b \in Nat, NEW e \in Nat, NEW c \in Nat,
         Covered(Q, A, d, b), e + b <= d + c
  PROVE  Covered(Q, A, e, c)
<1>1. PICK n \in Nat : n = Cardinality(BaseDone(Q, A))
  BY DoneFinite
<1>2. PICK l \in Nat : l = Len(A)
  BY LenProperties
<1>3. BaseOpen(Q, A) # {} => l + d <= 2 * n + b
  BY <1>1, <1>2 DEF Covered
<1>4. BaseOpen(Q, A) # {} => l + e <= 2 * n + c
  BY <1>3
<1> QED BY <1>1, <1>2, <1>4 DEF Covered

\* An answer has to be paid for, ...
LEMMA AnswerPaid ==
  ASSUME NEW Q \in Seq(Question), NEW A \in Seq(Answer), NEW a \in Answer,
         NEW d \in Nat, NEW b \in Nat, NEW e \in Nat, NEW c \in Nat,
         Covered(Q, A, d, b), e + 1 + b <= d + c
  PROVE  Covered(Q, Append(A, a), e, c)
<1> DEFINE new == Append(A, a)
<1>1. BaseDone(Q, A) \subseteq BaseDone(Q, new) /\ BaseOpen(Q, new) \subseteq BaseOpen(Q, A)
  BY AnsweredMore DEF BaseDone, BaseOpen
<1>2. PICK n \in Nat, m \in Nat : n = Cardinality(BaseDone(Q, A)) /\ m = Cardinality(BaseDone(Q, new))
  BY DoneFinite
<1>3. n <= m
  BY <1>1, <1>2, DoneFinite, FS_Subset
<1>4. PICK l \in Nat : l = Len(A) /\ Len(new) = l + 1
  BY AnsweredMore
<1>5. BaseOpen(Q, A) # {} => l + d <= 2 * n + b
  BY <1>2, <1>4 DEF Covered
<1>6. BaseOpen(Q, A) # {} => (l + 1) + e <= 2 * m + c
  BY <1>3, <1>5
<1> QED BY <1>1, <1>2, <1>4, <1>6 DEF Covered

\* ... and the first to a base question pays for two.
LEMMA FirstAnswerPays ==
  ASSUME NEW Q \in Seq(Question), NEW A \in Seq(Answer), NEW a \in Answer,
         NEW d \in Nat, NEW b \in Nat, NEW e \in Nat, NEW c \in Nat,
         Covered(Q, A, d, b), e + 1 + b <= d + c + 2,
         a.question \notin AnsweredIds(A),
         NEW i \in DOMAIN Q, Q[i].base, Q[i].id = a.question
  PROVE  Covered(Q, Append(A, a), e, c)
<1> DEFINE new == Append(A, a)
<1>1. /\ BaseDone(Q, A) \union {i} \subseteq BaseDone(Q, new) /\ i \notin BaseDone(Q, A)
      /\ BaseOpen(Q, new) \subseteq BaseOpen(Q, A)
  BY AnsweredMore DEF BaseDone, BaseOpen
<1>2. PICK n \in Nat, m \in Nat : n = Cardinality(BaseDone(Q, A)) /\ m = Cardinality(BaseDone(Q, new))
  BY DoneFinite
<1>3. Cardinality(BaseDone(Q, A) \union {i}) = n + 1
  BY <1>1, <1>2, DoneFinite, FS_AddElement
<1>4. n + 1 <= m
  BY <1>1, <1>2, <1>3, DoneFinite, FS_Subset
<1>5. PICK l \in Nat : l = Len(A) /\ Len(new) = l + 1
  BY AnsweredMore
<1>6. BaseOpen(Q, A) # {} => l + d <= 2 * n + b
  BY <1>2, <1>5 DEF Covered
<1>7. BaseOpen(Q, A) # {} => (l + 1) + e <= 2 * m + c
  BY <1>4, <1>6
<1> QED BY <1>1, <1>2, <1>5, <1>7 DEF Covered

\* A probe is no base question.
LEMMA ProbeCostsNothing ==
  ASSUME NEW Q \in Seq(Question), NEW A, NEW id \in ProbeId
  PROVE  LET probed == Append(Q, [id |-> id, base |-> FALSE])
         IN  /\ QuestionsOK(Q) => QuestionsOK(probed)
             /\ BaseOpen(probed, A) = BaseOpen(Q, A) /\ BaseDone(probed, A) = BaseDone(Q, A)
             /\ Ids(Q) \subseteq Ids(probed)
<1> DEFINE probe == [id |-> id, base |-> FALSE]
           probed == Append(Q, probe)
<1>1. probe \in Question /\ probe.id = id /\ probe.base = FALSE
  BY DEF Question, QuestionId
<1> HIDE DEF probe
<1>2. /\ Len(Q) \in Nat /\ DOMAIN Q = 1..Len(Q) /\ DOMAIN probed = 1..(Len(Q) + 1)
      /\ \A i \in 1..Len(Q) : probed[i] = Q[i]
      /\ probed[Len(Q) + 1] = probe
  BY <1>1, AppendProperties, LenProperties
<1> HIDE DEF probed
<1>3. QuestionsOK(Q) => QuestionsOK(probed)
  BY <1>1, <1>2 DEF QuestionsOK
<1>4. BaseOpen(probed, A) = BaseOpen(Q, A) /\ BaseDone(probed, A) = BaseDone(Q, A)
  BY <1>1, <1>2 DEF BaseOpen, BaseDone
<1>5. Ids(Q) \subseteq Ids(probed)
  BY <1>2 DEF Ids
<1> QED BY <1>3, <1>4, <1>5 DEF probed, probe

LEMMA BudgetTyped == TypeOK => Budget \in Nat
<1> SUFFICES ASSUME TypeOK PROVE Budget \in Nat
  OBVIOUS
<1>1. stray \in Nat /\ faults \in Nat
  BY DEF TypeOK
<1> QED BY <1>1 DEF Budget

\* What the tables hold is typed, and the budget a number.
LEMMA TablesTyped ==
  ASSUME OneInv, NEW s \in Session
  PROVE  /\ row[s].questions \in Seq(Question) /\ row[s].answers \in Seq(Answer)
         /\ Budget \in Nat /\ Due(shown[s], row[s].answers) \in 0..2
<1>1. TypeOK
  BY DEF OneInv, IInv
<1>2. row[s].questions \in Seq(Question) /\ row[s].answers \in Seq(Answer)
  BY <1>1, Typed
<1>3. Due(shown[s], row[s].answers) \in 0..2
  BY DEF Due
<1> QED BY <1>1, <1>2, <1>3, BudgetTyped

\* A step of the only handler has to be right for that handler and the sessions.
LEMMA AskStep ==
  ASSUME OneInv', NEW r \in Request,
         \A o \in Request \ {r} : pc'[o] = "idle",
         HandlerAsks(r)', \A s \in Session : SessionAsks(s)',
         WithinBounds', BaseAnswered'
  PROVE  AskInv'
<1>1. \A o \in Request \ {r} : HandlerAsks(o)'
  BY DEF HandlerAsks, Asks, Working, Answered, Stored
<1> QED BY <1>1 DEF AskInv

\* What the table shows and what the budget pays for stay, and no response is
\* awaited any more: what a session asks is covered.
LEMMA SessionsStillAsk ==
  ASSUME OneInv, NEW s \in Session, SessionAsks(s), UNCHANGED <<row, shown>>,
         Budget' \in Nat,
         ~AwaitsResponse(s)', Budget + (IF AwaitsResponse(s) THEN 1 ELSE 0) <= Budget'
  PROVE  SessionAsks(s)'
<1>1. /\ row[s].questions \in Seq(Question) /\ row[s].answers \in Seq(Answer)
      /\ Budget \in Nat /\ Due(shown[s], row[s].answers) \in Nat
  BY TablesTyped
<1>2. PICK b \in Nat : b = Budget + (IF AwaitsResponse(s) THEN 1 ELSE 0)
  BY <1>1
<1>3. PICK d \in Nat, c \in Nat : d = Due(shown[s], row[s].answers) /\ c = Budget'
  BY <1>1
<1>4. d + b <= d + c
  BY <1>2, <1>3
<1>5. Covered(row[s].questions, row[s].answers, d, b)
  BY <1>2, <1>3 DEF SessionAsks
<1>6. Covered(row[s].questions, row[s].answers, d, c)
  BY <1>1, <1>4, <1>5, StillCovered
<1>7. PICK e \in Nat : e = 0 /\ e = IF AwaitsResponse(s)' THEN 1 ELSE 0
  OBVIOUS
<1>8. c + e = c
  BY <1>7
<1>9. Covered(row[s].questions, row[s].answers, d, c + e)
  BY <1>6, <1>8
<1>10. Covered(row[s].questions, row[s].answers, Due(shown[s], row[s].answers),
               Budget' + (IF AwaitsResponse(s)' THEN 1 ELSE 0))
  BY <1>3, <1>7, <1>9
<1> QED BY <1>10 DEF SessionAsks

LEMMA NobodyAwaits ==
  ASSUME OneInv, NEW r \in Request, pc[r] \notin Stored \union {"idle"}, NEW s \in Session
  PROVE  ~AwaitsResponse(s)
BY OthersIdle DEF AwaitsResponse, Stored

LEMMA SubmitAsks ==
  ASSUME MaxInFlight = 1, AskInv, NEW r \in Request, NEW s \in Session, NEW q \in QuestionId,
         Submit(r, s, q)
  PROVE  AskInv'
<1>1. TypeOK /\ OneInv /\ \A o \in Request : pc[o] = "idle" /\ job[o] = NoJob
  BY SubmittedAlone DEF AskInv, OneInv, IInv, HandlerRow
<1>2. OneInv'
  BY StartsAlone DEF AskInv
<1>3. /\ pc'[r] = "read" /\ \A o \in Request \ {r} : pc'[o] = "idle"
      /\ job'[r] = [NoJob EXCEPT !.session = s, !.question = q]
      /\ UNCHANGED <<row, shown, faults>> /\ row[s].status # "absent"
      /\ \/ q = shown[s] /\ stray' = stray
         \/ q # shown[s] /\ stray' = stray + 1 /\ stray < MaxStray
  BY <1>1 DEF Submit, Goto, TypeOK, tables
<1>4. /\ job'[r].session = s /\ job'[r].question = q /\ job'[r].next = ""
  BY <1>3 DEF NoJob
<1>5. \A t \in Session : ~AwaitsResponse(t) /\ ~AwaitsResponse(t)'
  BY <1>1, <1>3 DEF AwaitsResponse, Stored
<1>6. PICK b \in Nat, c \in Nat : /\ b = Budget /\ c = Budget' /\ b <= c
                                  /\ q # shown[s] => c = b + 2
  <2>1. stray \in Nat /\ faults \in Nat
    BY <1>1 DEF TypeOK
  <2>2. PICK b \in Nat : b = 2 * stray + faults
    BY <2>1
  <2>3. PICK c \in Nat : c = 2 * stray' + faults'
    BY <1>3, <2>1
  <2>4. b <= c /\ (q # shown[s] => c = b + 2)
    BY <1>3, <2>1, <2>2, <2>3
  <2> QED BY <2>2, <2>3, <2>4 DEF Budget
<1>7. \A t \in Session : SessionAsks(t)'
  BY <1>1, <1>3, <1>5, <1>6, SessionsStillAsk DEF AskInv
<1>8. HandlerAsks(r)'
  <2>1. ASSUME q # shown[s]
        PROVE  Covered(row[s].questions, row[s].answers, Due(shown[s], row[s].answers) + 2, c)
    <3>1. PICK d \in Nat : d = Due(shown[s], row[s].answers)
      BY <1>1, TablesTyped
    <3>2. Covered(row[s].questions, row[s].answers, d, b)
      BY <1>5, <1>6, <3>1 DEF AskInv, SessionAsks
    <3>3. (d + 2) + b <= d + c
      BY <1>6, <2>1, <3>1
    <3> QED BY <1>1, <1>6, <3>1, <3>2, <3>3, TablesTyped, StillCovered
  <2>2. HandlerAsks(r)' <=>
          Asks("read", job'[r], row[s], shown[s], c)
    BY <1>3, <1>4, <1>6 DEF HandlerAsks
  <2> QED BY <1>3, <1>4, <2>1, <2>2 DEF Asks, Working, Answered, Stored
<1>9. WithinBounds'
  <2>1. stray \in Nat /\ MaxStray \in Nat /\ stray <= MaxStray /\ faults <= MaxFaults
    BY <1>1, BoundAssumption DEF AskInv, WithinBounds, TypeOK
  <2>2. stray' <= MaxStray /\ faults' <= MaxFaults
    BY <1>3, <2>1
  <2> QED BY <2>2 DEF WithinBounds
<1>10. BaseAnswered'
  BY <1>3 DEF AskInv, BaseAnswered
<1> QED BY <1>2, <1>3, <1>7, <1>8, <1>9, <1>10, AskStep

LEMMA StartAsks ==
  ASSUME ProbesApart, AskInv, NEW s \in Session, StartSession(s)
  PROVE  AskInv'
<1>1. TypeOK /\ OneInv /\ \A r \in Request : HandlerAsks(r) /\ HandlerOK(r)
  BY DEF AskInv, OneInv, IInv, HandlerInv
<1>2. OneInv'
  BY OpensAlone DEF AskInv
<1>3. UNCHANGED <<pc, job, stray, faults>> /\ Budget' = Budget /\ row[s].status = "absent"
  BY DEF StartSession, handler, Budget
<1> DEFINE Base(n) == [i \in 1..n |-> [id |-> BaseId[i], base |-> TRUE]]
<1>4. PICK n \in 1..PaceConfig[CoursePace].base_q : row' = [row EXCEPT ![s] =
            [NoRow EXCEPT !.status = "active", !.questions = Base(n)]]
  BY DEF StartSession
<1>5. /\ row'[s].status = "active" /\ row'[s].answers = <<>> /\ row'[s].questions = Base(n)
      /\ \A t \in Session : t # s => row'[t] = row[t]
  BY <1>1, <1>4 DEF TypeOK, NoRow
<1>6. shown'[s] = BaseId[1] /\ \A t \in Session : t # s => shown'[t] = shown[t]
  BY <1>1 DEF StartSession, TypeOK
<1>7. ASSUME NEW r \in Request
      PROVE  HandlerAsks(r)'
  <2>1. CASE pc[r] = "idle"
    BY <1>3, <2>1 DEF HandlerAsks, Asks, Working, Answered, Stored
  <2>2. CASE pc[r] # "idle"
    <3>1. job[r].session \in Session /\ job[r].session # s
      BY <1>1, <1>3, <2>2 DEF HandlerOK, InStep, HandlerAsks, Asks
    <3>2. row'[job[r].session] = row[job[r].session] /\ shown'[job[r].session] = shown[job[r].session]
      BY <1>5, <1>6, <3>1
    <3> QED BY <1>1, <1>3, <3>2 DEF HandlerAsks
  <2> QED BY <2>1, <2>2
<1>8. ASSUME NEW t \in Session
      PROVE  SessionAsks(t)'
  <2>1. AwaitsResponse(t)' <=> AwaitsResponse(t)
    BY <1>3 DEF AwaitsResponse
  <2>2. CASE t # s
    BY <1>3, <1>5, <1>6, <2>1, <2>2 DEF AskInv, SessionAsks
  <2>3. CASE t = s
    <3>1. QuestionsOK(Base(n))
      <4>1. n \in 1..4 /\ n <= PaceConfig[CoursePace].base_q /\ DOMAIN Base(n) = 1..n
        BY BaseQuestions
      <4>2. \A i \in 1..n : /\ Base(n)[i].base /\ Base(n)[i].id = BaseId[i] /\ i \in DOMAIN BaseId
                            /\ i <= PaceConfig[CoursePace].base_q
        BY <4>1, BaseQuestions DEF BaseId
      <4> QED BY <4>1, <4>2 DEF ProbesApart, QuestionsOK
    <3>2. Due(BaseId[1], <<>>) = 0
      BY DEF Due, ProbesApart, AnsweredIds, BaseId
    <3>3. Budget \in Nat
      BY <1>1, TablesTyped
    <3>4. Covered(Base(n), <<>>, 0, Budget + (IF AwaitsResponse(s)' THEN 1 ELSE 0))
      <4>1. Base(n) \in Seq(Question)
        <5>1. n \in 1..4
          BY BaseQuestions
        <5>2. \A i \in 1..n : [id |-> BaseId[i], base |-> TRUE] \in Question
          BY <5>1 DEF Question, QuestionId
        <5> QED BY <5>1, <5>2
      <4>2. PICK m \in Nat : m = Cardinality(BaseDone(Base(n), <<>>))
        BY <4>1, DoneFinite
      <4>3. PICK b \in Nat : b = Budget + (IF AwaitsResponse(s)' THEN 1 ELSE 0)
        BY <3>3
      <4>4. Len(<<>>) + 0 <= 2 * m + b
        OBVIOUS
      <4> QED BY <4>2, <4>3, <4>4 DEF Covered
    <3> QED BY <1>3, <1>5, <1>6, <2>3, <3>1, <3>2, <3>4 DEF SessionAsks
  <2> QED BY <2>2, <2>3
<1>9. BaseAnswered'
  BY <1>5 DEF AskInv, BaseAnswered
<1>10. WithinBounds'
  BY <1>3 DEF AskInv, WithinBounds
<1> QED BY <1>2, <1>7, <1>8, <1>9, <1>10 DEF AskInv

\* Steps in the memory of the handler or in tables the questions do not show: what
\* is left to prove is what the handler asks.
LEMMA QuietStep ==
  ASSUME AskInv, OneInv', NEW r \in Request,
         pc[r] \notin Stored \union {"idle"}, pc'[r] \notin Stored,
         \A o \in Request \ {r} : pc'[o] = pc[o],
         UNCHANGED <<row, shown, stray, faults>>, HandlerAsks(r)'
  PROVE  AskInv'
<1>1. OneInv /\ \A o \in Request \ {r} : pc'[o] = "idle"
  BY OthersIdle DEF AskInv, Stored
<1>2. \A s \in Session : ~AwaitsResponse(s) /\ ~AwaitsResponse(s)'
  BY <1>1, NobodyAwaits DEF AwaitsResponse, Stored
<1>3. PICK b \in Nat : b = Budget
  BY <1>1, BudgetTyped DEF OneInv, IInv
<1>4. Budget' = b
  BY <1>3 DEF Budget
<1>5. \A s \in Session : SessionAsks(s)'
  BY <1>1, <1>2, <1>3, <1>4, SessionsStillAsk DEF AskInv
<1>6. WithinBounds' /\ BaseAnswered'
  BY DEF AskInv, WithinBounds, BaseAnswered
<1> QED BY <1>1, <1>5, <1>6, AskStep

LEMMA ReadAsks ==
  ASSUME AskInv, NEW r \in Request, ReadSession(r) \/ Reject(r)
  PROVE  AskInv'
<1>1. TypeOK /\ OneInv /\ HandlerAsks(r) /\ job[r] \in Job
  BY DEF AskInv, OneInv, IInv, TypeOK
<1>2. OneInv'
  BY ThinksAlone DEF AskInv
<1>3. /\ pc[r] = "read" /\ pc'[r] \in {"diagnose", "idle"}
      /\ \A o \in Request \ {r} : pc'[o] = pc[o]
      /\ UNCHANGED <<row, shown, stray, faults>> /\ Budget' = Budget
  BY <1>1 DEF ReadSession, Reject, Goto, TypeOK, tables, client, Budget
<1>4. HandlerAsks(r)'
  <2>1. CASE Reject(r)
    <3>1. pc'[r] = "idle"
      BY <1>1, <2>1 DEF Reject, Goto, TypeOK
    <3> QED BY <3>1 DEF HandlerAsks, Asks, Working, Answered, Stored
  <2>2. CASE ReadSession(r)
    <3>1. /\ pc'[r] = "diagnose" /\ job'[r].questions = row[job[r].session].questions
          /\ job'[r].session = job[r].session /\ job'[r].question = job[r].question
          /\ job'[r].next = job[r].next
      BY <1>1, <2>2 DEF ReadSession, Goto, TypeOK, Job
    <3>2. job[r].question \in Ids(row[job[r].session].questions)
      BY <2>2 DEF ReadSession, Accepts
    <3> QED BY <1>1, <1>3, <3>1, <3>2 DEF HandlerAsks, Asks, Working, Answered, Stored
  <2> QED BY <2>1, <2>2
<1> QED BY <1>2, <1>3, <1>4, QuietStep DEF Stored

\* The question an id of the session stands for has that id.
LEMMA NamedIsAsked ==
  ASSUME NEW Q \in Seq(Question), Len(Q) <= 10, NEW id \in Ids(Q)
  PROVE  \E i \in DOMAIN Q : QuestionNamed(Q, id) = Q[i] /\ Q[i].id = id
<1> DEFINE P == {i \in DOMAIN Q : Q[i].id = id}
<1>1. P \subseteq 1..10 /\ P # {}
  BY LenProperties DEF Ids
<1>2. First(P) \in P
  BY <1>1, FirstIsIn
<1> QED BY <1>2 DEF QuestionNamed

LEMMA DiagnoseAsks ==
  ASSUME AskInv, NEW r \in Request, Diagnose(r)
  PROVE  AskInv'
<1>1. /\ TypeOK /\ OneInv /\ HandlerAsks(r) /\ HandlerRow(r) /\ HandlerOK(r) /\ job[r] \in Job
      /\ Fits(job[r].questions, job[r].answers)
  BY DEF AskInv, OneInv, IInv, HandlerInv, TypeOK, Bounded
<1>2. OneInv'
  BY ThinksAlone DEF AskInv
<1> DEFINE question == QuestionNamed(job[r].questions, job[r].question)
           answer(d) == [question |-> job[r].question, probe |-> ~question.base, signal |-> d.signal]
           stored == row[job[r].session]
<1>3. /\ pc[r] = "diagnose" /\ job[r].question \in QuestionId /\ job[r].session \in Session
      /\ job[r].questions = stored.questions /\ job[r].answers = stored.answers
      /\ job[r].question \in Ids(stored.questions)
      /\ job[r].next = "" /\ stored.status # "absent"
  BY <1>1 DEF Diagnose, HandlerOK, InStep, HandlerAsks, Asks, HandlerRow, Working
<1>4. PICK d \in Diagnosis :
        LET answers == Append(job[r].answers, answer(d))
        IN  /\ job' = [job EXCEPT ![r].answers = answers]
            /\ pc' = [pc EXCEPT ![r] = IF AsksProbe(question, d, answers) THEN "probe"
                                       ELSE AfterAnswer(job[r].questions, answers)]
            /\ UNCHANGED <<tables, client>>
  BY DEF Diagnose, Goto
<1>5. answer(d) \in Answer /\ answer(d).question = job[r].question
  BY <1>3, SignalAssumption DEF Diagnosis, Answer
<1>6. /\ job'[r].answers = Append(job[r].answers, answer(d))
      /\ job'[r].questions = job[r].questions /\ job'[r].next = job[r].next
      /\ job'[r].session = job[r].session /\ job'[r].question = job[r].question
  BY <1>1, <1>4 DEF TypeOK, Job
<1>7. /\ pc'[r] \in {"probe", "report", "save"} /\ \A o \in Request \ {r} : pc'[o] = pc[o]
      /\ pc'[r] = "probe" => question.base
  BY <1>1, <1>4 DEF AfterAnswer, AsksProbe, TypeOK
<1>8. question.base => job[r].question \notin ProbeId
  <2>1. Len(job[r].questions) <= 10 /\ job[r].questions \in Seq(Question)
    <3>1. job[r].questions \in Seq(Question) /\ job[r].answers \in Seq(Answer)
      BY <1>3, <1>1, TablesTyped
    <3>2. PICK n \in Nat, m \in Nat : n = Len(job[r].questions) /\ m = Len(job[r].answers)
      BY <3>1, LenProperties
    <3>3. n <= 4 + m /\ m <= 6
      BY <1>1, <3>2, LimitIsSix DEF Fits
    <3> QED BY <3>1, <3>2, <3>3
  <2>2. PICK i \in DOMAIN job[r].questions :
          question = job[r].questions[i] /\ job[r].questions[i].id = job[r].question
    BY <1>3, <2>1, NamedIsAsked
  <2>3. QuestionsOK(job[r].questions)
    BY <1>3 DEF AskInv, SessionAsks
  <2> QED BY <2>2, <2>3 DEF QuestionsOK
<1>9. UNCHANGED <<row, shown, stray, faults>> /\ Budget' = Budget
  BY <1>4 DEF tables, client, Budget
<1>10. HandlerAsks(r)'
  <2> HIDE DEF answer, question
  <2>1. Adds(job'[r], stored)
    BY <1>3, <1>5, <1>6 DEF Adds
  <2>2. HandlerAsks(r)' <=> Asks(pc'[r], job'[r], stored, shown[job[r].session], Budget)
    BY <1>6, <1>9 DEF HandlerAsks
  <2>3. job[r].question # shown[job[r].session] =>
          Covered(stored.questions, stored.answers,
                  Due(shown[job[r].session], stored.answers) + 2, Budget)
    BY <1>1, <1>3 DEF HandlerAsks, Asks, Working
  <2>4. pc'[r] # "idle" /\ pc'[r] \notin Stored /\ pc'[r] \notin {"read", "diagnose"}
    BY <1>7 DEF Stored
  <2>5. pc'[r] = "probe" => job'[r].question \notin ProbeId
    BY <1>6, <1>7, <1>8
  <2> HIDE DEF stored
  <2> QED BY <1>3, <1>6, <2>1, <2>2, <2>3, <2>4, <2>5 DEF Asks
<1> QED BY <1>2, <1>3, <1>7, <1>9, <1>10, QuietStep DEF Stored

LEMMA ProbeAsks ==
  ASSUME AskInv, NEW r \in Request, GenerateProbe(r)
  PROVE  AskInv'
<1>1. TypeOK /\ OneInv /\ HandlerAsks(r) /\ job[r] \in Job
  BY DEF AskInv, OneInv, IInv, TypeOK
<1>2. OneInv'
  BY ThinksAlone DEF AskInv
<1> DEFINE stored == row[job[r].session]
           sh == shown[job[r].session]
           probed(id) == Append(job[r].questions, [id |-> id, base |-> FALSE])
<1>3. PICK id \in ProbeId :
        /\ job' = [job EXCEPT ![r].questions = probed(id), ![r].next = id]
        /\ pc' = [pc EXCEPT ![r] = AfterAnswer(probed(id), job[r].answers)]
  BY DEF GenerateProbe, Goto
<1>4. /\ pc[r] = "probe" /\ UNCHANGED <<row, shown, stray, faults>> /\ Budget' = Budget
      /\ pc'[r] \in {"report", "save"} /\ \A o \in Request \ {r} : pc'[o] = pc[o]
  BY <1>1, <1>3 DEF GenerateProbe, AfterAnswer, TypeOK, tables, client, Budget
<1>5. /\ job'[r].answers = job[r].answers /\ job'[r].session = job[r].session
      /\ job'[r].question = job[r].question /\ job'[r].next = id
      /\ job'[r].questions = probed(id)
  BY <1>1, <1>3 DEF TypeOK, Job
<1>6. /\ stored.status # "absent" /\ job[r].question \in QuestionId
      /\ job[r].question \in Ids(stored.questions) /\ job[r].question \notin ProbeId
      /\ job[r].questions = stored.questions
      /\ \E a \in Answer : a.question = job[r].question /\ job[r].answers = Append(stored.answers, a)
      /\ job[r].question # sh =>
           Covered(stored.questions, stored.answers, Due(sh, stored.answers) + 2, Budget)
  BY <1>1, <1>4 DEF HandlerAsks, Asks, Adds, Working, Answered
<1>7. Adds(job'[r], stored)
  BY <1>5, <1>6 DEF Adds
<1>8. HandlerAsks(r)'
  <2>1. HandlerAsks(r)' <=> Asks(pc'[r], job'[r], stored, sh, Budget)
    BY <1>4, <1>5 DEF HandlerAsks
  <2>2. pc'[r] # "idle" /\ pc'[r] \notin Stored /\ pc'[r] \notin {"read", "diagnose", "probe"}
    BY <1>4 DEF Stored
  <2> HIDE DEF stored, sh
  <2> QED BY <1>5, <1>6, <1>7, <2>1, <2>2 DEF Asks
<1> QED BY <1>2, <1>4, <1>8, QuietStep DEF Stored

\* Steps after the questions and answers to write are made.
LEMMA FinalAsks ==
  ASSUME AskInv, NEW r \in Request,
         \/ NoProbe(r) \/ ComposeReport(r) \/ UpsertConceptMastery(r) \/ UpsertStudentSkill(r)
         \/ WriteEvaluation(r) \/ SaveAdaptationSummary(r)
  PROVE  AskInv'
<1>1. TypeOK /\ OneInv /\ HandlerAsks(r) /\ job[r] \in Job
  BY DEF AskInv, OneInv, IInv, TypeOK
<1>2. OneInv'
  BY ThinksAlone, WritesAlone, RecordsAlone DEF AskInv
<1>3. /\ pc[r] \in Answered /\ pc'[r] \in Answered \ {"probe"}
      /\ \A o \in Request \ {r} : pc'[o] = pc[o]
      /\ UNCHANGED <<row, shown, stray, faults>> /\ Budget' = Budget
  BY <1>1 DEF NoProbe, ComposeReport, UpsertConceptMastery, UpsertStudentSkill, WriteEvaluation,
     SaveAdaptationSummary, AfterAnswer, Goto, TypeOK, tables, client, Budget, Answered, Working
<1>4. /\ job'[r].session = job[r].session /\ job'[r].question = job[r].question
      /\ job'[r].questions = job[r].questions /\ job'[r].answers = job[r].answers
      /\ job'[r].next = job[r].next
  <2>1. CASE ComposeReport(r)
    <3>1. PICK v : job' = [job EXCEPT ![r].verdict = v]
      BY <2>1 DEF ComposeReport
    <3> QED BY <1>1, <3>1 DEF TypeOK, Job
  <2>2. CASE ~ComposeReport(r)
    BY <2>2 DEF NoProbe, UpsertConceptMastery, UpsertStudentSkill, WriteEvaluation, SaveAdaptationSummary
  <2> QED BY <2>1, <2>2
<1>5. HandlerAsks(r)'
  <2> DEFINE stored == row[job[r].session]
             sh == shown[job[r].session]
  <2>1. HandlerAsks(r)' <=> Asks(pc'[r], job'[r], stored, sh, Budget)
    BY <1>3, <1>4 DEF HandlerAsks
  <2>2. Asks(pc[r], job[r], stored, sh, Budget)
    BY <1>1 DEF HandlerAsks
  <2>3. Adds(job'[r], stored)
    BY <1>3, <1>4, <2>2 DEF Asks, Adds
  <2> HIDE DEF stored, sh
  <2> QED BY <1>3, <1>4, <2>1, <2>2, <2>3 DEF Asks, Answered, Working, Stored
<1> QED BY <1>2, <1>3, <1>5, QuietStep DEF Stored, Answered, Working

\* An answer to the question shown, or a stray one that was paid for, leaves its
\* session covered: with a probe to answer when the question was a base one, and
\* with the question shown once more when the response is lost.
LEMMA AnswerCovered ==
  ASSUME NEW Q \in Seq(Question), NEW A \in Seq(Answer), NEW a \in Answer, NEW shownNow,
         NEW b \in Nat, QuestionsOK(Q), a.question \in Ids(Q),
         Covered(Q, A, Due(shownNow, A), b),
         a.question # shownNow => Covered(Q, A, Due(shownNow, A) + 2, b)
  PROVE  /\ Covered(Q, Append(A, a), 0, b)
         /\ a.question \notin ProbeId => Covered(Q, Append(A, a), 1, b)
         /\ Covered(Q, Append(A, a), Due(shownNow, Append(A, a)), b + 1)
<1> DEFINE new == Append(A, a)
           q == a.question
<1>1. AnsweredIds(new) = AnsweredIds(A) \union {q}
  BY AnsweredMore
<1>2. 0 \in Nat /\ 1 \in Nat /\ 2 \in Nat /\ b + 1 \in Nat
  OBVIOUS
<1> HIDE DEF new, q
<1>3. CASE q # shownNow
  <2>1. PICK d \in 0..2 : d = Due(shownNow, A)
    BY DEF Due
  <2>2. Due(shownNow, new) = d
    BY <1>1, <1>3, <2>1 DEF Due
  <2>3. d + 2 \in Nat /\ 0 + 1 + b <= (d + 2) + b /\ 1 + 1 + b <= (d + 2) + b
        /\ d + 1 + b <= (d + 2) + (b + 1)
    BY <2>1
  <2>4. Covered(Q, A, d + 2, b)
    BY <1>3, <2>1 DEF q
  <2>5. Covered(Q, new, 0, b)
    BY <1>2, <2>3, <2>4, AnswerPaid DEF new
  <2>6. Covered(Q, new, 1, b)
    BY <1>2, <2>3, <2>4, AnswerPaid DEF new
  <2>7. Covered(Q, new, d, b + 1)
    BY <1>2, <2>1, <2>3, <2>4, AnswerPaid DEF new
  <2> QED BY <2>2, <2>5, <2>6, <2>7 DEF new
<1>4. CASE q = shownNow /\ q \in ProbeId
  <2>1. Due(shownNow, A) = 1 /\ Due(shownNow, new) = 1
    BY <1>4 DEF Due
  <2>2. Covered(Q, A, 1, b)
    BY <2>1
  <2>3. 0 + 1 + b <= 1 + b /\ 1 + 1 + b <= 1 + (b + 1)
    OBVIOUS
  <2>4. Covered(Q, new, 0, b)
    BY <1>2, <2>2, <2>3, AnswerPaid DEF new
  <2>5. Covered(Q, new, 1, b + 1)
    BY <1>2, <2>2, <2>3, AnswerPaid DEF new
  <2> QED BY <1>4, <2>1, <2>4, <2>5 DEF new, q
<1>5. CASE q = shownNow /\ q \notin ProbeId /\ q \in AnsweredIds(A)
  <2>1. Due(shownNow, A) = 2 /\ Due(shownNow, new) = 2
    BY <1>1, <1>5 DEF Due
  <2>2. Covered(Q, A, 2, b)
    BY <2>1
  <2>3. 0 + 1 + b <= 2 + b /\ 1 + 1 + b <= 2 + b /\ 2 + 1 + b <= 2 + (b + 1)
    OBVIOUS
  <2>4. Covered(Q, new, 0, b)
    BY <1>2, <2>2, <2>3, AnswerPaid DEF new
  <2>5. Covered(Q, new, 1, b)
    BY <1>2, <2>2, <2>3, AnswerPaid DEF new
  <2>6. Covered(Q, new, 2, b + 1)
    BY <1>2, <2>2, <2>3, AnswerPaid DEF new
  <2> QED BY <2>1, <2>4, <2>5, <2>6 DEF new
<1>6. CASE q = shownNow /\ q \notin ProbeId /\ q \notin AnsweredIds(A)
  <2>1. Due(shownNow, A) = 0 /\ Due(shownNow, new) = 2
    BY <1>1, <1>6 DEF Due
  <2>2. PICK i \in DOMAIN Q : Q[i].base /\ Q[i].id = q
    BY <1>6 DEF Ids, QuestionsOK, q
  <2>3. Covered(Q, A, 0, b)
    BY <2>1
  <2>4. 0 + 1 + b <= 0 + b + 2 /\ 1 + 1 + b <= 0 + b + 2 /\ 2 + 1 + b <= 0 + (b + 1) + 2
    OBVIOUS
  <2>5. Covered(Q, new, 0, b)
    BY <1>2, <1>6, <2>2, <2>3, <2>4, FirstAnswerPays DEF new, q
  <2>6. Covered(Q, new, 1, b)
    BY <1>2, <1>6, <2>2, <2>3, <2>4, FirstAnswerPays DEF new, q
  <2>7. Covered(Q, new, 2, b + 1)
    BY <1>2, <1>6, <2>2, <2>3, <2>4, FirstAnswerPays DEF new, q
  <2> QED BY <2>1, <2>5, <2>6, <2>7 DEF new
<1> QED BY <1>3, <1>4, <1>5, <1>6

\* Within the bounds there is room for every base question before the limit.
LEMMA LimitLeavesNone ==
  ASSUME RoomForAll, WithinBounds, stray \in Nat, faults \in Nat,
         NEW Q \in Seq(Question), NEW A \in Seq(Answer), QuestionsOK(Q),
         Covered(Q, A, 0, Budget), AtHardLimit(A)
  PROVE  BaseOpen(Q, A) = {}
<1> SUFFICES ASSUME BaseOpen(Q, A) # {} PROVE FALSE
  OBVIOUS
<1>1. PICK n \in Nat : n = Cardinality(BaseDone(Q, A))
  BY DoneFinite
<1>2. PICK p \in 2..4 : p = PaceConfig[CoursePace].base_q
  BY BaseQuestions
<1>3. PICK l \in Nat : l = Len(A)
  BY LenProperties
<1>4. n < p
  BY <1>1, <1>2, DoneBounded
<1>5. l + 0 <= 2 * n + (2 * stray + faults)
  BY <1>1, <1>3 DEF Covered, Budget
<1>6. PICK s \in Nat, f \in Nat : s = MaxStray /\ f = MaxFaults
  BY BoundAssumption
<1>7. 2 * p + 2 * s + f <= 7 /\ stray <= s /\ faults <= f /\ l >= 6
  BY <1>2, <1>3, <1>6, LimitIsSix DEF RoomForAll, WithinBounds, AtHardLimit
<1> QED BY <1>4, <1>5, <1>7

LEMMA SaveAsks ==
  ASSUME RoomForAll, AskInv, NEW r \in Request, SaveSession(r)
  PROVE  AskInv'
<1>1. TypeOK /\ OneInv /\ HandlerAsks(r) /\ HandlerOK(r)
  BY DEF AskInv, OneInv, IInv, HandlerInv
<1>2. OneInv'
  BY SavesAlone DEF AskInv
<1>3. PICK s \in Session : s = job[r].session
  BY <1>1 DEF SaveSession, HandlerOK, InStep
<1>4. /\ pc[r] = "save" /\ pc'[r] \in Stored /\ \A o \in Request \ {r} : pc'[o] = pc[o]
      /\ row' = [row EXCEPT ![s] = RowFrom(job[r])]
      /\ UNCHANGED <<job, shown, stray, faults>> /\ Budget' = Budget
  BY <1>1, <1>3 DEF SaveSession, Goto, TypeOK, client, Stored, Budget
<1>5. row'[s] = RowFrom(job[r]) /\ \A t \in Session : t # s => row'[t] = row[t]
  BY <1>1, <1>4 DEF TypeOK
<1>6. /\ row'[s].status = IF job[r].verdict.decision # "" THEN "completed" ELSE "active"
      /\ row'[s].answers = job[r].answers /\ row'[s].questions = job[r].questions
  <2>1. /\ RowFrom(job[r]).status = IF job[r].verdict.decision # "" THEN "completed" ELSE "active"
        /\ RowFrom(job[r]).answers = job[r].answers /\ RowFrom(job[r]).questions = job[r].questions
    BY DEF RowFrom
  <2> QED BY <1>5, <2>1
<1> DEFINE Q == row[s].questions
           A == row[s].answers
           sh == shown[s]
<1>7. /\ Q \in Seq(Question) /\ A \in Seq(Answer) /\ Budget \in Nat
      /\ job[r].questions \in Seq(Question) /\ job[r].answers \in Seq(Answer)
  <2>1. row'[s].questions \in Seq(Question) /\ row'[s].answers \in Seq(Answer)
    <3>1. TypeOK'
      BY <1>2 DEF OneInv, IInv
    <3>2. row'[s] \in Row
      BY <3>1 DEF TypeOK
    <3> QED BY <3>2 DEF Row
  <2> QED BY <1>1, <1>6, <2>1, TablesTyped
<1>8. /\ job[r].question \in Ids(Q) /\ job[r].question \in QuestionId /\ Adds(job[r], row[s])
      /\ job[r].question # sh => Covered(Q, A, Due(sh, A) + 2, Budget)
  BY <1>1, <1>3, <1>4 DEF HandlerAsks, Asks, Working, Answered
<1>9. PICK a \in Answer : a.question = job[r].question /\ job[r].answers = Append(A, a)
  BY <1>8 DEF Adds
<1>10. QuestionsOK(Q) /\ Covered(Q, A, Due(sh, A), Budget)
  <2>1. ~AwaitsResponse(s)
    BY <1>1, <1>4, NobodyAwaits DEF Stored
  <2>2. Covered(Q, A, Due(sh, A), Budget + 0)
    BY <2>1 DEF AskInv, SessionAsks
  <2>3. Budget + 0 = Budget
    BY <1>7
  <2> QED BY <2>2, <2>3 DEF AskInv, SessionAsks
<1>11. PICK b \in Nat : b = Budget
  BY <1>7
<1>12. /\ Covered(Q, job[r].answers, 0, b)
       /\ job[r].question \notin ProbeId => Covered(Q, job[r].answers, 1, b)
       /\ Covered(Q, job[r].answers, Due(sh, job[r].answers), b + 1)
  <2> HIDE DEF Q, A, sh
  <2> QED BY <1>7, <1>8, <1>9, <1>10, <1>11, AnswerCovered
<1>13. /\ QuestionsOK(job[r].questions)
       /\ \A due, budget : Covered(Q, job[r].answers, due, budget)
                             => Covered(job[r].questions, job[r].answers, due, budget)
       /\ job[r].next \in ProbeId \union {""}
       /\ job[r].next # "" => job[r].question \notin ProbeId
  <2>1. CASE job[r].questions = Q /\ job[r].next = ""
    BY <1>10, <2>1
  <2>2. CASE /\ job[r].next \in ProbeId /\ job[r].question \notin ProbeId
             /\ job[r].questions = Append(Q, [id |-> job[r].next, base |-> FALSE])
    <3> HIDE DEF Q
    <3>1. /\ QuestionsOK(job[r].questions)
          /\ BaseOpen(job[r].questions, job[r].answers) = BaseOpen(Q, job[r].answers)
          /\ BaseDone(job[r].questions, job[r].answers) = BaseDone(Q, job[r].answers)
      BY <1>7, <1>10, <2>2, ProbeCostsNothing
    <3> QED BY <2>2, <3>1 DEF Covered
  <2> QED BY <1>8, <2>1, <2>2 DEF Adds
<1>14. /\ Covered(job[r].questions, job[r].answers, 0, b)
       /\ Covered(job[r].questions, job[r].answers, IF job[r].next = "" THEN 0 ELSE 1, b)
       /\ Covered(job[r].questions, job[r].answers, Due(sh, job[r].answers), b + 1)
  <2>1. CASE job[r].next = ""
    BY <1>12, <1>13, <2>1
  <2>2. CASE job[r].next # ""
    BY <1>12, <1>13, <2>2
  <2> QED BY <2>1, <2>2
<1>15. HandlerAsks(r)'
  <2>1. HandlerAsks(r)' <=> Asks(pc'[r], job[r], row'[s], sh, b)
    BY <1>3, <1>4, <1>11 DEF HandlerAsks
  <2>2. pc'[r] \notin Working /\ pc'[r] \notin Answered /\ pc'[r] # "read" /\ pc'[r] # "probe"
    BY <1>4 DEF Working, Answered, Stored
  <2>3. pc'[r] \notin {"read", "diagnose", "probe"}
    BY <1>4 DEF Stored
  <2>4. row'[s].status # "absent" /\ job[r].question \in QuestionId
    BY <1>6, <1>8
  <2>5. Covered(row'[s].questions, row'[s].answers, IF job[r].next = "" THEN 0 ELSE 1, b)
    BY <1>6, <1>14
  <2>6. row'[s].questions = job[r].questions /\ row'[s].answers = job[r].answers
        /\ job[r].next \in ProbeId \union {""}
    BY <1>6, <1>13
  <2> HIDE DEF sh
  <2> QED BY <2>1, <2>2, <2>3, <2>4, <2>5, <2>6 DEF Asks
<1>16. ASSUME NEW t \in Session
       PROVE  SessionAsks(t)'
  <2>1. CASE t = s
    <3>1. AwaitsResponse(s)'
      BY <1>3, <1>4 DEF AwaitsResponse
    <3>2. row'[s].status # "absent"
      BY <1>6
    <3> QED BY <1>4, <1>6, <1>11, <1>13, <1>14, <2>1, <3>1, <3>2 DEF SessionAsks
  <2>2. CASE t # s
    <3>1. ~AwaitsResponse(t) /\ ~AwaitsResponse(t)'
      <4>1. \A o \in Request \ {r} : pc[o] = "idle"
        BY <1>1, <1>4, OthersIdle
      <4> QED BY <1>3, <1>4, <2>2, <4>1 DEF AwaitsResponse, Stored
    <3>2. SessionAsks(t) /\ row'[t] = row[t]
      BY <1>5, <2>2 DEF AskInv
    <3> QED BY <1>4, <3>1, <3>2 DEF SessionAsks
  <2> QED BY <2>1, <2>2
<1>17. BaseAnswered'
  <2> SUFFICES ASSUME NEW t \in Session, row'[t].status = "completed",
                      NEW i \in DOMAIN row'[t].questions, row'[t].questions[i].base
               PROVE  row'[t].questions[i].id \in AnsweredIds(row'[t].answers)
    BY DEF BaseAnswered
  <2>1. CASE t # s
    BY <1>5, <2>1 DEF AskInv, BaseAnswered
  <2>2. CASE t = s
    <3>1. ShouldFinalize(job[r].questions, job[r].answers)
      <4>1. job[r].verdict.decision # ""
        BY <1>6, <2>2
      <4> QED BY <1>1, <1>4, <4>1 DEF HandlerOK, InStep
    <3>2. CASE AtHardLimit(job[r].answers)
      <4>1. BaseOpen(job[r].questions, job[r].answers) = {}
        BY <1>1, <1>7, <1>11, <1>13, <1>14, <3>2, LimitLeavesNone DEF AskInv, TypeOK
      <4> QED BY <1>6, <2>2, <4>1 DEF BaseOpen
    <3>3. CASE Remaining(job[r].questions, job[r].answers) = {}
      BY <1>6, <2>2, <3>3 DEF Remaining
    <3> QED BY <3>1, <3>2, <3>3 DEF ShouldFinalize
  <2> QED BY <2>1, <2>2
<1>18. WithinBounds' /\ \A o \in Request \ {r} : pc'[o] = "idle"
  BY <1>1, <1>4, OthersIdle DEF AskInv, WithinBounds
<1> QED BY <1>2, <1>15, <1>16, <1>17, <1>18, AskStep

LEMMA CompleteAsks ==
  ASSUME AskInv, NEW r \in Request, CompleteModule(r)
  PROVE  AskInv'
<1>1. TypeOK /\ OneInv /\ HandlerAsks(r)
  BY DEF AskInv, OneInv, IInv
<1>2. OneInv'
  BY EndsAlone DEF AskInv
<1>3. /\ pc[r] = "complete" /\ pc'[r] = "respond" /\ \A o \in Request \ {r} : pc'[o] = pc[o]
      /\ UNCHANGED <<job, row, shown, stray, faults>> /\ Budget' = Budget
  BY <1>1 DEF CompleteModule, Goto, TypeOK, client, Budget
<1>4. HandlerAsks(r)'
  BY <1>1, <1>3 DEF HandlerAsks, Asks, Working, Answered, Stored
<1>5. \A s \in Session : AwaitsResponse(s)' <=> AwaitsResponse(s)
  BY <1>3 DEF AwaitsResponse, Stored
<1>6. \A s \in Session : SessionAsks(s)'
  BY <1>3, <1>5 DEF AskInv, SessionAsks
<1>7. WithinBounds' /\ BaseAnswered' /\ \A o \in Request \ {r} : pc'[o] = "idle"
  BY <1>1, <1>3, OthersIdle DEF AskInv, WithinBounds, BaseAnswered
<1> QED BY <1>2, <1>4, <1>6, <1>7, AskStep

LEMMA FaultAsks ==
  ASSUME AskInv, NEW r \in Request, Fault(r)
  PROVE  AskInv'
<1>1. TypeOK /\ OneInv
  BY DEF AskInv, OneInv, IInv
<1>2. OneInv'
  BY EndsAlone DEF AskInv
<1>3. /\ pc[r] # "idle" /\ pc'[r] = "idle" /\ \A o \in Request \ {r} : pc'[o] = "idle"
      /\ UNCHANGED <<row, shown, stray>> /\ faults' = faults + 1 /\ faults < MaxFaults
  BY <1>1, OthersIdle DEF Fault, Goto, TypeOK, tables
<1>4. HandlerAsks(r)'
  BY <1>3 DEF HandlerAsks, Asks, Working, Answered, Stored
<1>5. \A s \in Session : ~AwaitsResponse(s)'
  BY <1>3 DEF AwaitsResponse, Stored
<1>6. PICK b \in Nat : b = Budget /\ Budget' = b + 1
  <2>1. stray \in Nat /\ faults \in Nat
    BY <1>1 DEF TypeOK
  <2>2. PICK b \in Nat : b = 2 * stray + faults
    BY <2>1
  <2>3. 2 * stray' + faults' = b + 1
    BY <1>3, <2>1, <2>2
  <2> QED BY <2>2, <2>3 DEF Budget
<1>7. \A s \in Session : SessionAsks(s)'
  BY <1>1, <1>3, <1>5, <1>6, SessionsStillAsk DEF AskInv
<1>8. WithinBounds' /\ BaseAnswered'
  <2>1. WithinBounds'
    <3>1. faults \in Nat /\ MaxFaults \in Nat /\ stray <= MaxStray
      BY <1>1, BoundAssumption DEF AskInv, WithinBounds, TypeOK
    <3>2. stray' <= MaxStray /\ faults' <= MaxFaults
      BY <1>3, <3>1
    <3> QED BY <3>2 DEF WithinBounds
  <2> QED BY <1>3, <2>1 DEF AskInv, BaseAnswered
<1> QED BY <1>2, <1>3, <1>4, <1>7, <1>8, AskStep

\* The response shows an open base question when there is one, or a probe.
LEMMA RespondAsks ==
  ASSUME AskInv, NEW r \in Request, Respond(r)
  PROVE  AskInv'
<1>1. TypeOK /\ OneInv /\ HandlerAsks(r) /\ HandlerOK(r) /\ Bounded
  BY DEF AskInv, OneInv, IInv, HandlerInv
<1>2. OneInv'
  BY EndsAlone DEF AskInv
<1>3. PICK s \in Session : s = job[r].session
  BY <1>1 DEF Respond, HandlerOK, InStep
<1>4. /\ pc[r] = "respond" /\ pc'[r] = "idle" /\ \A o \in Request \ {r} : pc'[o] = "idle"
      /\ UNCHANGED <<row, stray, faults>> /\ Budget' = Budget
      /\ shown'[s] = NextQuestion(r) /\ \A t \in Session : t # s => shown'[t] = shown[t]
  BY <1>1, <1>3, OthersIdle DEF Respond, Goto, TypeOK, tables, Budget
<1>5. HandlerAsks(r)'
  BY <1>4 DEF HandlerAsks, Asks, Working, Answered, Stored
<1>6. \A t \in Session : ~AwaitsResponse(t)'
  BY <1>4 DEF AwaitsResponse, Stored
<1> DEFINE Q == row[s].questions
           A == row[s].answers
<1>7. /\ Q \in Seq(Question) /\ A \in Seq(Answer) /\ QuestionsOK(Q)
      /\ job[r].questions = Q /\ job[r].answers = A /\ job[r].next \in ProbeId \union {""}
      /\ Covered(Q, A, IF job[r].next = "" THEN 0 ELSE 1, Budget)
  BY <1>1, <1>3, <1>4, TablesTyped DEF AskInv, SessionAsks, HandlerAsks, Asks, Stored
<1>8. PICK b \in Nat : b = Budget
  BY <1>1, BudgetTyped
<1>9. BaseOpen(Q, A) # {} => \/ Due(NextQuestion(r), A) = 0
                             \/ Due(NextQuestion(r), A) = 1 /\ job[r].next # ""
  <2> SUFFICES ASSUME BaseOpen(Q, A) # {}
               PROVE  \/ Due(NextQuestion(r), A) = 0
                      \/ Due(NextQuestion(r), A) = 1 /\ job[r].next # ""
    OBVIOUS
  <2>1. CASE job[r].verdict.decision # ""
    <3>1. NextQuestion(r) = ""
      BY <2>1 DEF NextQuestion
    <3>2. "" \notin AnsweredIds(A)
      <4>1. \A i \in DOMAIN A : A[i] \in Answer
        <5>1. \A X \in Seq(Answer) : \A i \in DOMAIN X : X[i] \in Answer
          OBVIOUS
        <5> QED BY <1>7, <5>1
      <4>2. \A i \in 1..4 : BaseId[i] # ""
        <5>1. BaseId[1] # "" /\ BaseId[2] # "" /\ BaseId[3] # "" /\ BaseId[4] # ""
          BY DEF BaseId
        <5>2. \A i \in 1..4 : i = 1 \/ i = 2 \/ i = 3 \/ i = 4
          OBVIOUS
        <5> QED BY <5>1, <5>2
      <4>3. "" \notin QuestionId
        BY <4>2, ProbeIdAssumption DEF QuestionId
      <4> QED BY <4>1, <4>3 DEF AnsweredIds, Answer
    <3>3. "" \notin ProbeId
      BY ProbeIdAssumption
    <3>4. Due(NextQuestion(r), A) = 0
      BY <3>1, <3>2, <3>3 DEF Due
    <3> QED BY <3>4
  <2>2. CASE job[r].verdict.decision = "" /\ job[r].next # ""
    <3>1. NextQuestion(r) \in ProbeId
      BY <1>7, <2>2 DEF NextQuestion
    <3>2. Due(NextQuestion(r), A) = 1
      BY <3>1 DEF Due
    <3> QED BY <2>2, <3>2
  <2>3. CASE job[r].verdict.decision = "" /\ job[r].next = ""
    <3> DEFINE f == First(Remaining(Q, A))
    <3>1. NextQuestion(r) = Q[f].id
      BY <1>7, <2>3 DEF NextQuestion
    <3>2. BaseOpen(Q, A) \subseteq Remaining(Q, A)
      BY DEF BaseOpen, Remaining
    <3>3. Remaining(Q, A) \subseteq 1..10
      <4>1. PICK n \in Nat, m \in Nat : n = Len(Q) /\ m = Len(A)
        BY <1>7, LenProperties
      <4>2. n <= 4 + m /\ m <= 6
        BY <1>1, <4>1, LimitIsSix DEF Bounded, Fits
      <4>3. DOMAIN Q = 1..n
        BY <1>7, <4>1, LenProperties
      <4> QED BY <4>2, <4>3 DEF Remaining
    <3>4. f \in Remaining(Q, A)
      BY <3>2, <3>3, FirstIsIn
    <3>5. PICK o : o \in BaseOpen(Q, A)
      OBVIOUS
    <3>6. \A j \in Remaining(Q, A) : f <= j
      <4>1. \E i \in Remaining(Q, A) : \A j \in Remaining(Q, A) : i <= j
        BY <3>2, <3>3, <3>5, SmallestPosition
      <4> QED BY <4>1 DEF First
    <3>7. f <= o /\ f \in 1..10 /\ o \in 1..10
      BY <3>2, <3>3, <3>4, <3>5, <3>6
    <3>8. f \in DOMAIN Q /\ o \in DOMAIN Q /\ Q[o].base /\ Q[f].id \notin AnsweredIds(A)
      BY <3>4, <3>5 DEF BaseOpen, Remaining
    <3> HIDE DEF f
    <3>9. Q[f].base
      <4>1. CASE f = o
        BY <3>8, <4>1
      <4>2. CASE f # o
        <5>1. f < o
          BY <3>7, <4>2
        <5> QED BY <1>7, <3>8, <5>1 DEF QuestionsOK
      <4> QED BY <4>1, <4>2
    <3>10. Q[f].id \notin ProbeId
      BY <1>7, <3>8, <3>9 DEF QuestionsOK
    <3>11. Due(NextQuestion(r), A) = 0
      BY <3>1, <3>8, <3>10 DEF Due
    <3> QED BY <2>3, <3>11
  <2> QED BY <2>1, <2>2, <2>3
<1>10. ASSUME NEW t \in Session
       PROVE  SessionAsks(t)'
  <2>1. CASE t # s
    <3>1. ~AwaitsResponse(t)
      BY <1>1, <1>3, <1>4, <2>1, OthersIdle DEF AwaitsResponse, Stored
    <3> QED BY <1>4, <1>6, <2>1, <3>1 DEF AskInv, SessionAsks
  <2>2. CASE t = s
    <3>1. PICK d \in Nat : d = Due(NextQuestion(r), A)
      BY DEF Due
    <3>2. PICK e \in Nat : e = IF job[r].next = "" THEN 0 ELSE 1
      OBVIOUS
    <3>3. Covered(Q, A, e, b)
      BY <1>7, <1>8, <3>2
    <3>4. Covered(Q, A, d, b)
      <4>1. CASE BaseOpen(Q, A) = {}
        BY <4>1 DEF Covered
      <4>2. CASE BaseOpen(Q, A) # {}
        <5>1. CASE d = 0
          <6>1. d + b <= e + b
            BY <5>1
          <6> QED BY <1>7, <1>8, <3>1, <3>2, <3>3, <6>1, StillCovered
        <5>2. CASE d = 1 /\ job[r].next # ""
          <6>1. d = 1 /\ e = 1
            BY <3>2, <5>2
          <6> QED BY <3>3, <6>1
        <5> QED BY <1>9, <3>1, <4>2, <5>1, <5>2
      <4> QED BY <4>1, <4>2
    <3>5. b = Budget' + (IF AwaitsResponse(s)' THEN 1 ELSE 0)
      BY <1>4, <1>6, <1>8
    <3>6. d = Due(shown'[s], row'[s].answers)
      BY <1>4, <3>1
    <3> QED BY <1>4, <2>2, <3>4, <3>5, <3>6 DEF AskInv, SessionAsks
  <2> QED BY <2>1, <2>2
<1>11. WithinBounds' /\ BaseAnswered'
  BY <1>4 DEF AskInv, WithinBounds, BaseAnswered
<1> QED BY <1>2, <1>4, <1>5, <1>10, <1>11, AskStep

LEMMA AskInit == Init => AskInv
<1> SUFFICES ASSUME Init PROVE AskInv
  OBVIOUS
<1>1. OneInv
  BY OneInit
<1>2. WithinBounds
  <2>1. stray = 0 /\ faults = 0 /\ MaxStray \in Nat /\ MaxFaults \in Nat
    BY BoundAssumption DEF Init
  <2> QED BY <2>1 DEF WithinBounds
<1>3. \A r \in Request : HandlerAsks(r)
  BY DEF Init, HandlerAsks, Asks, Working, Answered, Stored
<1>4. ASSUME NEW s \in Session
      PROVE  SessionAsks(s)
  <2>1. row[s].questions = <<>> /\ row[s].status = "absent"
    BY DEF Init, NoRow
  <2>2. QuestionsOK(<<>>) /\ BaseOpen(<<>>, row[s].answers) = {}
    BY DEF QuestionsOK, BaseOpen
  <2> QED BY <2>1, <2>2 DEF SessionAsks, Covered
<1>5. BaseAnswered
  BY DEF Init, NoRow, BaseAnswered
<1> QED BY <1>1, <1>2, <1>3, <1>4, <1>5 DEF AskInv

LEMMA AskInductive ==
  MaxInFlight = 1 /\ ProbesApart /\ RoomForAll /\ AskInv /\ [Next]_vars => AskInv'
<1> SUFFICES ASSUME MaxInFlight = 1, ProbesApart, RoomForAll, AskInv, [Next]_vars PROVE AskInv'
  OBVIOUS
<1>1. CASE \E s \in Session : StartSession(s)
  BY <1>1, StartAsks
<1>2. CASE \E r \in Request, s \in Session, q \in QuestionId : Submit(r, s, q)
  BY <1>2, SubmitAsks
<1>3. CASE \E r \in Request : Handle(r) \/ Fault(r)
  BY <1>3, ReadAsks, DiagnoseAsks, ProbeAsks, FinalAsks, SaveAsks, CompleteAsks, RespondAsks,
     FaultAsks DEF Handle
<1>4. CASE MarkComplete \/ SyncCompletes \/ UNCHANGED vars
  <2>1. OneInv'
    BY <1>4, OneInductive DEF AskInv
  <2>2. UNCHANGED <<row, pc, job, shown, stray, faults>>
    BY <1>4 DEF vars, tables, handler, client, MarkComplete, SyncCompletes, CompletedOtherwise
  <2>3. \A r \in Request : HandlerAsks(r)'
    BY <2>2 DEF AskInv, HandlerAsks, Budget
  <2>4. \A s \in Session : SessionAsks(s)'
    BY <2>2 DEF AskInv, SessionAsks, AwaitsResponse, Budget
  <2>5. WithinBounds' /\ BaseAnswered'
    BY <2>2 DEF AskInv, WithinBounds, BaseAnswered
  <2> QED BY <2>1, <2>3, <2>4, <2>5 DEF AskInv
<1> QED BY <1>1, <1>2, <1>3, <1>4 DEF Next

\* One request at a time, probes with ids of their own, and room within the limit
\* for each base question, its probe and what stray answers and faults add: no
\* session is completed before each of its base questions is answered.
THEOREM NoBaseLeftOut ==
  MaxInFlight = 1 /\ ProbesApart /\ RoomForAll => (Spec => []BaseAnswered)
<1> SUFFICES ASSUME MaxInFlight = 1, ProbesApart, RoomForAll PROVE Spec => []BaseAnswered
  OBVIOUS
<1>1. AskInv /\ [Next]_vars => AskInv'
  BY AskInductive
<1>2. AskInv => BaseAnswered
  BY DEF AskInv
<1> QED BY <1>1, <1>2, AskInit, PTL DEF Spec

\* Under the same conditions a report is on record, agrees with the skill and leaves
\* no base question out.
THEOREM ReportsAreSound ==
  MaxInFlight = 1 /\ ProbesApart /\ RoomForAll => (Spec => []ReportSound)
<1> SUFFICES ASSUME MaxInFlight = 1, ProbesApart, RoomForAll PROVE Spec => []ReportSound
  OBVIOUS
<1>1. CompletedOnRecord /\ SkillMatchesReport /\ BaseAnswered => ReportSound
  BY DEF ReportSound
<1> QED BY <1>1, ReportsOnRecord, SkillAsReported, NoBaseLeftOut, PTL
=============================================================================
