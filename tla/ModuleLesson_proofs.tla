------------------------- MODULE ModuleLesson_proofs -------------------------
(***************************************************************************)
(* Proofs about ModuleLesson: that a lesson is kept and asked about as it  *)
(* is, for a client that waits for it, that the saved questions are whole, *)
(* and that the chat and what follows from it are on record; for lessons   *)
(* with any number of questions, any requests and all bounds.              *)
(***************************************************************************)
EXTENDS ModuleLesson, FiniteSetTheorems, TLAPS

Place == {"idle", "generate", "save_text", "save_videos", "clear", "select", "ask",
          "insert", "grade", "mastery", "ask_tutor", "reply", "doubt", "skill", "load",
          "store"}

Work == [text : Nat, count : 0..Q, next : 1..Q, grades : BOOLEAN, seen : Nat]

TypeInv ==
    /\ content \in Nat /\ videos \in Nat /\ texts \in Nat
    /\ questions \in [1..Q -> Nat]
    /\ pc \in [Request -> Place] /\ job \in [Request -> Work]
    /\ chat \in [asked : Nat, replied : Nat]
    /\ doubts \in Nat /\ counted \in Nat
    /\ limit \in Nat /\ faults \in Nat /\ sessions \in Nat

BaseInv == TypeInv /\ IsFiniteSet(InFlight) /\ Cardinality(InFlight) <= limit

\* Where a request stands with the lesson: a client that waits has no other
\* request while one of its lessons is generated, and no text is there until it is
\* saved; questions are asked about the text that is there.
LessonOK(r) ==
    /\ pc[r] \in Generating => \A o \in Request \ {r} : pc[o] = "idle"
    /\ pc[r] \in {"generate", "save_text"} => content = 0
    /\ pc[r] = "save_text" => job[r].text # 0
    /\ pc[r] \in {"select", "ask", "insert"} => job[r].text = content
    /\ pc[r] \in {"ask", "insert"} => job[r].text # 0
    /\ pc[r] \in {"select", "ask"} => job[r].next = 1
    /\ pc[r] \in Generating => lists = {}
    /\ pc[r] = "insert" => job[r].count \in lists

LessonInv ==
    /\ BaseInv /\ QuestionsGrounded
    /\ lists \subseteq 1..Q /\ (lists # {} => content # 0)
    /\ \A r \in Request : LessonOK(r)

\* Somebody comes to this question before a row that is there stops it.
Fills(r, i) ==
    pc[r] = "insert" /\ job[r].next <= i /\ \A j \in job[r].next..i : questions[j] = 0

\* A question that all lists have is missing.
Missing(i) == lists # {} /\ (\A n \in lists : i <= n) /\ questions[i] = 0

\* A missing question is still filled in.
FillInv ==
    /\ LessonInv
    /\ faults = 0 => \A i \in 1..Q : Missing(i) => \E r \in Request : Fills(r, i)

\* The chats whose reply, doubt or count is still to come.
Replying == {r \in Request : pc[r] = "reply"}
Doubting == {r \in Request : pc[r] = "doubt"}
Pending  == {r \in Request : pc[r] \in {"skill", "load", "store"} /\ ~job[r].grades}

\* Each row has what it follows from, and what is to come is counted for.
RowsInv ==
    /\ chat.replied + Cardinality(Replying) <= chat.asked
    /\ doubts + Cardinality(Doubting) <= chat.replied
    /\ faults = 0 => /\ chat.replied + Cardinality(Replying) = chat.asked
                     /\ doubts + Cardinality(Doubting) = chat.replied

CountInv ==
    /\ counted + Cardinality(Pending) <= doubts
    /\ \A r \in Request : pc[r] = "store" => job[r].seen + Cardinality(Pending) <= doubts
    /\ limit = 1 /\ faults = 0 /\ sessions = 0 =>
         /\ counted + Cardinality(Pending) = doubts
         /\ \A r \in Request : pc[r] = "store" => job[r].seen = counted

SkillInv ==
    /\ "doubt" \in skills => doubts # 0
    /\ faults = 0 /\ doubts # 0 =>
         "doubt" \in skills \/ \E r \in Request : pc[r] = "skill" /\ ~job[r].grades

\* Requests in the chat answer no question.
ChatShape ==
    \A r \in Request :
      /\ pc[r] \in {"ask_tutor", "reply", "doubt", "load", "store"} => ~job[r].grades
      /\ pc[r] \in {"grade", "mastery"} => job[r].grades

ChatInv == BaseInv /\ ChatShape /\ RowsInv /\ CountInv /\ SkillInv

-----------------------------------------------------------------------------
(* Types, and requests that are handled one step at a time. *)

StepOf(r) ==
    \/ BeginGenerate(r) \/ BeginQuestions(r) \/ BeginEvaluate(r) \/ BeginChat(r)
    \/ Handle(r) \/ Fault(r)

Stands(o) == pc'[o] = pc[o] /\ job'[o] = job[o]

LEMMA StepsByKind ==
    ASSUME [Next]_vars
    PROVE  \/ \E r \in Request : StepOf(r)
           \/ SyncModule \/ SessionEnds \/ EvaluationEnds \/ UNCHANGED vars
BY DEF Next, StepOf

LEMMA Bounds == Q \in Nat \ {0} /\ 1 \in 1..Q /\ Lengths \subseteq 1..Q /\ Limits \subseteq Nat
BY QuestionAssumption, BoundAssumption

LEMMA NoJobTyped == NoJob \in Work /\ NoQuestions \in [1..Q -> Nat]
BY Bounds DEF NoJob, Work, NoQuestions

LEMMA EndTyped ==
    ASSUME TypeInv, NEW r \in Request, End(r)
    PROVE  /\ pc' \in [Request -> Place] /\ job' \in [Request -> Work]
           /\ pc'[r] = "idle" /\ job'[r] = NoJob
           /\ \A o \in Request \ {r} : Stands(o)
BY NoJobTyped DEF TypeInv, End, Goto, Stands, Place

LEMMA GotoTyped ==
    ASSUME TypeInv, NEW r \in Request, NEW to \in Place, Goto(r, to)
    PROVE  /\ pc' \in [Request -> Place] /\ pc'[r] = to
           /\ \A o \in Request \ {r} : pc'[o] = pc[o]
BY DEF TypeInv, Goto

LEMMA BeginTyped ==
    ASSUME TypeInv, NEW r \in Request, NEW to \in Place, NEW w \in Work, Begin(r, to, w)
    PROVE  /\ pc' \in [Request -> Place] /\ job' \in [Request -> Work]
           /\ pc[r] = "idle" /\ pc'[r] = to /\ job'[r] = w
           /\ \A o \in Request \ {r} : Stands(o)
           /\ Cardinality(InFlight) < limit
           /\ WaitsForLesson => \A o \in Request : pc[o] \notin Generating
BY DEF TypeInv, Begin, Goto, Stands

\* What a step of a request leaves alone, and the types.
StepTyped(r) ==
    /\ pc' \in [Request -> Place] /\ job' \in [Request -> Work]
    /\ \A o \in Request \ {r} : Stands(o)

LEMMA StepsAreTyped ==
    ASSUME TypeInv, NEW r \in Request, StepOf(r)
    PROVE  StepTyped(r)
<1> pc \in [Request -> Place] /\ job \in [Request -> Work] /\ content \in Nat /\ texts \in Nat
    /\ counted \in Nat
  BY DEF TypeInv
<1>1. CASE BeginGenerate(r) \/ BeginChat(r)
  BY <1>1, BeginTyped, NoJobTyped DEF BeginGenerate, BeginChat, Place, StepTyped
<1>2. CASE BeginQuestions(r) \/ BeginEvaluate(r)
  <2>1. /\ [NoJob EXCEPT !.text = content] \in Work
        /\ [NoJob EXCEPT !.text = content, !.grades = TRUE] \in Work
    <3>1. 0 \in 0..Q /\ 1 \in 1..Q /\ content \in Nat
      BY Bounds
    <3> QED BY <3>1 DEF NoJob, Work
  <2> QED BY <1>2, <2>1, BeginTyped DEF BeginQuestions, BeginEvaluate, Place, StepTyped
<1>3. ASSUME End(r)
      PROVE  StepTyped(r)
  BY <1>3, EndTyped DEF StepTyped
<1>4. ASSUME NEW to \in Place, Goto(r, to), UNCHANGED job
      PROVE  StepTyped(r)
  BY <1>4 DEF Goto, Stands, StepTyped
<1>5. CASE LessonFails(r) \/ ClearQuestions(r) \/ QuestionsFail(r) \/ QuestionNotFound(r)
           \/ SaveProfile(r) \/ Fault(r)
  BY <1>3, <1>5 DEF LessonFails, ClearQuestions, QuestionsFail, QuestionNotFound, SaveProfile, Fault
<1>6. CASE SaveText(r) \/ SaveVideos(r) \/ WriteEvaluation(r) \/ UpsertMastery(r)
  BY <1>4, <1>6 DEF SaveText, SaveVideos, WriteEvaluation, UpsertMastery, Place
<1>7. CASE RecordQuestion(r) \/ RecordReply(r) \/ RecordDoubt(r)
  BY <1>4, <1>7 DEF RecordQuestion, RecordReply, RecordDoubt, Place
<1>8. CASE Answered(r)
  BY <1>3, <1>4, <1>8 DEF Answered, Place
<1>9. CASE SelectQuestions(r) \/ UpsertSkill(r)
  BY <1>3, <1>4, <1>8, <1>9 DEF SelectQuestions, UpsertSkill, Place
<1>10. ASSUME NEW w \in Work, job' = [job EXCEPT ![r] = w],
              UNCHANGED pc \/ \E to \in Place : Goto(r, to)
       PROVE  StepTyped(r)
  BY <1>10 DEF Goto, Stands, StepTyped
<1>11. CASE WriteLesson(r)
  <2>1. [job[r] EXCEPT !.text = texts + 1] \in Work
    BY DEF Work
  <2>2. job' = [job EXCEPT ![r] = [job[r] EXCEPT !.text = texts + 1]]
    BY <1>11 DEF WriteLesson
  <2> QED BY <1>10, <1>11, <2>1, <2>2 DEF WriteLesson, Place
<1>12. CASE LoadProfile(r)
  <2>1. [job[r] EXCEPT !.seen = counted] \in Work
    BY DEF Work
  <2>2. job' = [job EXCEPT ![r] = [job[r] EXCEPT !.seen = counted]]
    BY <1>12 DEF LoadProfile
  <2> QED BY <1>10, <1>12, <2>1, <2>2 DEF LoadProfile, Place
<1>13. CASE InsertQuestion(r)
  <2>1. CASE Answered(r) \/ End(r)
    BY <1>3, <1>8, <2>1
  <2>2. CASE /\ job[r].next < job[r].count /\ UNCHANGED pc
             /\ job' = [job EXCEPT ![r].next = job[r].next + 1]
    <3>1. [job[r] EXCEPT !.next = job[r].next + 1] \in Work
      BY <2>2, Bounds DEF Work
    <3>2. job' = [job EXCEPT ![r] = [job[r] EXCEPT !.next = job[r].next + 1]]
      BY <2>2
    <3> QED BY <1>10, <2>2, <3>1, <3>2
  <2> QED BY <1>13, <2>1, <2>2 DEF InsertQuestion
<1>14. CASE DeleteQuestions(r)
  <2>1. PICK n \in 1..Q : job' = [job EXCEPT ![r] = [job[r] EXCEPT !.count = n]]
    BY <1>14, Bounds DEF DeleteQuestions
  <2>2. [job[r] EXCEPT !.count = n] \in Work
    BY Bounds DEF Work
  <2> QED BY <1>10, <1>14, <2>1, <2>2 DEF DeleteQuestions, Place
<1> QED BY <1>1, <1>2, <1>5, <1>6, <1>7, <1>9, <1>11, <1>12, <1>13, <1>14 DEF StepOf, Handle

\* The tables have their types after every step.
TablesTyped ==
    /\ content' \in Nat /\ videos' \in Nat /\ texts' \in Nat
    /\ questions' \in [1..Q -> Nat]
    /\ chat' \in [asked : Nat, replied : Nat]
    /\ doubts' \in Nat /\ counted' \in Nat
    /\ limit' = limit /\ faults' \in Nat /\ sessions' \in Nat

LEMMA TablesAreTyped ==
    ASSUME TypeInv, [Next]_vars
    PROVE  TablesTyped
<1> /\ content \in Nat /\ videos \in Nat /\ texts \in Nat /\ questions \in [1..Q -> Nat]
    /\ chat \in [asked : Nat, replied : Nat] /\ doubts \in Nat /\ counted \in Nat
    /\ faults \in Nat /\ sessions \in Nat
  BY DEF TypeInv
<1>1. ASSUME NEW r \in Request, StepOf(r)
      PROVE  TablesTyped
  <2> job[r] \in Work
    BY DEF TypeInv
  <2>1. CASE BeginGenerate(r) \/ BeginQuestions(r) \/ BeginEvaluate(r) \/ BeginChat(r)
             \/ LessonFails(r) \/ SelectQuestions(r) \/ QuestionsFail(r)
             \/ QuestionNotFound(r) \/ LoadProfile(r)
    BY <2>1 DEF BeginGenerate, BeginQuestions, BeginEvaluate, BeginChat, LessonFails,
                SelectQuestions, QuestionsFail, QuestionNotFound, LoadProfile, lesson, aside,
                traces, TablesTyped
  <2>2. CASE WriteLesson(r) \/ SaveText(r) \/ SaveVideos(r)
    BY <2>2 DEF WriteLesson, SaveText, SaveVideos, lesson, aside, traces, TablesTyped, Work
  <2>3. CASE ClearQuestions(r) \/ DeleteQuestions(r)
    BY <2>3, NoJobTyped DEF ClearQuestions, DeleteQuestions, aside, traces, TablesTyped
  <2>4. CASE InsertQuestion(r)
    BY <2>4 DEF InsertQuestion, aside, traces, TablesTyped, Work
  <2>5. CASE WriteEvaluation(r) \/ UpsertMastery(r) \/ UpsertSkill(r)
    BY <2>5 DEF WriteEvaluation, UpsertMastery, UpsertSkill, lesson, TablesTyped
  <2>8. CASE RecordDoubt(r)
    BY <2>8 DEF RecordDoubt, lesson, TablesTyped
  <2>9. CASE SaveProfile(r)
    <3>1. counted' = job[r].seen + 1 /\ job[r].seen \in Nat
      BY <2>9 DEF SaveProfile, Work
    <3>2. counted' \in Nat
      BY <3>1
    <3> QED BY <2>9, <3>2 DEF SaveProfile, lesson, TablesTyped
  <2>6. CASE RecordQuestion(r) \/ RecordReply(r)
    BY <2>6 DEF RecordQuestion, RecordReply, lesson, TablesTyped
  <2>7. CASE Fault(r)
    BY <2>7 DEF Fault, lesson, aside, traces, TablesTyped
  <2> QED BY <1>1, <2>1, <2>2, <2>3, <2>4, <2>5, <2>6, <2>7, <2>8, <2>9 DEF StepOf, Handle
<1>2. CASE SyncModule \/ SessionEnds \/ EvaluationEnds \/ UNCHANGED vars
  BY <1>2 DEF SyncModule, SessionEnds, EvaluationEnds, vars, lesson, aside, traces, TablesTyped
<1> QED BY <1>1, <1>2, StepsByKind

LEMMA AddOne ==
    ASSUME NEW S, IsFiniteSet(S), NEW x
    PROVE  /\ IsFiniteSet(S \union {x}) /\ Cardinality(S \union {x}) \in Nat
           /\ Cardinality(S) \in Nat
           /\ Cardinality(S \union {x}) <= Cardinality(S) + 1
           /\ x \notin S => Cardinality(S \union {x}) = Cardinality(S) + 1
<1>1. Cardinality(S) \in Nat
  BY FS_CardinalityType
<1>2. IsFiniteSet(S \union {x})
  BY FS_AddElement
<1>3. Cardinality(S \union {x}) = IF x \in S THEN Cardinality(S) ELSE Cardinality(S) + 1
  BY FS_AddElement
<1> QED BY <1>1, <1>2, <1>3

\* A request that begins does so within the limit.
LEMMA BeginsWithin ==
    ASSUME TypeInv, NEW r \in Request, StepOf(r), pc[r] = "idle"
    PROVE  Cardinality(InFlight) < limit
BY DEF StepOf, BeginGenerate, BeginQuestions, BeginEvaluate, BeginChat, Begin, Handle, Fault,
       WriteLesson, LessonFails, SaveText, SaveVideos, ClearQuestions, SelectQuestions,
       QuestionsFail, DeleteQuestions, InsertQuestion, QuestionNotFound, WriteEvaluation,
       UpsertMastery, RecordQuestion, RecordReply, RecordDoubt, UpsertSkill, LoadProfile,
       SaveProfile

LEMMA BaseInductive == BaseInv /\ [Next]_vars => BaseInv'
<1> SUFFICES ASSUME BaseInv, [Next]_vars
             PROVE  TypeInv' /\ IsFiniteSet(InFlight') /\ Cardinality(InFlight') <= limit'
  BY DEF BaseInv
<1>1. TypeInv /\ TablesTyped /\ Cardinality(InFlight) \in Nat /\ limit \in Nat /\ limit' = limit
  BY TablesAreTyped, FS_CardinalityType DEF BaseInv, TypeInv, TablesTyped
<1>2. ASSUME NEW r \in Request, StepOf(r)
      PROVE  /\ TypeInv'
             /\ IsFiniteSet(InFlight') /\ Cardinality(InFlight') <= limit
  <2>1. StepTyped(r)
    BY <1>1, <1>2, StepsAreTyped
  <2>2. TypeInv'
    BY <1>1, <2>1 DEF TypeInv, TablesTyped, StepTyped
  <2>3. CASE pc[r] = "idle"
    <3>1. InFlight' \subseteq InFlight \union {r}
      BY <2>1 DEF InFlight, StepTyped, Stands
    <3>2. IsFiniteSet(InFlight \union {r}) /\ Cardinality(InFlight \union {r}) \in Nat
          /\ Cardinality(InFlight \union {r}) <= Cardinality(InFlight) + 1
      BY AddOne DEF BaseInv
    <3>3. IsFiniteSet(InFlight') /\ Cardinality(InFlight') <= Cardinality(InFlight \union {r})
          /\ Cardinality(InFlight') \in Nat
      BY <3>1, <3>2, FS_Subset, FS_CardinalityType
    <3>4. Cardinality(InFlight) < limit
      BY <1>1, <1>2, <2>3, BeginsWithin
    <3> QED BY <1>1, <2>2, <3>2, <3>3, <3>4
  <2>4. CASE pc[r] # "idle"
    <3>1. InFlight' \subseteq InFlight
      BY <2>1, <2>4 DEF InFlight, StepTyped, Stands
    <3>2. IsFiniteSet(InFlight') /\ Cardinality(InFlight') <= Cardinality(InFlight)
          /\ Cardinality(InFlight') \in Nat
      BY <3>1, FS_Subset, FS_CardinalityType DEF BaseInv
    <3> QED BY <1>1, <2>2, <3>2 DEF BaseInv
  <2> QED BY <2>3, <2>4
<1>3. CASE SyncModule \/ SessionEnds \/ EvaluationEnds \/ UNCHANGED vars
  <2>1. pc' = pc /\ job' = job
    BY <1>3 DEF SyncModule, SessionEnds, EvaluationEnds, vars, handler
  <2>2. InFlight' = InFlight
    BY <2>1 DEF InFlight
  <2> QED BY <1>1, <2>1, <2>2 DEF BaseInv, TypeInv, TablesTyped
<1> QED BY <1>1, <1>2, <1>3, StepsByKind

LEMMA InitBase == Init => BaseInv
<1> SUFFICES ASSUME Init PROVE TypeInv /\ IsFiniteSet(InFlight) /\ Cardinality(InFlight) <= limit
  BY DEF BaseInv
<1>1. InFlight = {} /\ limit \in Nat
  BY Bounds DEF Init, InFlight
<1>2. TypeInv
  BY <1>1, NoJobTyped DEF Init, TypeInv, Place
<1> QED BY <1>1, <1>2, FS_EmptySet

\* With one request at a time there is no other, and none begins beside it.
LEMMA OnlyOne ==
    ASSUME BaseInv, limit = 1, NEW g \in Request, pc[g] # "idle"
    PROVE  /\ \A o \in Request \ {g} : pc[o] = "idle"
           /\ \A r \in Request : StepOf(r) => r = g
<1> Cardinality(InFlight) \in Nat /\ TypeInv
  BY FS_CardinalityType DEF BaseInv
<1>1. ASSUME NEW o \in Request \ {g}, pc[o] # "idle"
      PROVE  FALSE
  <2>1. {g, o} \subseteq InFlight
    BY <1>1 DEF InFlight
  <2>2. Cardinality({g}) = 1 /\ IsFiniteSet({g})
    BY FS_Singleton
  <2>3. Cardinality({g} \union {o}) = 2 /\ {g} \union {o} = {g, o}
    BY <2>2, FS_AddElement
  <2>4. Cardinality({g, o}) <= Cardinality(InFlight)
    BY <2>1, FS_Subset DEF BaseInv
  <2>5. Cardinality({g, o}) = 2
    BY <2>3
  <2> QED BY <2>4, <2>5 DEF BaseInv
<1>2. ASSUME NEW r \in Request, StepOf(r), r # g
      PROVE  FALSE
  <2>1. pc[r] = "idle"
    BY <1>1, <1>2
  <2>2. Cardinality(InFlight) < 1
    BY <1>2, <2>1, BeginsWithin
  <2>3. {g} \subseteq InFlight
    BY DEF InFlight
  <2>4. Cardinality({g}) = 1
    BY FS_Singleton
  <2>5. Cardinality({g}) <= Cardinality(InFlight)
    BY <2>3, FS_Subset DEF BaseInv
  <2> QED BY <2>2, <2>4, <2>5
<1> QED BY <1>1, <1>2

\* The tables and the handlers hold values of their types, and no more requests are
\* handled than the limit.
THEOREM TypeCorrect == Spec => []BaseInv
BY InitBase, BaseInductive, PTL DEF Spec

-----------------------------------------------------------------------------
(* The lesson, and what is asked about it. *)

LEMMA StepsChange ==
    ASSUME NEW r \in Request, StepOf(r)
    PROVE  /\ content' = content \/ SaveText(r)
           /\ lists' = lists \/ DeleteQuestions(r)
           /\ questions' = questions \/ ClearQuestions(r) \/ DeleteQuestions(r) \/ InsertQuestion(r)
           /\ faults' = faults \/ Fault(r)
<1>1. CASE BeginGenerate(r) \/ BeginQuestions(r) \/ BeginEvaluate(r) \/ BeginChat(r)
           \/ LessonFails(r) \/ SelectQuestions(r) \/ QuestionsFail(r)
           \/ QuestionNotFound(r) \/ LoadProfile(r) \/ Fault(r)
  BY <1>1 DEF BeginGenerate, BeginQuestions, BeginEvaluate, BeginChat, LessonFails,
              SelectQuestions, QuestionsFail, QuestionNotFound, LoadProfile, Fault, lesson
<1>2. CASE WriteLesson(r) \/ SaveText(r) \/ SaveVideos(r) \/ ClearQuestions(r)
           \/ DeleteQuestions(r) \/ InsertQuestion(r)
  BY <1>2 DEF WriteLesson, SaveText, SaveVideos, ClearQuestions, DeleteQuestions,
              InsertQuestion, lesson
<1>3. CASE WriteEvaluation(r) \/ UpsertMastery(r) \/ RecordDoubt(r) \/ UpsertSkill(r)
           \/ SaveProfile(r) \/ RecordQuestion(r) \/ RecordReply(r)
  BY <1>3 DEF WriteEvaluation, UpsertMastery, RecordDoubt, UpsertSkill, SaveProfile,
              RecordQuestion, RecordReply, lesson
<1> QED BY <1>1, <1>2, <1>3 DEF StepOf, Handle

\* Where a request comes to from where it is.
LEMMA Arrives ==
    ASSUME TypeInv, NEW r \in Request, StepOf(r)
    PROVE  /\ pc'[r] = "generate" => BeginGenerate(r)
           /\ pc'[r] = "save_text" => WriteLesson(r)
           /\ pc'[r] = "save_videos" => SaveText(r)
           /\ pc'[r] = "clear" => SaveVideos(r)
           /\ pc'[r] = "select" => BeginQuestions(r) \/ BeginEvaluate(r)
           /\ pc'[r] = "ask" => SelectQuestions(r)
           /\ pc'[r] = "insert" => DeleteQuestions(r) \/ InsertQuestion(r)
<1> pc \in [Request -> Place]
  BY DEF TypeInv
<1>1. CASE BeginGenerate(r) \/ BeginQuestions(r) \/ BeginEvaluate(r) \/ BeginChat(r)
  BY <1>1 DEF BeginGenerate, BeginQuestions, BeginEvaluate, BeginChat, Begin, Goto
<1>2. CASE LessonFails(r) \/ ClearQuestions(r) \/ QuestionsFail(r) \/ QuestionNotFound(r)
           \/ SaveProfile(r) \/ Fault(r) \/ WriteLesson(r) \/ SaveText(r) \/ SaveVideos(r)
  BY <1>2 DEF LessonFails, ClearQuestions, QuestionsFail, QuestionNotFound, SaveProfile, Fault,
              WriteLesson, SaveText, SaveVideos, End, Goto
<1>3. CASE SelectQuestions(r) \/ DeleteQuestions(r) \/ InsertQuestion(r)
  BY <1>3 DEF SelectQuestions, DeleteQuestions, InsertQuestion, Answered, End, Goto
<1>4. CASE WriteEvaluation(r) \/ UpsertMastery(r) \/ RecordQuestion(r) \/ RecordReply(r)
           \/ RecordDoubt(r) \/ UpsertSkill(r) \/ LoadProfile(r)
  BY <1>4 DEF WriteEvaluation, UpsertMastery, RecordQuestion, RecordReply, RecordDoubt,
              UpsertSkill, LoadProfile, End, Goto
<1> QED BY <1>1, <1>2, <1>3, <1>4 DEF StepOf, Handle

\* While a lesson is generated, nothing else of a client that waits is handled.
LEMMA NoneBeside ==
    ASSUME WaitsForLesson, LessonInv, NEW g \in Request, pc[g] \in Generating,
           NEW r \in Request, StepOf(r)
    PROVE  r = g
<1>1. r # g => pc[r] = "idle"
  BY DEF LessonInv, LessonOK
<1>2. pc[r] = "idle" => \A o \in Request : pc[o] \notin Generating
  BY DEF StepOf, BeginGenerate, BeginQuestions, BeginEvaluate, BeginChat, Begin, Handle, Fault,
       WriteLesson, LessonFails, SaveText, SaveVideos, ClearQuestions, SelectQuestions,
       QuestionsFail, DeleteQuestions, InsertQuestion, QuestionNotFound, WriteEvaluation,
       UpsertMastery, RecordQuestion, RecordReply, RecordDoubt, UpsertSkill, LoadProfile,
       SaveProfile
<1> QED BY <1>1, <1>2

LEMMA MoverKeepsLesson ==
    ASSUME WaitsForLesson, LessonInv, NEW r \in Request, StepOf(r)
    PROVE  LessonOK(r)'
<1> TypeInv /\ StepTyped(r) /\ LessonOK(r) /\ job[r] \in Work /\ content \in Nat
    /\ pc \in [Request -> Place] /\ job \in [Request -> Work] /\ texts \in Nat
    /\ questions \in [1..Q -> Nat]
  BY StepsAreTyped DEF LessonInv, BaseInv, TypeInv
<1>1. CASE BeginGenerate(r)
  <2>1. /\ pc'[r] = "generate" /\ content = 0 /\ content' = content
        /\ lists = {} /\ lists' = lists
        /\ \A o \in Request \ {r} : pc[o] = "idle" /\ Stands(o)
    BY <1>1 DEF BeginGenerate, Begin, Goto, lesson, InFlight, StepTyped, LessonInv
  <2> QED BY <2>1 DEF LessonOK, Stands
<1>2. CASE WriteLesson(r)
  <2>1. /\ pc[r] = "generate" /\ pc'[r] = "save_text" /\ content' = content
        /\ job'[r] = [job[r] EXCEPT !.text = texts + 1] /\ lists' = lists
    BY <1>2 DEF WriteLesson, Goto, lesson
  <2>2. job'[r].text # 0
    BY <2>1 DEF Work
  <2>3. content = 0 /\ lists = {} /\ \A o \in Request \ {r} : pc[o] = "idle" /\ Stands(o)
    BY <2>1 DEF LessonOK, Generating, StepTyped
  <2> QED BY <2>1, <2>2, <2>3 DEF LessonOK, Stands
<1>3. CASE SaveText(r) \/ SaveVideos(r)
  <2>1. pc[r] \in Generating /\ pc'[r] \in {"save_videos", "clear"} /\ lists' = lists
    BY <1>3 DEF SaveText, SaveVideos, Goto, Generating
  <2>2. lists = {} /\ \A o \in Request \ {r} : pc[o] = "idle" /\ Stands(o)
    BY <2>1 DEF LessonOK, StepTyped
  <2> QED BY <2>1, <2>2 DEF LessonOK, Stands
<1>4. CASE BeginQuestions(r) \/ BeginEvaluate(r)
  <2>1. /\ pc'[r] = "select" /\ content' = content
        /\ \/ job'[r] = [NoJob EXCEPT !.text = content]
           \/ job'[r] = [NoJob EXCEPT !.text = content, !.grades = TRUE]
    BY <1>4 DEF BeginQuestions, BeginEvaluate, Begin, Goto, lesson
  <2>2. job'[r].text = content /\ job'[r].next = 1
    BY <2>1 DEF NoJob
  <2> QED BY <2>1, <2>2 DEF LessonOK, Generating
<1>5. CASE pc'[r] = "ask" /\ SelectQuestions(r)
  <2>1. /\ pc[r] = "select" /\ content' = content /\ UNCHANGED job /\ job[r].text # 0
    BY <1>5 DEF SelectQuestions, Answered, End, Goto, lesson
  <2> QED BY <1>5, <2>1 DEF LessonOK, Generating
<1>6. CASE DeleteQuestions(r)
  <2>1. PICK n \in Lengths : job' = [job EXCEPT ![r].count = n] /\ lists' = lists \union {n}
    BY <1>6 DEF DeleteQuestions
  <2>2. pc[r] = "ask" /\ pc'[r] = "insert" /\ content' = content
    BY <1>6 DEF DeleteQuestions, Goto
  <2>3. job'[r].text = job[r].text /\ job'[r].count = n
    BY <2>1 DEF Work
  <2> QED BY <2>1, <2>2, <2>3 DEF LessonOK, Generating
<1>7. CASE pc'[r] = "insert" /\ InsertQuestion(r)
  <2>1. /\ pc[r] = "insert" /\ content' = content /\ lists' = lists
        /\ job' = [job EXCEPT ![r].next = job[r].next + 1]
    BY <1>7 DEF InsertQuestion, Answered, End, Goto
  <2>2. job'[r].text = job[r].text /\ job'[r].count = job[r].count
    BY <2>1 DEF Work
  <2> QED BY <1>7, <2>1, <2>2 DEF LessonOK, Generating
<1>8. ASSUME pc'[r] \notin Generating \union {"select", "ask", "insert"}
      PROVE  LessonOK(r)'
  BY <1>8 DEF LessonOK, Generating
<1> QED BY <1>1, <1>2, <1>3, <1>4, <1>5, <1>6, <1>7, <1>8, Arrives DEF Generating

LEMMA LessonInductive == WaitsForLesson /\ LessonInv /\ [Next]_vars => LessonInv'
<1> SUFFICES ASSUME WaitsForLesson, LessonInv, [Next]_vars
             PROVE  /\ BaseInv' /\ QuestionsGrounded'
                    /\ lists' \subseteq 1..Q /\ (lists' # {} => content' # 0)
                    /\ \A o \in Request : LessonOK(o)'
  BY DEF LessonInv
<1>1. BaseInv /\ BaseInv' /\ TypeInv
  BY BaseInductive DEF LessonInv, BaseInv
<1>2. ASSUME NEW r \in Request, StepOf(r)
      PROVE  /\ QuestionsGrounded'
             /\ lists' \subseteq 1..Q /\ (lists' # {} => content' # 0)
             /\ \A o \in Request : LessonOK(o)'
  <2>1. StepTyped(r)
    BY <1>1, <1>2, StepsAreTyped
  <2>2. ASSUME NEW o \in Request \ {r}
        PROVE  LessonOK(o)'
    <3>1. Stands(o) /\ pc[o] \notin Generating /\ LessonOK(o)
      BY <1>2, <2>1, <2>2, NoneBeside DEF StepTyped, LessonInv
    <3>2. CASE content' = content
      <4>1. lists \subseteq lists'
        BY <1>2, StepsChange DEF DeleteQuestions
      <4> QED BY <3>1, <3>2, <4>1 DEF LessonOK, Stands, Generating
    <3>3. CASE SaveText(r)
      <4>1. pc[o] = "idle"
        BY <2>2, <3>3 DEF SaveText, LessonInv, LessonOK, Generating
      <4> QED BY <3>1, <4>1 DEF LessonOK, Stands, Generating
    <3> QED BY <1>2, <3>2, <3>3, StepsChange
  <2>3. QuestionsGrounded'
    <3> questions \in [1..Q -> Nat] /\ content \in Nat /\ QuestionsGrounded /\ LessonOK(r)
        /\ job[r].next \in 1..Q
      BY <1>1 DEF TypeInv, LessonInv, Work
    <3>1. CASE SaveText(r)
      <4>1. content = 0 /\ questions' = questions
        BY <3>1 DEF SaveText, LessonOK
      <4> QED BY <4>1 DEF QuestionsGrounded
    <3>2. CASE ClearQuestions(r) \/ DeleteQuestions(r)
      BY <3>2 DEF ClearQuestions, DeleteQuestions, QuestionsGrounded, NoQuestions
    <3>3. CASE InsertQuestion(r)
      <4>1. content' = content /\ job[r].text = content
        BY <3>3 DEF InsertQuestion, LessonOK
      <4>2. questions' = questions \/ questions' = [questions EXCEPT ![job[r].next] = content]
        BY <3>3, <4>1 DEF InsertQuestion
      <4> QED BY <4>1, <4>2 DEF QuestionsGrounded
    <3>4. CASE content' = content /\ questions' = questions
      BY <3>4 DEF QuestionsGrounded
    <3> QED BY <1>2, <3>1, <3>2, <3>3, <3>4, StepsChange
             DEF SaveText, ClearQuestions, DeleteQuestions, InsertQuestion
  <2>4. lists' \subseteq 1..Q /\ (lists' # {} => content' # 0)
    <3>1. CASE SaveText(r)
      BY <3>1 DEF SaveText, LessonInv, LessonOK, Generating
    <3>2. CASE DeleteQuestions(r)
      <4>1. content # 0 /\ content' = content
        BY <3>2 DEF DeleteQuestions, LessonInv, LessonOK
      <4>2. lists' \subseteq 1..Q
        BY <3>2, Bounds DEF DeleteQuestions, LessonInv
      <4> QED BY <4>1, <4>2
    <3>3. CASE content' = content /\ lists' = lists
      BY <3>3 DEF LessonInv
    <3> QED BY <1>2, <3>1, <3>2, <3>3, StepsChange
  <2> QED BY <1>2, <2>2, <2>3, <2>4, MoverKeepsLesson
<1>3. CASE SyncModule \/ SessionEnds \/ EvaluationEnds \/ UNCHANGED vars
  <2>1. /\ pc' = pc /\ job' = job /\ content' = content /\ questions' = questions
        /\ lists' = lists
    BY <1>3 DEF SyncModule, SessionEnds, EvaluationEnds, vars, handler, lesson
  <2> QED BY <1>1, <2>1 DEF LessonInv, QuestionsGrounded, LessonOK
<1> QED BY <1>1, <1>2, <1>3, StepsByKind

\* A lesson that is there is not replaced by another, for a client that sends
\* nothing else for the module while a lesson of it is being generated
\* (generate_module_lesson returns a lesson that is there).
THEOREM LessonStays == WaitsForLesson => (Spec => LessonIsKept)
<1> SUFFICES ASSUME WaitsForLesson PROVE Spec => LessonIsKept
  OBVIOUS
<1>1. Init => LessonInv
  <2>1. Init => QuestionsGrounded /\ lists = {} /\ \A r \in Request : LessonOK(r)
    BY DEF Init, QuestionsGrounded, NoQuestions, LessonOK, Generating
  <2> QED BY <2>1, InitBase DEF LessonInv
<1>2. LessonInv /\ [Next]_vars => [content # 0 => content' = content]_vars
  <2> SUFFICES ASSUME LessonInv, [Next]_vars, content # 0 PROVE content' = content
    OBVIOUS
  <2>1. ASSUME NEW r \in Request, SaveText(r)
        PROVE  FALSE
    BY <2>1 DEF SaveText, LessonInv, LessonOK
  <2> QED BY <2>1, StepsByKind, StepsChange
          DEF SyncModule, SessionEnds, EvaluationEnds, vars, lesson
<1> QED BY <1>1, <1>2, LessonInductive, PTL DEF Spec, LessonIsKept

-----------------------------------------------------------------------------
(* No question is missing for good. *)

\* Somebody who will come to a question does so, unless another is there first.
LEMMA FillInductive == WaitsForLesson /\ FillInv /\ [Next]_vars => FillInv'
<1> SUFFICES ASSUME WaitsForLesson, FillInv, [Next]_vars, faults' = 0, NEW i \in 1..Q,
                    Missing(i)'
             PROVE  \E r \in Request : Fills(r, i)'
  BY LessonInductive DEF FillInv
<1> LessonInv /\ BaseInv /\ TypeInv /\ i \in Nat /\ Q \in Nat /\ questions \in [1..Q -> Nat]
  BY Bounds DEF FillInv, LessonInv, BaseInv, TypeInv
<1>1. faults = 0
  <2>1. \A r \in Request : StepOf(r) => faults = 0
    <3> SUFFICES ASSUME NEW r \in Request, StepOf(r) PROVE faults = 0
      OBVIOUS
    <3>1. faults \in Nat
      BY DEF TypeInv
    <3> QED BY <3>1, StepsChange DEF Fault
  <2> QED BY <2>1, StepsByKind DEF SyncModule, SessionEnds, EvaluationEnds, vars
<1>2. Missing(i) => \E r \in Request : Fills(r, i)
  BY <1>1 DEF FillInv
<1>3. ASSUME NEW r \in Request, NEW o \in Request, Fills(o, i), Stands(o),
             \A j \in job[o].next..i : questions'[j] = 0
      PROVE  \E g \in Request : Fills(g, i)'
  BY <1>3 DEF Fills, Stands
<1>4. ASSUME NEW r \in Request, ClearQuestions(r)
      PROVE  FALSE
  <2>1. pc[r] = "clear" /\ lists' = lists
    BY <1>4 DEF ClearQuestions
  <2> QED BY <2>1 DEF Missing, LessonInv, LessonOK, Generating
<1>5. ASSUME NEW r \in Request, DeleteQuestions(r)
      PROVE  Fills(r, i)'
  <2>1. pc[r] = "ask" /\ pc'[r] = "insert" /\ questions' = NoQuestions
    BY <1>5 DEF DeleteQuestions, Goto, TypeInv
  <2>2. job'[r].next = 1
    BY <1>5, <2>1 DEF DeleteQuestions, LessonInv, LessonOK, TypeInv, Work
  <2> QED BY <2>1, <2>2 DEF Fills, NoQuestions
<1>6. ASSUME NEW r \in Request, InsertQuestion(r)
      PROVE  \E g \in Request : Fills(g, i)'
  <2>1. PICK p \in 1..Q : p = job[r].next
    BY DEF TypeInv, Work
  <2>2. StepTyped(r) /\ pc[r] = "insert" /\ lists' = lists /\ job[r].count \in lists
    BY <1>6, StepsAreTyped DEF StepOf, Handle, InsertQuestion, LessonInv, LessonOK
  <2>3. CASE questions[p] # 0
    <3>1. questions' = questions /\ pc'[r] = "idle"
      BY <1>6, <2>1, <2>3 DEF InsertQuestion, End, Goto, TypeInv
    <3>2. Missing(i)
      BY <2>2, <3>1 DEF Missing, StepTyped, Stands
    <3>3. PICK o \in Request : Fills(o, i)
      BY <1>2, <3>2
    <3>4. o # r
      BY <2>1, <2>3, <3>3 DEF Fills
    <3>5. \A j \in job[o].next..i : questions'[j] = 0
      BY <3>1, <3>3 DEF Fills
    <3> QED BY <1>3, <2>2, <3>3, <3>4, <3>5 DEF StepTyped
  <2>4. CASE questions[p] = 0
    <3>1. questions' = [questions EXCEPT ![p] = job[r].text] /\ job[r].text # 0
      BY <1>6, <2>1, <2>2, <2>4 DEF InsertQuestion, LessonInv, LessonOK
    <3>2. i # p /\ Missing(i)
      BY <2>2, <3>1 DEF Missing
    <3>3. PICK o \in Request : Fills(o, i)
      BY <1>2, <3>2
    <3>4. PICK n \in 1..Q : n = job[o].next
      BY DEF TypeInv, Work
    <3>5. n <= i /\ \A j \in n..i : questions[j] = 0
      BY <3>3, <3>4 DEF Fills
    <3>6. CASE n <= p /\ p < i
      <4>1. p < job[r].count
        <5>1. i <= job[r].count /\ job[r].count \in Nat
          BY <2>2, <3>2 DEF Missing, TypeInv, Work
        <5> QED BY <3>6, <5>1
      <4>2. pc' = pc /\ job' = [job EXCEPT ![r].next = p + 1]
        BY <1>6, <2>1, <2>4, <4>1 DEF InsertQuestion
      <4>3. job'[r].next = p + 1
        BY <4>2 DEF TypeInv, Work
      <4>4. \A j \in (p+1)..i : questions'[j] = 0
        BY <3>1, <3>5, <3>6
      <4>5. Fills(r, i)'
        BY <2>2, <3>6, <4>2, <4>3, <4>4 DEF Fills
      <4> QED BY <4>5
    <3>7. CASE ~(n <= p /\ p <= i)
      <4>1. o # r
        BY <2>1, <3>4, <3>5, <3>7
      <4>2. \A j \in n..i : questions'[j] = 0
        BY <3>1, <3>5, <3>7
      <4> QED BY <1>3, <2>2, <3>3, <3>4, <4>1, <4>2 DEF StepTyped
    <3> QED BY <3>2, <3>6, <3>7
  <2> QED BY <2>3, <2>4
<1>7. ASSUME questions' = questions, lists' = lists,
             \A r \in Request : pc'[r] = "insert" <=> pc[r] = "insert",
             \A r \in Request : pc[r] = "insert" => job'[r] = job[r]
      PROVE  \E g \in Request : Fills(g, i)'
  <2>1. Missing(i)
    BY <1>7 DEF Missing
  <2>2. PICK o \in Request : Fills(o, i)
    BY <1>2, <2>1
  <2> QED BY <1>7, <2>2 DEF Fills
<1>8. ASSUME NEW r \in Request, StepOf(r), ~DeleteQuestions(r), ~InsertQuestion(r),
             ~ClearQuestions(r)
      PROVE  \E g \in Request : Fills(g, i)'
  <2>1. StepTyped(r) /\ pc'[r] # "insert"
    BY <1>8, StepsAreTyped, Arrives
  <2>2. pc[r] # "insert"
    <3>1. ~Fault(r)
      BY <1>1 DEF Fault
    <3> QED BY <1>8, <3>1 DEF StepOf, BeginGenerate, BeginQuestions, BeginEvaluate, BeginChat,
            Begin, Handle, WriteLesson, LessonFails, SaveText, SaveVideos, SelectQuestions,
            QuestionsFail, QuestionNotFound, WriteEvaluation,
            UpsertMastery, RecordQuestion, RecordReply, RecordDoubt, UpsertSkill, LoadProfile,
            SaveProfile
  <2>3. questions' = questions /\ lists' = lists
    BY <1>8, StepsChange
  <2>4. \A o \in Request : o # r => pc'[o] = pc[o] /\ job'[o] = job[o]
    BY <2>1 DEF StepTyped, Stands
  <2> QED BY <1>7, <2>1, <2>2, <2>3, <2>4
<1>9. CASE SyncModule \/ SessionEnds \/ EvaluationEnds \/ UNCHANGED vars
  BY <1>7, <1>9 DEF SyncModule, SessionEnds, EvaluationEnds, vars, handler, lesson
<1> QED BY <1>4, <1>5, <1>6, <1>8, <1>9, StepsByKind

\* Every saved question is about the lesson as it is, and when nothing is being
\* handled the positions that all the lists have are filled, however many requests
\* saved lists of whatever lengths at the same time and ran into each other's rows
\* (save_module_questions).
THEOREM QuestionsAreWhole == WaitsForLesson => (Spec => []SavedQuestions)
<1> SUFFICES ASSUME WaitsForLesson PROVE Spec => []SavedQuestions
  OBVIOUS
<1>1. Init => FillInv
  <2>1. Init => QuestionsGrounded /\ lists = {} /\ \A r \in Request : LessonOK(r)
    BY DEF Init, QuestionsGrounded, NoQuestions, LessonOK, Generating
  <2>2. Init => \A i \in 1..Q : ~Missing(i)
    BY DEF Init, Missing
  <2> QED BY <2>1, <2>2, InitBase DEF FillInv, LessonInv
<1>2. FillInv => SavedQuestions
  <2> SUFFICES ASSUME FillInv, InFlight = {}, faults = 0, NEW i \in 1..Q, Missing(i)
               PROVE  FALSE
    BY DEF SavedQuestions, QuestionsWhole, Missing, FillInv, LessonInv
  <2>1. \A r \in Request : pc[r] # "insert"
    BY DEF InFlight
  <2> QED BY <2>1 DEF FillInv, Fills
<1> QED BY <1>1, <1>2, FillInductive, PTL DEF Spec

-----------------------------------------------------------------------------
(* What is said in the chat, and what follows from it. *)

LEMMA OneLess ==
    ASSUME NEW S, IsFiniteSet(S), NEW x \in S
    PROVE  /\ IsFiniteSet(S \ {x}) /\ Cardinality(S \ {x}) \in Nat
           /\ Cardinality(S) \in Nat
           /\ Cardinality(S \ {x}) = Cardinality(S) - 1
<1>1. Cardinality(S) \in Nat
  BY FS_CardinalityType
<1>2. IsFiniteSet(S \ {x}) /\ Cardinality(S \ {x}) = Cardinality(S) - 1
  BY FS_RemoveElement
<1>3. Cardinality(S \ {x}) \in Nat
  BY <1>2, FS_CardinalityType
<1> QED BY <1>1, <1>2, <1>3

LEMMA ChatsCounted ==
    ASSUME BaseInv
    PROVE  /\ IsFiniteSet(Replying) /\ Cardinality(Replying) \in Nat
           /\ IsFiniteSet(Doubting) /\ Cardinality(Doubting) \in Nat
           /\ IsFiniteSet(Pending) /\ Cardinality(Pending) \in Nat
<1>1. Replying \subseteq InFlight /\ Doubting \subseteq InFlight /\ Pending \subseteq InFlight
  BY DEF Replying, Doubting, Pending, InFlight
<1> QED BY <1>1, FS_Subset, FS_CardinalityType DEF BaseInv

\* A step of a request that is not about the chat.
Off(r) ==
    /\ UNCHANGED <<chat, doubts, counted, skills, sessions, limit, faults>>
    /\ pc[r] \notin {"reply", "doubt", "skill", "load", "store"}
    /\ pc'[r] \notin {"reply", "doubt", "load", "store"}
    /\ pc'[r] = "skill" => job'[r].grades
    /\ pc'[r] \in {"grade", "mastery"} => job'[r].grades
    /\ pc'[r] = "ask_tutor" => ~job'[r].grades

LEMMA OffChat ==
    ASSUME BaseInv, ChatShape, NEW r \in Request, StepOf(r),
           ~RecordQuestion(r), ~RecordReply(r), ~RecordDoubt(r), ~UpsertSkill(r),
           ~LoadProfile(r), ~SaveProfile(r), ~Fault(r)
    PROVE  Off(r)
<1> pc \in [Request -> Place] /\ job \in [Request -> Work] /\ job[r] \in Work
  BY DEF BaseInv, TypeInv
<1>1. CASE BeginGenerate(r) \/ BeginQuestions(r) \/ BeginEvaluate(r)
  BY <1>1 DEF BeginGenerate, BeginQuestions, BeginEvaluate, Begin, Goto, aside, traces, Off
<1>2. CASE BeginChat(r)
  BY <1>2 DEF BeginChat, Begin, Goto, aside, traces, Off, NoJob
<1>3. CASE LessonFails(r) \/ ClearQuestions(r) \/ QuestionsFail(r) \/ QuestionNotFound(r)
  BY <1>3 DEF LessonFails, ClearQuestions, QuestionsFail, QuestionNotFound, End, Goto,
              aside, traces, Off
<1>4. CASE WriteLesson(r) \/ SaveText(r) \/ SaveVideos(r) \/ DeleteQuestions(r)
  BY <1>4 DEF WriteLesson, SaveText, SaveVideos, DeleteQuestions, Goto, aside, traces, Off
<1>5. CASE SelectQuestions(r) \/ InsertQuestion(r)
  <2>1. /\ UNCHANGED <<chat, doubts, counted, skills, sessions, limit, faults>>
        /\ pc[r] \in {"select", "insert"}
    BY <1>5 DEF SelectQuestions, InsertQuestion, aside, traces
  <2>2. \/ pc'[r] \in {"idle", "ask", "insert"}
        \/ pc'[r] = "grade" /\ job'[r].grades
    BY <1>5 DEF SelectQuestions, InsertQuestion, Answered, End, Goto
  <2> QED BY <2>1, <2>2 DEF Off
<1>6. CASE WriteEvaluation(r) \/ UpsertMastery(r)
  <2>1. pc[r] \in {"grade", "mastery"} /\ pc'[r] \in {"mastery", "skill"} /\ job' = job
        /\ UNCHANGED <<chat, doubts, counted, skills, sessions, limit, faults>>
    BY <1>6 DEF WriteEvaluation, UpsertMastery, Goto
  <2>2. job'[r].grades
    BY <2>1 DEF ChatShape
  <2> QED BY <2>1, <2>2 DEF Off
<1> QED BY <1>1, <1>2, <1>3, <1>4, <1>5, <1>6 DEF StepOf, Handle

\* The steps of the chat.
LEMMA ChatSteps ==
    ASSUME BaseInv, ChatShape, NEW r \in Request
    PROVE  /\ RecordQuestion(r) \/ RecordReply(r) \/ RecordDoubt(r) =>
                /\ job' = job /\ ~job[r].grades /\ UNCHANGED <<skills, counted>>
                /\ pc' = [pc EXCEPT ![r] = pc'[r]]
           /\ RecordQuestion(r) => pc[r] = "ask_tutor" /\ pc'[r] = "reply"
           /\ RecordReply(r) => pc[r] = "reply" /\ pc'[r] = "doubt"
           /\ RecordDoubt(r) => pc[r] = "doubt" /\ pc'[r] = "skill"
           /\ UpsertSkill(r) =>
                /\ pc[r] = "skill"
                /\ UNCHANGED <<chat, doubts, counted>>
                /\ \/ job[r].grades /\ pc'[r] = "idle" /\ skills' = skills \union {"evaluation"}
                   \/ /\ ~job[r].grades /\ pc'[r] = "load" /\ ~job'[r].grades
                      /\ job' = job /\ skills' = skills \union {"doubt"}
           /\ LoadProfile(r) =>
                /\ pc[r] = "load" /\ pc'[r] = "store" /\ ~job[r].grades /\ ~job'[r].grades
                /\ job'[r].seen = counted /\ UNCHANGED <<chat, doubts, counted, skills>>
           /\ SaveProfile(r) =>
                /\ pc[r] = "store" /\ pc'[r] = "idle" /\ ~job[r].grades
                /\ counted' = job[r].seen + 1 /\ UNCHANGED <<chat, doubts, skills>>
           /\ Fault(r) => /\ pc[r] # "idle" /\ pc'[r] = "idle" /\ faults' # 0
                          /\ UNCHANGED <<chat, doubts, counted, skills>>
<1> pc \in [Request -> Place] /\ job \in [Request -> Work] /\ job[r] \in Work /\ faults \in Nat
  BY DEF BaseInv, TypeInv
<1>1. RecordQuestion(r) \/ RecordReply(r) \/ RecordDoubt(r) =>
                /\ job' = job /\ ~job[r].grades /\ UNCHANGED <<skills, counted>>
                /\ pc' = [pc EXCEPT ![r] = pc'[r]]
  BY DEF RecordQuestion, RecordReply, RecordDoubt, Goto, ChatShape
<1>2. /\ RecordQuestion(r) => pc[r] = "ask_tutor" /\ pc'[r] = "reply"
      /\ RecordReply(r) => pc[r] = "reply" /\ pc'[r] = "doubt"
      /\ RecordDoubt(r) => pc[r] = "doubt" /\ pc'[r] = "skill"
  BY DEF RecordQuestion, RecordReply, RecordDoubt, Goto
<1>3. ASSUME UpsertSkill(r)
      PROVE  /\ pc[r] = "skill"
             /\ UNCHANGED <<chat, doubts, counted>>
             /\ \/ job[r].grades /\ pc'[r] = "idle" /\ skills' = skills \union {"evaluation"}
                \/ /\ ~job[r].grades /\ pc'[r] = "load" /\ ~job'[r].grades
                   /\ job' = job /\ skills' = skills \union {"doubt"}
  BY <1>3 DEF UpsertSkill, Goto, End
<1>4. ASSUME LoadProfile(r)
      PROVE  /\ pc[r] = "load" /\ pc'[r] = "store" /\ ~job[r].grades /\ ~job'[r].grades
             /\ job'[r].seen = counted /\ UNCHANGED <<chat, doubts, counted, skills>>
  <2>1. /\ pc[r] = "load" /\ pc'[r] = "store" /\ job' = [job EXCEPT ![r].seen = counted]
        /\ UNCHANGED <<chat, doubts, counted, skills>>
    BY <1>4 DEF LoadProfile, Goto, aside, traces
  <2>2. job'[r].seen = counted /\ job'[r].grades = job[r].grades
    BY <2>1 DEF Work
  <2>3. ~job[r].grades
    BY <2>1 DEF ChatShape
  <2> QED BY <2>1, <2>2, <2>3
<1>5. SaveProfile(r) =>
                /\ pc[r] = "store" /\ pc'[r] = "idle" /\ ~job[r].grades
                /\ counted' = job[r].seen + 1 /\ UNCHANGED <<chat, doubts, skills>>
  BY DEF SaveProfile, End, Goto, ChatShape
<1>6. Fault(r) => /\ pc[r] # "idle" /\ pc'[r] = "idle" /\ faults' # 0
                  /\ UNCHANGED <<chat, doubts, counted, skills>>
  BY DEF Fault, End, Goto, aside, traces
<1> QED BY <1>1, <1>2, <1>3, <1>4, <1>5, <1>6

LEMMA ShapeInductive == BaseInv /\ ChatShape /\ [Next]_vars => ChatShape'
<1> SUFFICES ASSUME BaseInv, ChatShape, [Next]_vars
             PROVE  ChatShape'
  OBVIOUS
<1>1. ASSUME NEW r \in Request, StepOf(r)
      PROVE  ChatShape'
  <2>1. \A o \in Request \ {r} : Stands(o)
    BY <1>1, StepsAreTyped DEF BaseInv, StepTyped
  <2>2. /\ pc'[r] \in {"ask_tutor", "reply", "doubt", "load", "store"} => ~job'[r].grades
        /\ pc'[r] \in {"grade", "mastery"} => job'[r].grades
    <3>1. CASE Off(r)
      BY <3>1 DEF Off
    <3>2. CASE RecordQuestion(r) \/ RecordReply(r) \/ RecordDoubt(r)
      BY <3>2, ChatSteps
    <3>3. CASE UpsertSkill(r) \/ LoadProfile(r) \/ SaveProfile(r) \/ Fault(r)
      BY <3>3, ChatSteps
    <3> QED BY <1>1, <3>1, <3>2, <3>3, OffChat
  <2> QED BY <2>1, <2>2 DEF ChatShape, Stands
<1>2. CASE SyncModule \/ SessionEnds \/ EvaluationEnds \/ UNCHANGED vars
  BY <1>2 DEF SyncModule, SessionEnds, EvaluationEnds, vars, handler, ChatShape
<1> QED BY <1>1, <1>2, StepsByKind

LEMMA NoMore ==
    ASSUME NEW S, IsFiniteSet(S), NEW T \in SUBSET S
    PROVE  Cardinality(T) <= Cardinality(S) /\ Cardinality(T) \in Nat /\ Cardinality(S) \in Nat
BY FS_Subset, FS_CardinalityType

\* What one row or one step of a chat does to the chats that are counted.
LEMMA ChatSets ==
    ASSUME BaseInv, ChatShape, NEW r \in Request, StepOf(r)
    PROVE  /\ RecordQuestion(r) => /\ Replying' = Replying \union {r} /\ r \notin Replying
                                   /\ Doubting' = Doubting /\ Pending' = Pending
           /\ RecordReply(r) => /\ Replying' = Replying \ {r} /\ r \in Replying
                                /\ Doubting' = Doubting \union {r} /\ r \notin Doubting
                                /\ Pending' = Pending
           /\ RecordDoubt(r) => /\ Replying' = Replying
                                /\ Doubting' = Doubting \ {r} /\ r \in Doubting
                                /\ Pending' = Pending \union {r} /\ r \notin Pending
           /\ SaveProfile(r) => /\ Replying' = Replying /\ Doubting' = Doubting
                                /\ Pending' = Pending \ {r} /\ r \in Pending
           /\ Off(r) \/ UpsertSkill(r) \/ LoadProfile(r) =>
                Replying' = Replying /\ Doubting' = Doubting /\ Pending' = Pending
           /\ Fault(r) => /\ Replying' \subseteq Replying /\ Doubting' \subseteq Doubting
                          /\ Pending' \subseteq Pending
<1>1. \A o \in Request : o # r => pc'[o] = pc[o] /\ job'[o] = job[o]
  BY StepsAreTyped DEF BaseInv, StepTyped, Stands
<1>2. RecordQuestion(r) => /\ Replying' = Replying \union {r} /\ r \notin Replying
                           /\ Doubting' = Doubting /\ Pending' = Pending
  <2> SUFFICES ASSUME RecordQuestion(r)
               PROVE  /\ Replying' = Replying \union {r} /\ r \notin Replying
                      /\ Doubting' = Doubting /\ Pending' = Pending
    OBVIOUS
  <2>1. pc[r] = "ask_tutor" /\ pc'[r] = "reply"
    BY ChatSteps
  <2> QED BY <1>1, <2>1 DEF Replying, Doubting, Pending
<1>3. RecordReply(r) => /\ Replying' = Replying \ {r} /\ r \in Replying
                        /\ Doubting' = Doubting \union {r} /\ r \notin Doubting
                        /\ Pending' = Pending
  <2> SUFFICES ASSUME RecordReply(r)
               PROVE  /\ Replying' = Replying \ {r} /\ r \in Replying
                      /\ Doubting' = Doubting \union {r} /\ r \notin Doubting
                      /\ Pending' = Pending
    OBVIOUS
  <2>1. pc[r] = "reply" /\ pc'[r] = "doubt"
    BY ChatSteps
  <2> QED BY <1>1, <2>1 DEF Replying, Doubting, Pending
<1>4. RecordDoubt(r) => /\ Replying' = Replying
                        /\ Doubting' = Doubting \ {r} /\ r \in Doubting
                        /\ Pending' = Pending \union {r} /\ r \notin Pending
  <2> SUFFICES ASSUME RecordDoubt(r)
               PROVE  /\ Replying' = Replying
                      /\ Doubting' = Doubting \ {r} /\ r \in Doubting
                      /\ Pending' = Pending \union {r} /\ r \notin Pending
    OBVIOUS
  <2>1. pc[r] = "doubt" /\ pc'[r] = "skill" /\ ~job'[r].grades
    BY ChatSteps
  <2> QED BY <1>1, <2>1 DEF Replying, Doubting, Pending
<1>5. SaveProfile(r) => /\ Replying' = Replying /\ Doubting' = Doubting
                        /\ Pending' = Pending \ {r} /\ r \in Pending
  <2> SUFFICES ASSUME SaveProfile(r)
               PROVE  /\ Replying' = Replying /\ Doubting' = Doubting
                      /\ Pending' = Pending \ {r} /\ r \in Pending
    OBVIOUS
  <2>1. pc[r] = "store" /\ pc'[r] = "idle" /\ ~job[r].grades
    BY ChatSteps
  <2> QED BY <1>1, <2>1 DEF Replying, Doubting, Pending
<1>6. Off(r) => Replying' = Replying /\ Doubting' = Doubting /\ Pending' = Pending
  BY <1>1 DEF Off, Replying, Doubting, Pending
<1>7. UpsertSkill(r) \/ LoadProfile(r) =>
        Replying' = Replying /\ Doubting' = Doubting /\ Pending' = Pending
  <2> SUFFICES ASSUME UpsertSkill(r) \/ LoadProfile(r)
               PROVE  Replying' = Replying /\ Doubting' = Doubting /\ Pending' = Pending
    OBVIOUS
  <2>1. /\ pc[r] \in {"skill", "load"}
        /\ \/ job[r].grades /\ pc'[r] = "idle"
           \/ ~job[r].grades /\ ~job'[r].grades /\ pc'[r] \in {"load", "store"}
    BY ChatSteps
  <2> QED BY <1>1, <2>1 DEF Replying, Doubting, Pending
<1>8. Fault(r) => /\ Replying' \subseteq Replying /\ Doubting' \subseteq Doubting
                  /\ Pending' \subseteq Pending
  <2> SUFFICES ASSUME Fault(r)
               PROVE  /\ Replying' \subseteq Replying /\ Doubting' \subseteq Doubting
                      /\ Pending' \subseteq Pending
    OBVIOUS
  <2>1. pc'[r] = "idle"
    BY ChatSteps
  <2> QED BY <1>1, <2>1 DEF Replying, Doubting, Pending
<1> QED BY <1>2, <1>3, <1>4, <1>5, <1>6, <1>7, <1>8

LEMMA RowsInductive == BaseInv /\ ChatShape /\ RowsInv /\ [Next]_vars => RowsInv'
<1> SUFFICES ASSUME BaseInv, ChatShape, RowsInv, [Next]_vars
             PROVE  RowsInv'
  OBVIOUS
<1> DEFINE R == Cardinality(Replying)
           D == Cardinality(Doubting)
<1>1. /\ IsFiniteSet(Replying) /\ R \in Nat /\ IsFiniteSet(Doubting) /\ D \in Nat
      /\ chat \in [asked : Nat, replied : Nat] /\ doubts \in Nat /\ faults \in Nat
  BY ChatsCounted DEF BaseInv, TypeInv
<1>2. /\ chat.replied + R <= chat.asked /\ doubts + D <= chat.replied
      /\ faults = 0 => chat.replied + R = chat.asked /\ doubts + D = chat.replied
  BY DEF RowsInv
<1>3. ASSUME NEW r \in Request, RecordQuestion(r), StepOf(r)
      PROVE  RowsInv'
  <2>1. /\ Replying' = Replying \union {r} /\ r \notin Replying /\ Doubting' = Doubting
        /\ chat' = [chat EXCEPT !.asked = @ + 1] /\ doubts' = doubts /\ faults' = faults
    BY <1>3, ChatSets DEF RecordQuestion
  <2>2. Cardinality(Replying') = R + 1
    BY <1>1, <2>1, AddOne
  <2>3. chat'.asked = chat.asked + 1 /\ chat'.replied = chat.replied
    BY <1>1, <2>1
  <2> QED BY <1>1, <1>2, <2>1, <2>2, <2>3 DEF RowsInv
<1>4. ASSUME NEW r \in Request, RecordReply(r), StepOf(r)
      PROVE  RowsInv'
  <2>1. /\ Replying' = Replying \ {r} /\ r \in Replying
        /\ Doubting' = Doubting \union {r} /\ r \notin Doubting
        /\ chat' = [chat EXCEPT !.replied = @ + 1] /\ doubts' = doubts /\ faults' = faults
    BY <1>4, ChatSets DEF RecordReply
  <2>2. Cardinality(Replying') = R - 1
    BY <1>1, <2>1, OneLess
  <2>3. Cardinality(Doubting') = D + 1
    BY <1>1, <2>1, AddOne
  <2>4. chat'.asked = chat.asked /\ chat'.replied = chat.replied + 1
    BY <1>1, <2>1
  <2> QED BY <1>1, <1>2, <2>1, <2>2, <2>3, <2>4 DEF RowsInv
<1>5. ASSUME NEW r \in Request, RecordDoubt(r), StepOf(r)
      PROVE  RowsInv'
  <2>1. /\ Replying' = Replying /\ Doubting' = Doubting \ {r} /\ r \in Doubting
        /\ chat' = chat /\ doubts' = doubts + 1 /\ faults' = faults
    BY <1>5, ChatSets DEF RecordDoubt
  <2>2. Cardinality(Doubting') = D - 1
    BY <1>1, <2>1, OneLess
  <2> QED BY <1>1, <1>2, <2>1, <2>2 DEF RowsInv
<1>6. ASSUME NEW r \in Request, Fault(r), StepOf(r)
      PROVE  RowsInv'
  <2>1. /\ Replying' \subseteq Replying /\ Doubting' \subseteq Doubting
        /\ chat' = chat /\ doubts' = doubts /\ faults' # 0
    BY <1>6, ChatSets, ChatSteps
  <2>2. /\ Cardinality(Replying') <= R /\ Cardinality(Replying') \in Nat
        /\ Cardinality(Doubting') <= D /\ Cardinality(Doubting') \in Nat
    BY <1>1, <2>1, NoMore
  <2> QED BY <1>1, <1>2, <2>1, <2>2 DEF RowsInv
<1>7. ASSUME NEW r \in Request, StepOf(r), ~RecordQuestion(r), ~RecordReply(r),
             ~RecordDoubt(r), ~Fault(r)
      PROVE  RowsInv'
  <2>1. Replying' = Replying /\ Doubting' = Doubting
    BY <1>7, ChatSets, OffChat
  <2>2. chat' = chat /\ doubts' = doubts /\ faults' = faults
    BY <1>7, OffChat, ChatSteps, StepsChange DEF Off
  <2> QED BY <1>2, <2>1, <2>2 DEF RowsInv
<1>8. CASE SyncModule \/ SessionEnds \/ EvaluationEnds \/ UNCHANGED vars
  <2>1. pc' = pc /\ chat' = chat /\ doubts' = doubts /\ faults' = faults
    BY <1>8 DEF SyncModule, SessionEnds, EvaluationEnds, vars, handler, aside, traces
  <2>2. Replying' = Replying /\ Doubting' = Doubting
    BY <2>1 DEF Replying, Doubting
  <2> QED BY <1>2, <2>1, <2>2 DEF RowsInv
<1> QED BY <1>3, <1>4, <1>5, <1>6, <1>7, <1>8, StepsByKind

LEMMA CountInductive == BaseInv /\ ChatShape /\ CountInv /\ [Next]_vars => CountInv'
<1> SUFFICES ASSUME BaseInv, ChatShape, CountInv, [Next]_vars
             PROVE  CountInv'
  OBVIOUS
<1> DEFINE P == Cardinality(Pending)
           exact == limit = 1 /\ faults = 0 /\ sessions = 0
<1>1. /\ IsFiniteSet(Pending) /\ P \in Nat /\ doubts \in Nat /\ counted \in Nat
      /\ faults \in Nat /\ sessions \in Nat
      /\ \A r \in Request : job[r].seen \in Nat
  BY ChatsCounted DEF BaseInv, TypeInv, Work
<1>2. /\ counted + P <= doubts
      /\ \A r \in Request : pc[r] = "store" => job[r].seen + P <= doubts
      /\ exact => /\ counted + P = doubts
                  /\ \A r \in Request : pc[r] = "store" => job[r].seen = counted
  BY DEF CountInv
<1>3. ASSUME NEW r \in Request, RecordDoubt(r), StepOf(r)
      PROVE  CountInv'
  <2>1. /\ Pending' = Pending \union {r} /\ r \notin Pending /\ job' = job
        /\ counted' = counted /\ doubts' = doubts + 1
        /\ UNCHANGED <<faults, limit, sessions>>
    BY <1>3, ChatSets DEF RecordDoubt
  <2>2. Cardinality(Pending') = P + 1
    BY <1>1, <2>1, AddOne
  <2>3. \A o \in Request : pc'[o] = "store" => pc[o] = "store"
    BY <1>3, ChatSteps, StepsAreTyped DEF BaseInv, StepTyped, Stands
  <2>4. counted' + Cardinality(Pending') <= doubts'
    BY <1>1, <1>2, <2>1, <2>2
  <2>5. \A o \in Request : pc'[o] = "store" => job'[o].seen + Cardinality(Pending') <= doubts'
    BY <1>1, <1>2, <2>1, <2>2, <2>3
  <2>6. exact' => /\ counted' + Cardinality(Pending') = doubts'
                  /\ \A o \in Request : pc'[o] = "store" => job'[o].seen = counted'
    BY <1>1, <1>2, <2>1, <2>2, <2>3
  <2> QED BY <2>4, <2>5, <2>6 DEF CountInv
<1>4. ASSUME NEW r \in Request, SaveProfile(r), StepOf(r)
      PROVE  CountInv'
  <2>1. /\ Pending' = Pending \ {r} /\ r \in Pending
        /\ pc[r] = "store" /\ pc'[r] = "idle" /\ counted' = job[r].seen + 1 /\ doubts' = doubts
        /\ \A o \in Request \ {r} : pc'[o] = pc[o] /\ job'[o] = job[o]
    BY <1>4, ChatSets, ChatSteps, StepsAreTyped DEF BaseInv, StepTyped, Stands
  <2>2. UNCHANGED <<faults, limit, sessions>>
    BY <1>4 DEF SaveProfile
  <2>3. Cardinality(Pending') = P - 1
    BY <1>1, <2>1, OneLess
  <2>4. counted' + Cardinality(Pending') <= doubts'
    BY <1>1, <1>2, <2>1, <2>3
  <2>5. \A o \in Request : pc'[o] = "store" => job'[o].seen + Cardinality(Pending') <= doubts'
    BY <1>1, <1>2, <2>1, <2>3
  <2>6. ASSUME exact'
        PROVE  /\ counted' + Cardinality(Pending') = doubts'
               /\ \A o \in Request : pc'[o] = "store" => job'[o].seen = counted'
    <3>1. exact
      BY <2>2, <2>6
    <3>2. \A o \in Request \ {r} : pc[o] = "idle"
      BY <2>1, <3>1, OnlyOne
    <3>3. \A o \in Request : pc'[o] # "store"
      BY <2>1, <3>2
    <3> QED BY <1>1, <1>2, <2>1, <2>3, <3>1, <3>3
  <2> QED BY <2>4, <2>5, <2>6 DEF CountInv
<1>5. ASSUME NEW r \in Request, LoadProfile(r), StepOf(r)
      PROVE  CountInv'
  <2>1. /\ Pending' = Pending /\ job'[r].seen = counted /\ counted' = counted /\ doubts' = doubts
        /\ \A o \in Request \ {r} : pc'[o] = pc[o] /\ job'[o] = job[o]
    BY <1>5, ChatSets, ChatSteps, StepsAreTyped DEF BaseInv, StepTyped, Stands
  <2>2. UNCHANGED <<faults, limit, sessions>>
    BY <1>5 DEF LoadProfile, aside
  <2> QED BY <1>1, <1>2, <2>1, <2>2 DEF CountInv
<1>6. ASSUME NEW r \in Request, Fault(r), StepOf(r)
      PROVE  CountInv'
  <2>1. /\ Pending' \subseteq Pending /\ counted' = counted /\ doubts' = doubts
        /\ faults' # 0 /\ pc'[r] = "idle"
        /\ \A o \in Request \ {r} : pc'[o] = pc[o] /\ job'[o] = job[o]
    BY <1>6, ChatSets, ChatSteps, StepsAreTyped DEF BaseInv, StepTyped, Stands
  <2>2. Cardinality(Pending') <= P /\ Cardinality(Pending') \in Nat
    BY <1>1, <2>1, NoMore
  <2> QED BY <1>1, <1>2, <2>1, <2>2 DEF CountInv
<1>7. ASSUME NEW r \in Request, StepOf(r), ~RecordDoubt(r), ~SaveProfile(r),
             ~LoadProfile(r), ~Fault(r)
      PROVE  CountInv'
  <2>1. Pending' = Pending
    BY <1>7, ChatSets, OffChat
  <2>2. counted' = counted /\ doubts' = doubts /\ faults' = faults
    BY <1>7, OffChat, ChatSteps, StepsChange DEF Off, RecordQuestion, RecordReply
  <2>3. limit' = limit /\ sessions' = sessions
    BY <1>7, OffChat DEF Off, RecordQuestion, RecordReply, UpsertSkill
  <2>4. \A o \in Request : pc'[o] = "store" => pc[o] = "store" /\ job'[o] = job[o]
    <3>1. pc'[r] # "store"
      BY <1>7, OffChat, ChatSteps DEF Off
    <3> QED BY <1>7, <3>1, StepsAreTyped DEF BaseInv, StepTyped, Stands
  <2> QED BY <1>2, <2>1, <2>2, <2>3, <2>4 DEF CountInv
<1>8. CASE SyncModule \/ SessionEnds \/ EvaluationEnds \/ UNCHANGED vars
  <2>1. /\ pc' = pc /\ job' = job /\ doubts' = doubts /\ faults' = faults /\ limit' = limit
        /\ \/ counted' = counted /\ sessions' = sessions
           \/ counted' = 0 /\ sessions' = sessions + 1
    BY <1>8 DEF SyncModule, SessionEnds, EvaluationEnds, vars, handler, aside, traces
  <2>2. Pending' = Pending
    BY <2>1 DEF Pending
  <2>3. CASE counted' = counted /\ sessions' = sessions
    BY <1>2, <2>1, <2>2, <2>3 DEF CountInv
  <2>4. CASE counted' = 0 /\ sessions' = sessions + 1
    <3>1. sessions' # 0
      BY <1>1, <2>4
    <3> QED BY <1>1, <1>2, <2>1, <2>2, <2>4, <3>1 DEF CountInv
  <2> QED BY <2>1, <2>3, <2>4
<1> QED BY <1>3, <1>4, <1>5, <1>6, <1>7, <1>8, StepsByKind

LEMMA SkillInductive == BaseInv /\ ChatShape /\ CountInv /\ SkillInv /\ [Next]_vars => SkillInv'
<1> SUFFICES ASSUME BaseInv, ChatShape, CountInv, SkillInv, [Next]_vars
             PROVE  SkillInv'
  OBVIOUS
<1> doubts \in Nat /\ counted \in Nat /\ faults \in Nat
  BY DEF BaseInv, TypeInv
<1>1. ASSUME NEW r \in Request, RecordDoubt(r), StepOf(r)
      PROVE  SkillInv'
  <2>1. doubts' = doubts + 1 /\ pc'[r] = "skill" /\ ~job'[r].grades
    BY <1>1, ChatSteps DEF RecordDoubt
  <2> QED BY <2>1 DEF SkillInv
<1>2. ASSUME NEW r \in Request, UpsertSkill(r), StepOf(r)
      PROVE  SkillInv'
  <2>1. pc[r] = "skill" /\ doubts' = doubts /\ faults' = faults
    BY <1>2, ChatSteps DEF UpsertSkill
  <2>2. \A o \in Request \ {r} : pc'[o] = pc[o] /\ job'[o] = job[o]
    BY <1>2, StepsAreTyped DEF BaseInv, StepTyped, Stands
  <2>3. CASE ~job[r].grades
    <3>1. Cardinality(Pending) >= 1
      <4>1. r \in Pending
        BY <2>1, <2>3 DEF Pending
      <4>2. Cardinality(Pending) \in Nat /\ Cardinality(Pending \ {r}) \in Nat
            /\ Cardinality(Pending \ {r}) = Cardinality(Pending) - 1
        BY <4>1, ChatsCounted, OneLess
      <4> QED BY <4>2
    <3>2. doubts # 0
      BY <3>1, ChatsCounted DEF CountInv
    <3>3. "doubt" \in skills'
      BY <1>2, <2>3, ChatSteps
    <3> QED BY <2>1, <3>2, <3>3 DEF SkillInv
  <2>4. CASE job[r].grades
    <3>1. skills' = skills \union {"evaluation"}
      BY <1>2, <2>4, ChatSteps
    <3> QED BY <2>1, <2>2, <2>4, <3>1 DEF SkillInv
  <2> QED BY <2>3, <2>4
<1>3. ASSUME NEW r \in Request, StepOf(r), ~RecordDoubt(r), ~UpsertSkill(r)
      PROVE  SkillInv'
  <2>1. doubts' = doubts /\ skills' = skills
    BY <1>3, OffChat, ChatSteps DEF Off, RecordQuestion, RecordReply
  <2>2. \A o \in Request \ {r} : pc'[o] = pc[o] /\ job'[o] = job[o]
    BY <1>3, StepsAreTyped DEF BaseInv, StepTyped, Stands
  <2>3. CASE Fault(r)
    <3>1. faults' # 0
      BY <2>3, ChatSteps
    <3> QED BY <2>1, <3>1 DEF SkillInv
  <2>4. CASE ~Fault(r)
    <3>1. faults' = faults /\ pc[r] # "skill"
      BY <1>3, <2>4, OffChat, ChatSteps, StepsChange DEF Off
    <3> QED BY <2>1, <2>2, <3>1 DEF SkillInv
  <2> QED BY <2>3, <2>4
<1>4. CASE SyncModule \/ SessionEnds \/ EvaluationEnds \/ UNCHANGED vars
  <2>1. /\ pc' = pc /\ job' = job /\ doubts' = doubts /\ faults' = faults
        /\ skills' = skills \/ skills' = skills \union {"evaluation"}
    BY <1>4 DEF SyncModule, SessionEnds, EvaluationEnds, vars, handler, aside, traces
  <2> QED BY <2>1 DEF SkillInv
<1> QED BY <1>1, <1>2, <1>3, <1>4, StepsByKind

\* What a student says in the chat is recorded with everything that follows from
\* it: no reply without its question, no doubt without its reply, none counted that
\* is not on record, however many chats and check answers interleave; and nothing is
\* missing when all are through and none died (answer_module_chat).
THEOREM ChatIsOnRecord == Spec => []ChatOnRecord
<1>1. Init => ChatInv
  <2> SUFFICES ASSUME Init PROVE ChatInv
    OBVIOUS
  <2>1. /\ Replying = {} /\ Doubting = {} /\ Pending = {} /\ ChatShape
        /\ \A r \in Request : pc[r] = "idle"
    BY DEF Init, Replying, Doubting, Pending, ChatShape
  <2>2. Cardinality({}) = 0
    BY FS_EmptySet
  <2>3. RowsInv /\ CountInv /\ SkillInv
    BY <2>1, <2>2 DEF Init, RowsInv, CountInv, SkillInv
  <2> QED BY <2>1, <2>3, InitBase DEF ChatInv
<1>2. ChatInv /\ [Next]_vars => ChatInv'
  BY BaseInductive, ShapeInductive, RowsInductive, CountInductive, SkillInductive DEF ChatInv
<1>3. ChatInv => ChatOnRecord
  <2> SUFFICES ASSUME ChatInv PROVE ChatOnRecord
    OBVIOUS
  <2>1. /\ chat.replied \in Nat /\ chat.asked \in Nat /\ doubts \in Nat /\ counted \in Nat
        /\ Cardinality(Replying) \in Nat /\ Cardinality(Doubting) \in Nat
        /\ Cardinality(Pending) \in Nat
    BY ChatsCounted DEF ChatInv, BaseInv, TypeInv
  <2>2. counted <= doubts /\ doubts <= chat.replied /\ chat.replied <= chat.asked
    BY <2>1 DEF ChatInv, RowsInv, CountInv
  <2>3. ASSUME InFlight = {}, faults = 0
        PROVE  /\ chat.asked = doubts /\ (doubts # 0 <=> "doubt" \in skills)
               /\ limit = 1 /\ sessions = 0 => counted = doubts
    <3>1. Replying = {} /\ Doubting = {} /\ Pending = {} /\ \A r \in Request : pc[r] = "idle"
      BY <2>3 DEF InFlight, Replying, Doubting, Pending
    <3>2. Cardinality({}) = 0
      BY FS_EmptySet
    <3>3. chat.asked = doubts
      BY <2>1, <2>3, <3>1, <3>2 DEF ChatInv, RowsInv
    <3>4. limit = 1 /\ sessions = 0 => counted = doubts
      BY <2>1, <2>3, <3>1, <3>2 DEF ChatInv, CountInv
    <3>5. doubts # 0 <=> "doubt" \in skills
      BY <2>3, <3>1 DEF ChatInv, SkillInv
    <3> QED BY <3>3, <3>4, <3>5
  <2> QED BY <2>2, <2>3 DEF ChatOnRecord
<1> QED BY <1>1, <1>2, <1>3, PTL DEF Spec
=============================================================================
