----------------------------- MODULE ModuleLesson -----------------------------
(***************************************************************************)
(* One module as its student uses it: the lesson, generated on first       *)
(* demand, the check questions generated from its text and the answers to  *)
(* them, and the chat, whose doubts go into the student's profile          *)
(* (core/course_service.py, db/postgres.py).                               *)
(*                                                                         *)
(* A lesson text is known by the generation that wrote it, a question row  *)
(* by the text it was generated from.  A handler reads what is there,      *)
(* awaits the LLM, and writes with one autocommitted statement per column  *)
(* group or question row: one action per read, await or statement.         *)
(***************************************************************************)
EXTENDS Naturals, FiniteSets

CONSTANTS
    Q,              \* bound: questions of a list
    Lengths,        \* how many a list may have: it is the pace's if those derived
                    \* from the text pass, else the one the LLM returned
    Request,        \* requests the server can have in its hands
    WaitsForLesson, \* whether the client sends nothing else for the module
                    \* while a lesson of it is being generated
    Limits,         \* bounds: requests being handled at one time, one chosen
    MaxRequests,    \* bound: requests ever begun
    MaxFaults,      \* bound: handlers that die before they end
    MaxSessions     \* bound: tutoring sessions that end

ASSUME QuestionAssumption == Q \in Nat \ {0} /\ Lengths \subseteq 1..Q
ASSUME WaitAssumption == WaitsForLesson \in BOOLEAN
ASSUME BoundAssumption == Limits \union {MaxRequests, MaxFaults, MaxSessions} \subseteq Nat

\* Lesson texts are numbered as they are generated; 0 is no lesson.
Text == 0..MaxRequests

-----------------------------------------------------------------------------
VARIABLES
    content,    \* course_modules.content_markdown
    videos,     \* module_metadata.lesson_videos: the text saved with them
    questions,  \* module_questions: per position the text asked about, 0 none
    lists,      \* history: the lengths of the lists begun to be saved
    chat,       \* module_chat_messages: rows of the student and of the tutor
    doubts,     \* rows of doubt_log about the module
    counted,    \* the doubts counted in the student's metacognition profile
    graded,     \* rows of evaluation_history from check answers
    skills,     \* the sources of the student_skills rows of the concept
    mastery,    \* its concept_mastery row: "none", "earned" by an evaluation, "zero"
    pc, job,    \* the handler of each request
    texts,      \* texts generated so far
    limit,      \* the bound chosen
    begun, faults, sessions

lesson  == <<content, videos, questions, lists>>
traces  == <<chat, doubts, counted, graded, skills, mastery>>
handler == <<pc, job>>
aside   == <<traces, limit, sessions>>
vars    == <<lesson, handler, aside, texts, begun, faults>>

\* text: the lesson the handler read or generated; count: the questions of its
\* list; next: the row to insert; grades: whether an answer is to be graded;
\* seen: the doubts counted as read.
Job   == [text : Text, count : 0..Q, next : 1..Q, grades : BOOLEAN,
          seen : 0..MaxRequests]
NoJob == [text |-> 0, count |-> 0, next |-> 1, grades |-> FALSE, seen |-> 0]

NoQuestions == [i \in 1..Q |-> 0]

InFlight   == {r \in Request : pc[r] # "idle"}
Generating == {"generate", "save_text", "save_videos", "clear"}

Init ==
    /\ content = 0 /\ videos = 0
    /\ questions = NoQuestions /\ lists = {}
    /\ pc = [r \in Request |-> "idle"]
    /\ job = [r \in Request |-> NoJob]
    /\ chat = [asked |-> 0, replied |-> 0]
    /\ doubts = 0 /\ counted = 0 /\ graded = 0
    /\ skills = {} /\ mastery = "none"
    /\ limit \in Limits
    /\ texts = 0 /\ begun = 0 /\ faults = 0 /\ sessions = 0

-----------------------------------------------------------------------------
Goto(r, to) == pc' = [pc EXCEPT ![r] = to]

End(r) == Goto(r, "idle") /\ job' = [job EXCEPT ![r] = NoJob]

\* The questions a request asked for are there: an answer to one is graded.
Answered(r) ==
    IF job[r].grades THEN Goto(r, "grade") /\ UNCHANGED job ELSE End(r)

Begin(r, to, work) ==
    /\ pc[r] = "idle"
    /\ Cardinality(InFlight) < limit
    /\ begun < MaxRequests
    /\ begun' = begun + 1
    /\ WaitsForLesson => \A o \in Request : pc[o] \notin Generating
    /\ Goto(r, to)
    /\ job' = [job EXCEPT ![r] = work]

(* generate_module_lesson and its streaming twin *)

\* Mistake: a lesson that is there is generated again.
BeginGenerateAgain(r) ==
    /\ WaitsForLesson => InFlight = {}
    /\ Begin(r, "generate", NoJob)
    /\ UNCHANGED <<lesson, texts, faults, aside>>

\* The module is read; a lesson that is there is returned, not regenerated.
BeginGenerate(r) ==
    /\ content = 0
    /\ WaitsForLesson => InFlight = {}
    /\ Begin(r, "generate", NoJob)
    /\ UNCHANGED <<lesson, texts, faults, aside>>

\* The LLM writes a lesson and the videos are looked up ...
WriteLesson(r) ==
    /\ pc[r] = "generate"
    /\ texts' = texts + 1
    /\ job' = [job EXCEPT ![r].text = texts + 1]
    /\ Goto(r, "save_text")
    /\ UNCHANGED <<lesson, begun, faults, aside>>

\* ... or it fails, and the error is returned.
LessonFails(r) ==
    /\ pc[r] = "generate"
    /\ End(r)
    /\ UNCHANGED <<lesson, texts, begun, faults, aside>>

\* save_module_content overwrites whatever text is there by now,
SaveText(r) ==
    /\ pc[r] = "save_text"
    /\ content' = job[r].text
    /\ Goto(r, "save_videos")
    /\ UNCHANGED <<videos, questions, lists, job, texts, begun, faults, aside>>

\* then the videos,
SaveVideos(r) ==
    /\ pc[r] = "save_videos"
    /\ videos' = job[r].text
    /\ Goto(r, "clear")
    /\ UNCHANGED <<content, questions, lists, job, texts, begun, faults, aside>>

\* and replaces the questions by none.
ClearQuestions(r) ==
    /\ pc[r] = "clear"
    /\ questions' = NoQuestions
    /\ End(r)
    /\ UNCHANGED <<content, videos, lists, texts, begun, faults, aside>>

(* get_or_create_module_questions, from GET .../questions or an evaluate *)

\* The endpoint reads the module and hands its text on.
BeginQuestions(r) ==
    /\ Begin(r, "select", [NoJob EXCEPT !.text = content])
    /\ UNCHANGED <<lesson, texts, faults, aside>>

\* Saved questions are returned as they are; without a text to ask about the
\* request is refused.
SelectQuestions(r) ==
    /\ pc[r] = "select"
    /\ IF questions # NoQuestions THEN Answered(r)
       ELSE IF job[r].text = 0 THEN End(r)
       ELSE Goto(r, "ask") /\ UNCHANGED job
    /\ UNCHANGED <<lesson, texts, begun, faults, aside>>

\* Questions are derived from the text and validated, with one retry by the
\* LLM; if that fails too, none are saved.
QuestionsFail(r) ==
    /\ pc[r] = "ask"
    /\ End(r)
    /\ UNCHANGED <<lesson, texts, begun, faults, aside>>

\* save_module_questions has a list of its own to save: a DELETE ...
DeleteQuestions(r) ==
    /\ pc[r] = "ask"
    /\ questions' = NoQuestions
    /\ \E n \in Lengths : /\ job' = [job EXCEPT ![r].count = n]
                         /\ lists' = lists \union {n}
    /\ Goto(r, "insert")
    /\ UNCHANGED <<content, videos, texts, begun, faults, aside>>

\* Mistake: one row too few.
InsertQuestionShort(r) ==
    LET i == job[r].next IN
    /\ pc[r] = "insert"
    /\ questions' = IF questions[i] = 0
                    THEN [questions EXCEPT ![i] = job[r].text] ELSE questions
    /\ IF questions[i] = 0 /\ i < job[r].count - 1
       THEN job' = [job EXCEPT ![r].next = i + 1] /\ UNCHANGED pc
       ELSE End(r)
    /\ UNCHANGED <<content, videos, lists, texts, begun, faults, aside>>

\* ... and an INSERT per question.  The id of a row is its position in the
\* module, so a row that is there already ends the request with an error.
InsertQuestion(r) ==
    LET i == job[r].next IN
    /\ pc[r] = "insert"
    /\ IF questions[i] # 0
       THEN End(r) /\ UNCHANGED questions
       ELSE /\ questions' = [questions EXCEPT ![i] = job[r].text]
            /\ IF i < job[r].count
               THEN job' = [job EXCEPT ![r].next = i + 1] /\ UNCHANGED pc
               ELSE Answered(r)
    /\ UNCHANGED <<content, videos, lists, texts, begun, faults, aside>>

(* evaluate_module_answer: one answer to one check question *)

\* The questions are looked up, or generated, first.
BeginEvaluate(r) ==
    /\ Begin(r, "select", [NoJob EXCEPT !.text = content, !.grades = TRUE])
    /\ UNCHANGED <<lesson, texts, faults, aside>>

\* The question answered is not, or no longer, among them.
QuestionNotFound(r) ==
    /\ pc[r] = "grade"
    /\ End(r)
    /\ UNCHANGED <<lesson, texts, begun, faults, aside>>

\* The evaluation is written: correctness and depth are 0 whatever was
\* answered, so that no module is ever completed here.
WriteEvaluation(r) ==
    /\ pc[r] = "grade"
    /\ graded' = graded + 1
    /\ Goto(r, "mastery")
    /\ UNCHANGED <<lesson, chat, doubts, counted, skills, mastery, job,
                   texts, limit, begun, faults, sessions>>

UpsertMastery(r) ==
    /\ pc[r] = "mastery"
    /\ mastery' = "zero"
    /\ Goto(r, "skill")
    /\ UNCHANGED <<lesson, chat, doubts, counted, graded, skills, job,
                   texts, limit, begun, faults, sessions>>

(* answer_module_chat *)

\* There is no chat before there is a lesson.
BeginChat(r) ==
    /\ content # 0
    /\ Begin(r, "ask_tutor", NoJob)
    /\ UNCHANGED <<lesson, texts, faults, aside>>

\* The LLM replies, or an apology does; then the question is recorded,
RecordQuestion(r) ==
    /\ pc[r] = "ask_tutor"
    /\ chat' = [chat EXCEPT !.asked = @ + 1]
    /\ Goto(r, "reply")
    /\ UNCHANGED <<lesson, doubts, counted, graded, skills, mastery, job,
                   texts, limit, begun, faults, sessions>>

\* the reply,
RecordReply(r) ==
    /\ pc[r] = "reply"
    /\ chat' = [chat EXCEPT !.replied = @ + 1]
    /\ Goto(r, "doubt")
    /\ UNCHANGED <<lesson, doubts, counted, graded, skills, mastery, job,
                   texts, limit, begun, faults, sessions>>

\* the doubt,
RecordDoubt(r) ==
    /\ pc[r] = "doubt"
    /\ doubts' = doubts + 1
    /\ Goto(r, "skill")
    /\ UNCHANGED <<lesson, chat, counted, graded, skills, mastery, job,
                   texts, limit, begun, faults, sessions>>

\* a skill of its source, which is the last of a check answer,
UpsertSkill(r) ==
    /\ pc[r] = "skill"
    /\ skills' = skills \union {IF job[r].grades THEN "evaluation" ELSE "doubt"}
    /\ IF job[r].grades THEN End(r) ELSE Goto(r, "load") /\ UNCHANGED job
    /\ UNCHANGED <<lesson, chat, doubts, counted, graded, mastery,
                   texts, limit, begun, faults, sessions>>

\* and the count in the profile: it is loaded ...
LoadProfile(r) ==
    /\ pc[r] = "load"
    /\ job' = [job EXCEPT ![r].seen = counted]
    /\ Goto(r, "store")
    /\ UNCHANGED <<lesson, texts, begun, faults, aside>>

\* Mistake: the message counts, and so does the reply.
SaveProfileTwice(r) ==
    /\ pc[r] = "store"
    /\ counted' = job[r].seen + 2
    /\ End(r)
    /\ UNCHANGED <<lesson, chat, doubts, graded, skills, mastery,
                   texts, limit, begun, faults, sessions>>

\* ... changed, and saved whole.
SaveProfile(r) ==
    /\ pc[r] = "store"
    /\ counted' = job[r].seen + 1
    /\ End(r)
    /\ UNCHANGED <<lesson, chat, doubts, graded, skills, mastery,
                   texts, limit, begun, faults, sessions>>

(* Around them *)

\* A listing of the courses rewrites module_metadata from the plan, which
\* knows of no videos.
SyncModule ==
    /\ videos' = 0
    /\ UNCHANGED <<content, questions, lists, handler, texts, begun, faults, aside>>

\* A tutoring session of the student ends and saves the profile it works
\* with, whose model has no field for the doubts counted.
SessionEnds ==
    /\ sessions < MaxSessions /\ sessions' = sessions + 1
    /\ counted' = 0
    /\ UNCHANGED <<lesson, chat, doubts, graded, skills, mastery, handler,
                   texts, limit, begun, faults>>

\* An evaluation of the module ends (EvaluationSession).
EvaluationEnds ==
    /\ content # 0
    /\ mastery' = "earned" /\ skills' = skills \union {"evaluation"}
    /\ UNCHANGED <<lesson, chat, doubts, counted, graded, handler,
                   texts, limit, begun, faults, sessions>>

Fault(r) ==
    /\ pc[r] # "idle" /\ faults < MaxFaults
    /\ faults' = faults + 1
    /\ End(r)
    /\ UNCHANGED <<lesson, texts, begun, aside>>

-----------------------------------------------------------------------------
Handle(r) ==
    \/ WriteLesson(r) \/ LessonFails(r)
    \/ SaveText(r) \/ SaveVideos(r) \/ ClearQuestions(r)
    \/ SelectQuestions(r) \/ QuestionsFail(r)
    \/ DeleteQuestions(r) \/ InsertQuestion(r)
    \/ QuestionNotFound(r) \/ WriteEvaluation(r) \/ UpsertMastery(r)
    \/ RecordQuestion(r) \/ RecordReply(r) \/ RecordDoubt(r)
    \/ UpsertSkill(r) \/ LoadProfile(r) \/ SaveProfile(r)

Next ==
    \/ SyncModule \/ SessionEnds \/ EvaluationEnds
    \/ \E r \in Request :
         \/ BeginGenerate(r) \/ BeginQuestions(r)
         \/ BeginEvaluate(r) \/ BeginChat(r)
         \/ Handle(r) \/ Fault(r)

Spec == Init /\ [][Next]_vars

-----------------------------------------------------------------------------
(* Properties *)

\* The tables and the handlers always hold values of their types.
TypeOK ==
    /\ content \in Text /\ videos \in Text
    /\ questions \in [1..Q -> Text] /\ lists \subseteq Lengths
    /\ pc \in [Request -> Generating \union
                           {"idle", "select", "ask", "insert", "grade", "mastery",
                            "ask_tutor", "reply", "doubt", "skill", "load", "store"}]
    /\ job \in [Request -> Job]
    /\ texts \in Text /\ begun \in 0..MaxRequests /\ faults \in Nat

\* A lesson that is there is not replaced by another: the student goes on
\* reading, and is asked about, the text that was saved first
\* (docs/DEVELOPER_HANDOVER.md).  Needs the client to wait for the lesson.
LessonIsKept == [][content # 0 => content' = content]_vars

\* Every saved question is about the lesson as it is: none outlives its text.
\* Needs the client to wait for the lesson.
QuestionsGrounded == \A i \in 1..Q : questions[i] \in {0, content}

\* When nothing is being handled, every position that all the lists have that
\* were begun to be saved holds its question, however many requests saved theirs at
\* the same time and ran into each other's rows: the ones that fail leave no gap
\* that the others do not fill.  Beyond the shortest list rows of a longer one may
\* stay, with gaps (README, Disagreements).  Needs the client to wait for the
\* lesson; a handler that dies half-way leaves a part.
QuestionsWhole ==
    InFlight = {} /\ faults = 0 /\ lists # {} =>
      \A i \in 1..Q : (\A n \in lists : i <= n) => questions[i] # 0

\* The saved questions are about the lesson and none is missing, when the
\* client waits for the lesson.
SavedQuestions == QuestionsGrounded /\ QuestionsWhole

\* The videos saved with a lesson are there as long as the lesson is: later
\* reads return it as it was persisted (docs/architecture/ARCHITECTURE_V2.md).
\* Does not hold; no run checks it (README, Disagreements).
VideosAreKept ==
    [][videos # 0 /\ content' = content => videos' = videos]_vars

\* What a student says in the chat is recorded with everything that follows
\* from it: at any time no reply without its question, no doubt without its
\* reply and none counted that is not on record; and when nothing is being
\* handled and no handler died, every question has its reply and its doubt.
\* One chat at a time, with no session that ended, each doubt is counted.
ChatOnRecord ==
    LET quiet == InFlight = {} /\ faults = 0 IN
    /\ counted <= doubts /\ doubts <= chat.replied /\ chat.replied <= chat.asked
    /\ quiet => chat.asked = doubts /\ (doubts # 0 <=> "doubt" \in skills)
    /\ quiet /\ limit = 1 /\ sessions = 0 => counted = doubts

\* "long-term doubt counters in the student's metacognition profile"
\* (core/course_service.py): one request at a time, they never fall.
LongTermDoubts == [][limit = 1 => counted' >= counted]_vars

\* The mastery a student earned in an evaluation is not lost to the answer to
\* a check question. Does not hold; no run checks it (README, Disagreements).
MasteryKept == [][mastery = "earned" => mastery' = "earned"]_vars
=============================================================================
