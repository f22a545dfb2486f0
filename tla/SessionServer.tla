---------------------------- MODULE SessionServer ----------------------------
(***************************************************************************)
(* The server side of the tutoring sessions (app/api.py): the table of     *)
(* sessions, the lock of each student, the task that runs a session and    *)
(* the two queues through which it talks to the requests of its client.    *)
(*                                                                         *)
(* What the agents say and ask is free here (TeachingLoop has it): a task  *)
(* emits, asks, ends or raises.  A handler runs alone between two awaits,  *)
(* so each action is what happens from one await that can wait to the      *)
(* next.  A reply carries the prompt the student meant it for, which the   *)
(* server cannot see.                                                      *)
(***************************************************************************)
EXTENDS Naturals, Sequences, FiniteSets

CONSTANTS
    Student, Session,
    Nobody,         \* no session
    QueueSize,      \* maxsize of output_queue
    MaxPrompts,     \* bound: prompts of a session
    MaxRequests,    \* bound: requests of clients, for all sessions together
    Punctual        \* whether the student replies once to each prompt and
                    \* before its time is over

ASSUME NobodyAssumption == Nobody \notin Session
ASSUME QueueAssumption == QueueSize \in Nat \ {0}
ASSUME BoundAssumption == {MaxPrompts, MaxRequests} \subseteq Nat
ASSUME ModeAssumption == Punctual \in BOOLEAN

\* What a session can be waiting for (awaiting_input_type).
InputType == {"answer", "confidence", "doubt"}

Prompt   == [number : 0..MaxPrompts, type : InputType \cup {"none"}]
NoPrompt == [number |-> 0, type |-> "none"]

-----------------------------------------------------------------------------
VARIABLES
    server,         \* "up", "stopping" or "down"
    sessions,       \* keys of _sessions
    known,          \* students whose row exists
    holder,         \* the session that holds the student's lock, if any
    stored,         \* how often the student's state has been saved
    student, locked, loaded,    \* of a session: whose, with a lock?, saves seen
    task,           \* where the task of a session stands
    cancelled,      \* a cancellation is on its way to the task
    ended, awaiting, prompt,    \* SessionContext
    output_queue, input_queue,
    ending,         \* POST /session/end waits to put its sentinel
    stream,         \* the event stream of the client
    raced,          \* sessions whose start overlapped another of the student
    posted,         \* a reply on its way, with the prompt it is meant for
    mixed,          \* a prompt that got the reply to another one
    requests

who    == <<known, student, locked, loaded, raced>>
ctx    == <<ended, awaiting, prompt>>
client == <<stream, posted>>
vars   == <<server, sessions, holder, stored, who, task, cancelled, ctx,
            output_queue, input_queue, ending, client, mixed, requests>>

Started(s) == task[s] # "none"

Init ==
    /\ server = "up"
    /\ sessions = {}
    /\ known \in SUBSET Student
    /\ holder = [st \in Student |-> Nobody]
    /\ stored = [st \in Student |-> 0]
    /\ student \in [Session -> Student]
    /\ locked = [s \in Session |-> FALSE]
    /\ loaded = [s \in Session |-> 0]
    /\ raced = {}
    /\ task = [s \in Session |-> "none"]
    /\ cancelled = [s \in Session |-> FALSE]
    /\ ended = [s \in Session |-> FALSE]
    /\ awaiting = [s \in Session |-> "none"]
    /\ prompt = [s \in Session |-> NoPrompt]
    /\ output_queue = [s \in Session |-> <<>>]
    /\ input_queue = [s \in Session |-> <<>>]
    /\ ending = [s \in Session |-> FALSE]
    /\ stream = [s \in Session |-> "none"]
    /\ posted = [s \in Session |-> NoPrompt]
    /\ mixed = [s \in Session |-> "no"]
    /\ requests = 0

-----------------------------------------------------------------------------
Set(f, s, v) == [f EXCEPT ![s] = v]

Goto(s, to) == task' = Set(task, s, to)

\* A request of a client.
Requested == server = "up" /\ requests < MaxRequests /\ requests' = requests + 1

\* Mistake: a queue without maxsize.
HasRoomAlways(s) == TRUE

HasRoom(s) == Len(output_queue[s]) < QueueSize

Put(s, event) ==
    /\ HasRoom(s)
    /\ output_queue' = Set(output_queue, s, Append(output_queue[s], event))

(* POST /session/start *)

\* Starts of the student that have passed the test of the lock and not run yet.
Starting(st) == {o \in Session :
    student[o] = st /\ task[o] \in {"loading", "loaded", "acquiring"}}

\* Mistake: the lock is left to the task.
PassesAlways(st) == TRUE

\* A returning student is refused while the lock is held.
Passes(st) == holder[st] = Nobody

BeginStart(s) ==
    /\ Requested /\ ~Started(s)
    /\ student[s] \in known
    /\ Passes(student[s])
    /\ Goto(s, "loading")
    /\ locked' = Set(locked, s, TRUE)
    /\ raced' = IF Starting(student[s]) = {} THEN raced
                ELSE raced \cup Starting(student[s]) \cup {s}
    /\ UNCHANGED <<server, sessions, holder, stored, known, student, loaded, cancelled,
                   ctx, output_queue, input_queue, ending, client, mixed>>

LoadState(s) ==
    /\ task[s] = "loading"
    /\ loaded' = Set(loaded, s, stored[student[s]])
    /\ Goto(s, "loaded")
    /\ UNCHANGED <<server, sessions, holder, stored, known, student, locked, raced, cancelled,
                   ctx, output_queue, input_queue, ending, client, mixed, requests>>

\* Mistake: each start makes a lock of its own.
CreateSessionOwnLock(s) ==
    /\ task[s] = "loaded"
    /\ sessions' = sessions \cup {s}
    /\ Goto(s, "running") /\ holder' = Set(holder, student[s], s)
    /\ UNCHANGED <<server, stored, who, cancelled,
                   ctx, output_queue, input_queue, ending, client, mixed, requests>>

\* The session enters the table and its task starts: it gets the lock at once
\* if nobody holds it or waits for it, or waits.
CreateSession(s) ==
    /\ task[s] = "loaded"
    /\ sessions' = sessions \cup {s}
    /\ IF /\ holder[student[s]] = Nobody
          /\ \A o \in Starting(student[s]) : task[o] # "acquiring"
       THEN Goto(s, "running") /\ holder' = Set(holder, student[s], s)
       ELSE Goto(s, "acquiring") /\ UNCHANGED holder
    /\ UNCHANGED <<server, stored, who, cancelled,
                   ctx, output_queue, input_queue, ending, client, mixed, requests>>

\* A new student gets a row and a session; no lock is made for either.
StartNew(s) ==
    /\ Requested /\ ~Started(s)
    /\ student[s] \notin known
    /\ known' = known \cup {student[s]}
    /\ sessions' = sessions \cup {s}
    /\ Goto(s, "running")
    /\ UNCHANGED <<server, holder, stored, student, locked, loaded, raced, cancelled,
                   ctx, output_queue, input_queue, ending, client, mixed>>

(* The task: _run_session *)

Acquire(s) ==
    /\ task[s] = "acquiring" /\ ~cancelled[s]
    /\ holder[student[s]] = Nobody
    /\ holder' = Set(holder, student[s], s)
    /\ Goto(s, "running")
    /\ UNCHANGED <<server, sessions, stored, who, cancelled, ctx,
                   output_queue, input_queue, ending, client, mixed, requests>>

\* emit waits for room for ten seconds and drops the text after that.
Emit(s) ==
    /\ task[s] = "running" /\ ~cancelled[s]
    /\ Put(s, "event")
    /\ UNCHANGED <<server, sessions, holder, stored, who, task, cancelled, ctx,
                   input_queue, ending, client, mixed, requests>>

Ask(s) ==
    /\ task[s] = "running" /\ ~cancelled[s]
    /\ prompt[s].number < MaxPrompts
    /\ \E type \in InputType :
        /\ prompt' = Set(prompt, s, [number |-> prompt[s].number + 1, type |-> type])
        /\ awaiting' = Set(awaiting, s, type)
    /\ Goto(s, "prompting")
    /\ UNCHANGED <<server, sessions, holder, stored, who, cancelled, ended,
                   output_queue, input_queue, ending, client, mixed, requests>>

\* The event of the prompt, and once more as a plain message: no limit of time.
PutPrompt(s) ==
    /\ task[s] \in {"prompting", "repeating"} /\ ~cancelled[s]
    /\ Put(s, "event")
    /\ Goto(s, IF task[s] = "prompting" THEN "repeating" ELSE "awaiting")
    /\ UNCHANGED <<server, sessions, holder, stored, who, cancelled, ctx,
                   input_queue, ending, client, mixed, requests>>

\* ask returns: nothing is awaited any more.
AskReturns(s, reply) ==
    /\ mixed' = IF reply \in {prompt[s], NoPrompt} THEN mixed
                ELSE Set(mixed, s, reply.type)
    /\ awaiting' = Set(awaiting, s, "none")
    /\ Goto(s, "running")
    /\ UNCHANGED <<server, sessions, holder, stored, who, cancelled, ended, prompt,
                   ending, client, requests>>

TakeReply(s) ==
    /\ task[s] = "awaiting" /\ ~cancelled[s]
    /\ input_queue[s] # <<>>
    /\ input_queue' = Set(input_queue, s, Tail(input_queue[s]))
    /\ AskReturns(s, Head(input_queue[s]))
    /\ UNCHANGED output_queue

\* Twenty seconds without a doubt, longer than a punctual student's reply takes:
\* a note is put into the queue, at once if there is room.
DoubtTimesOut(s) ==
    /\ task[s] = "awaiting" /\ ~cancelled[s]
    /\ prompt[s].type = "doubt" /\ input_queue[s] = <<>>
    /\ Punctual => posted[s] = NoPrompt
    /\ IF HasRoom(s)
       THEN Put(s, "event") /\ AskReturns(s, NoPrompt)
       ELSE /\ Goto(s, "noting")
            /\ UNCHANGED <<server, sessions, holder, stored, who, cancelled, ctx,
                           output_queue, ending, client, mixed, requests>>
    /\ UNCHANGED input_queue

NoteNoDoubt(s) ==
    /\ task[s] = "noting" /\ ~cancelled[s]
    /\ Put(s, "event")
    /\ AskReturns(s, NoPrompt)
    /\ UNCHANGED input_queue

\* The finally clause up to the sentinel, which has to wait for room.
Finally(s) ==
    /\ Goto(s, "closing")
    /\ ended' = Set(ended, s, TRUE)
    /\ holder' = IF locked[s] THEN Set(holder, student[s], Nobody) ELSE holder

\* _end_session flushes the state.
Finish(s) ==
    /\ task[s] = "running" /\ ~cancelled[s]
    /\ stored' = Set(stored, student[s], stored[student[s]] + 1)
    /\ loaded' = Set(loaded, s, stored'[student[s]])
    /\ Finally(s)
    /\ UNCHANGED <<server, sessions, known, student, locked, raced, cancelled, awaiting, prompt,
                   output_queue, input_queue, ending, client, mixed, requests>>

\* An agent raised: the error is emitted, or dropped, and nothing is saved.
Raise(s) ==
    /\ task[s] = "running" /\ ~cancelled[s]
    /\ Put(s, "event") \/ (~HasRoom(s) /\ UNCHANGED output_queue)
    /\ Finally(s)
    /\ UNCHANGED <<server, sessions, stored, who, cancelled, awaiting, prompt,
                   input_queue, ending, client, mixed, requests>>

PutDone(s) ==
    /\ task[s] = "closing" /\ ~cancelled[s]
    /\ Put(s, "done")
    /\ Goto(s, "done")
    /\ UNCHANGED <<server, sessions, holder, stored, who, cancelled, ctx,
                   input_queue, ending, client, mixed, requests>>

\* A cancellation arrives.  Where the lock is not yet held there is nothing to
\* clean up; in the finally clause it ends the wait for room.
CancelWaiting(s) ==
    /\ cancelled[s] /\ task[s] \in {"acquiring", "closing"}
    /\ Goto(s, "done")
    /\ cancelled' = Set(cancelled, s, FALSE)
    /\ UNCHANGED <<server, sessions, holder, stored, who, ctx,
                   output_queue, input_queue, ending, client, mixed, requests>>

InBody(s) == task[s] \in {"running", "prompting", "repeating", "awaiting", "noting"}

\* Mistake: the lock is released on the way out of a session that was not cancelled.
CancelRunningKeepsLock(s) ==
    /\ cancelled[s] /\ InBody(s)
    /\ cancelled' = Set(cancelled, s, FALSE)
    /\ Goto(s, "closing")
    /\ ended' = Set(ended, s, TRUE)
    /\ UNCHANGED <<server, sessions, holder, stored, who, awaiting, prompt,
                   output_queue, input_queue, ending, client, mixed, requests>>

\* Mistake: an agent catches the cancellation and goes on.
CancelRunningCaught(s) ==
    /\ cancelled[s] /\ InBody(s)
    /\ cancelled' = Set(cancelled, s, FALSE)
    /\ UNCHANGED <<server, sessions, holder, stored, who, task, ctx,
                   output_queue, input_queue, ending, client, mixed, requests>>

CancelRunning(s) ==
    /\ cancelled[s] /\ InBody(s)
    /\ cancelled' = Set(cancelled, s, FALSE)
    /\ Finally(s)
    /\ UNCHANGED <<server, sessions, stored, who, awaiting, prompt,
                   output_queue, input_queue, ending, client, mixed, requests>>

(* Requests of the client *)

\* /session/answer, /session/confidence and, for doubts and answers, /session/chat.
Accepts(s, type) == awaiting[s] = type

\* The student replies to the prompt, which is in the stream and in the status.
\* A punctual student's reply is there before the prompt returns or is over.
SendReply(s) ==
    /\ s \in sessions /\ awaiting[s] # "none"
    /\ posted[s] = NoPrompt
    /\ Punctual => task[s] = "awaiting" /\ input_queue[s] = <<>>
    /\ Requested
    /\ posted' = Set(posted, s, prompt[s])
    /\ UNCHANGED <<server, sessions, holder, stored, who, task, cancelled, ctx,
                   output_queue, input_queue, ending, stream, mixed>>

\* The endpoints a client can send the reply to: a doubt goes to /session/chat,
\* which takes answers as well.
Fits(reply, s) ==
    \/ Accepts(s, reply.type)
    \/ reply.type = "doubt" /\ Accepts(s, "answer")

Reply(s) ==
    /\ posted[s] # NoPrompt
    /\ posted' = Set(posted, s, NoPrompt)
    /\ input_queue' = IF server = "up" /\ s \in sessions /\ Fits(posted[s], s)
                      THEN Set(input_queue, s, Append(input_queue[s], posted[s]))
                      ELSE input_queue
    /\ UNCHANGED <<server, sessions, holder, stored, who, task, cancelled, ctx,
                   output_queue, ending, stream, mixed, requests>>

\* Mistake: a remark nobody awaits is kept for the next prompt.
ChatQueued(s) ==
    /\ Requested /\ s \in sessions
    /\ ~ended[s] /\ awaiting[s] = "none"
    /\ input_queue' = Set(input_queue, s, Append(input_queue[s], [number |-> 0, type |-> "doubt"]))
    /\ UNCHANGED <<server, sessions, holder, stored, who, task, cancelled, ctx,
                   output_queue, ending, stream, posted, mixed>>

\* /session/chat when nothing is awaited.
Chat(s) ==
    /\ Requested /\ s \in sessions
    /\ ~ended[s] /\ awaiting[s] = "none"
    /\ Put(s, "event")
    /\ UNCHANGED <<server, sessions, holder, stored, who, task, cancelled, ctx,
                   input_queue, ending, stream, posted, mixed>>

\* POST /session/end cancels the task and waits for room for a sentinel ...
BeginEnd(s) ==
    /\ Requested /\ s \in sessions /\ ~ending[s]
    /\ cancelled' = Set(cancelled, s, task[s] # "done")
    /\ ended' = Set(ended, s, TRUE)
    /\ ending' = Set(ending, s, TRUE)
    /\ UNCHANGED <<server, sessions, holder, stored, who, task, awaiting, prompt,
                   output_queue, input_queue, client, mixed>>

\* ... and forgets the session.
EndSession(s) ==
    /\ ending[s]
    /\ Put(s, "done")
    /\ ending' = Set(ending, s, FALSE)
    /\ sessions' = sessions \ {s}
    /\ UNCHANGED <<server, holder, stored, who, task, cancelled, ctx,
                   input_queue, client, mixed, requests>>

\* GET /session/stream, once at a time; a client may go away and come back, and
\* an EventSource comes back when the server has closed the stream.
Connect(s) ==
    /\ Requested /\ s \in sessions /\ stream[s] # "open"
    /\ stream' = Set(stream, s, "open")
    /\ UNCHANGED <<server, sessions, holder, stored, who, task, cancelled, ctx,
                   output_queue, input_queue, ending, posted, mixed>>

Disconnect(s) ==
    /\ stream[s] = "open"
    /\ stream' = Set(stream, s, "none")
    /\ UNCHANGED <<server, sessions, holder, stored, who, task, cancelled, ctx,
                   output_queue, input_queue, ending, posted, mixed, requests>>

ReadEvent(s) ==
    /\ stream[s] = "open" /\ output_queue[s] # <<>>
    /\ output_queue' = Set(output_queue, s, Tail(output_queue[s]))
    /\ stream' = IF Head(output_queue[s]) = "done" THEN Set(stream, s, "closed") ELSE stream
    /\ UNCHANGED <<server, sessions, holder, stored, who, task, cancelled, ctx,
                   input_queue, ending, posted, mixed, requests>>

IsOver(s) == ended[s] \/ task[s] = "done"

\* Nobody has put an event for 45 seconds, though there is room: a ping, or the
\* end of the stream.
StreamIdle(s) ==
    /\ stream[s] = "open" /\ output_queue[s] = <<>>
    /\ ~ending[s] /\ task[s] \in {"running", "awaiting", "done"}
    /\ IsOver(s)
    /\ stream' = Set(stream, s, "closed")
    /\ UNCHANGED <<server, sessions, holder, stored, who, task, cancelled, ctx,
                   output_queue, input_queue, ending, posted, mixed, requests>>

(* The server *)

\* _cleanup_dead_sessions
Cleanup ==
    /\ \E s \in sessions : task[s] = "done"
    /\ sessions' = {s \in sessions : task[s] # "done"}
    /\ UNCHANGED <<server, holder, stored, who, task, cancelled, ctx,
                   output_queue, input_queue, ending, client, mixed, requests>>

\* lifespan, after yield: requests have ended, tasks are cancelled ...
Shutdown ==
    /\ server = "up"
    /\ \A s \in Session : task[s] \notin {"loading", "loaded"} /\ ~ending[s] /\ stream[s] # "open"
    /\ server' = "stopping"
    /\ cancelled' = [s \in Session |-> cancelled[s] \/ (s \in sessions /\ task[s] # "done")]
    /\ UNCHANGED <<sessions, holder, stored, who, task, ctx,
                   output_queue, input_queue, ending, client, mixed, requests>>

\* ... and when they are done, every session of the table is saved, those that
\* ended before included.
SaveSessions ==
    /\ server = "stopping"
    /\ \A s \in sessions : task[s] = "done"
    /\ server' = "down"
    /\ stored' = [st \in Student |->
                    stored[st] + Cardinality({s \in sessions : student[s] = st})]
    /\ UNCHANGED <<sessions, holder, who, task, cancelled, ctx,
                   output_queue, input_queue, ending, client, mixed, requests>>

-----------------------------------------------------------------------------
TaskStep(s) ==
    \/ LoadState(s) \/ CreateSession(s) \/ Acquire(s) \/ PutPrompt(s) \/ TakeReply(s)
    \/ DoubtTimesOut(s) \/ NoteNoDoubt(s) \/ PutDone(s)
    \/ CancelWaiting(s) \/ CancelRunning(s)

StreamStep(s) == ReadEvent(s) \/ StreamIdle(s)

Next ==
    \/ \E s \in Session :
        \/ BeginStart(s) \/ StartNew(s)
        \/ Emit(s) \/ Ask(s) \/ Finish(s) \/ Raise(s) \/ TaskStep(s)
        \/ SendReply(s) \/ Reply(s) \/ Chat(s)
        \/ BeginEnd(s) \/ EndSession(s)
        \/ Connect(s) \/ Disconnect(s) \/ StreamStep(s)
    \/ Cleanup \/ Shutdown \/ SaveSessions

Spec == Init /\ [][Next]_vars

\* The event loop runs tasks and streams that can go on.  Nothing is assumed of
\* the student, of the agents or of the ends they choose.
Fairness == \A s \in Session : WF_vars(TaskStep(s)) /\ WF_vars(StreamStep(s))

FairSpec == Spec /\ Fairness

-----------------------------------------------------------------------------
Place == {"none", "loading", "loaded", "acquiring", "running", "prompting", "repeating",
          "awaiting", "noting", "closing", "done"}

TypeOK ==
    /\ server \in {"up", "stopping", "down"}
    /\ sessions \subseteq Session
    /\ known \subseteq Student
    /\ holder \in [Student -> Session \cup {Nobody}]
    /\ stored \in [Student -> Nat]
    /\ student \in [Session -> Student]
    /\ locked \in [Session -> BOOLEAN]
    /\ loaded \in [Session -> Nat]
    /\ raced \subseteq Session
    /\ task \in [Session -> Place]
    /\ cancelled \in [Session -> BOOLEAN]
    /\ ended \in [Session -> BOOLEAN]
    /\ awaiting \in [Session -> InputType \cup {"none"}]
    /\ prompt \in [Session -> Prompt]
    /\ output_queue \in [Session -> Seq({"event", "done"})]
    /\ \A s \in Session : Len(output_queue[s]) <= QueueSize
    /\ input_queue \in [Session -> Seq(Prompt)]
    /\ ending \in [Session -> BOOLEAN]
    /\ stream \in [Session -> {"none", "open", "closed"}]
    /\ posted \in [Session -> Prompt]
    /\ requests \in 0..MaxRequests
    /\ mixed \in [Session -> InputType \cup {"no"}]

\* Two sessions of one student that were started with a lock never run at the
\* same time, however starts, ends and cancellations interleave (_run_session).
OneWithLock == \A s, o \in Session :
    (s # o /\ student[s] = student[o] /\ locked[s] /\ locked[o] /\ InBody(s)) => ~InBody(o)

\* No two sessions of one student run at the same time.
OneSession == \A s, o \in Session :
    (s # o /\ student[s] = student[o] /\ InBody(s)) => ~InBody(o)

\* A session that runs under the lock works on the state that was saved last:
\* what its flush writes has lost nothing (start_session, _run_session).  Except
\* after starts that overlapped, and beside a first session, which has no lock.
WorksOnLatest == \A s \in Session :
    /\ InBody(s) /\ ~cancelled[s] /\ s \notin raced
    /\ \A o \in Session : student[o] = student[s] /\ Started(o) => locked[o]
    => loaded[s] = stored[student[s]]

\* Sessions under the lock of one student neither overlap nor undo each other.
SessionsApart == OneWithLock /\ WorksOnLatest

\* Each prompt gets the reply that was meant for it, or none: nothing is left in
\* the queue for the next one (ask), for a punctual student.
OwnReply == \A s \in Session : mixed[s] = "no"

\* A reply to a doubt prompt is not taken as the answer to a question.
DoubtIsNoAnswer == \A s \in Session : mixed[s] # "doubt"

\* When a session has been ended, by its task, by the student or by an error,
\* its lock becomes free, also when its stream is gone and its queue is full
\* (finally of _run_session).
EndFreesStudent == \A s \in Session : ended[s] ~> holder[student[s]] # s

\* A session that has been ended while its stream is read comes to its end: its
\* task does not go on, nor wait for room in the queue (end_session,
\* _run_session, _sse_stream).
EndedStops == \A s \in Session :
    (ended[s] /\ stream[s] = "open") ~> (task[s] = "done" \/ stream[s] = "none")
=============================================================================
