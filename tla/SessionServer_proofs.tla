------------------------- MODULE SessionServer_proofs -------------------------
(***************************************************************************)
(* Proofs about SessionServer: that the sessions of one student under the  *)
(* lock neither overlap nor undo each other, and that each prompt gets the *)
(* reply that was meant for it; for any students, sessions and bounds.     *)
(***************************************************************************)
EXTENDS SessionServer, FiniteSetTheorems, SequenceTheorems, TLAPS

Asked == [number : 1..MaxPrompts, type : InputType] \union {NoPrompt}

TypeInv ==
    /\ server \in {"up", "stopping", "down"}
    /\ sessions \subseteq Session /\ known \subseteq Student /\ raced \subseteq Session
    /\ holder \in [Student -> Session \union {Nobody}]
    /\ stored \in [Student -> Nat]
    /\ student \in [Session -> Student]
    /\ locked \in [Session -> BOOLEAN]
    /\ loaded \in [Session -> Nat]
    /\ task \in [Session -> Place]
    /\ cancelled \in [Session -> BOOLEAN]
    /\ ended \in [Session -> BOOLEAN]
    /\ awaiting \in [Session -> InputType \union {"none"}]
    /\ prompt \in [Session -> Asked] /\ posted \in [Session -> Asked]
    /\ output_queue \in [Session -> Seq({"event", "done"})]
    /\ \A s \in Session : Len(output_queue[s]) <= QueueSize
    /\ input_queue \in [Session -> Seq(Asked)]
    /\ ending \in [Session -> BOOLEAN]
    /\ stream \in [Session -> {"none", "open", "closed"}]
    /\ requests \in 0..MaxRequests
    /\ mixed \in [Session -> InputType \union {"no"}]

BaseInv == TypeInv /\ IsFiniteSet(sessions)

Before(s) == task[s] \in {"loading", "loaded", "acquiring"}

\* Whoever is between the test of the lock and its release was told to take it,
\* and who runs under it holds it.
LockOK(s) ==
    /\ task[s] = "none" => ~locked[s]
    /\ Before(s) => locked[s]
    /\ Started(s) => student[s] \in known
    /\ InBody(s) /\ locked[s] => holder[student[s]] = s

\* A session is in the table from its creation until it is over or is being ended.
TableOK(s) ==
    /\ s \in sessions \/ ending[s] \/ cancelled[s] => task[s] \notin {"none", "loading", "loaded"}
    /\ (InBody(s) \/ task[s] = "acquiring") /\ ~cancelled[s] => s \in sessions /\ ~ending[s]
    /\ server # "up" => task[s] \notin {"loading", "loaded"}

\* Every session of the student has the lock to take.
AllLocked(st) == \A o \in Session : student[o] = st /\ Started(o) => locked[o]

\* A start that met no other: nobody else of the student is there until it runs, and
\* what it has loaded is what was saved last.
LatestOK(s) ==
    AllLocked(student[s]) /\ s \notin raced =>
      /\ Before(s) => \A o \in Session \ {s} :
                         student[o] = student[s] => ~Before(o) /\ ~InBody(o)
      /\ \/ task[s] = "loaded"
         \/ (task[s] = "acquiring" \/ InBody(s)) /\ ~cancelled[s]
         => loaded[s] = stored[student[s]]

ApartInv ==
    /\ BaseInv
    /\ \A s \in Session : LockOK(s) /\ TableOK(s) /\ LatestOK(s)

\* One reply is on its way or in the queue while its prompt waits, or none.
ReplyOK(s) ==
    /\ mixed[s] = "no"
    /\ posted[s] \in {NoPrompt, prompt[s]}
    /\ input_queue[s] \in {<<>>, <<prompt[s]>>}
    /\ posted[s] # NoPrompt => input_queue[s] = <<>>
    /\ posted[s] # NoPrompt \/ input_queue[s] # <<>> => task[s] \in {"awaiting", "closing", "done"}

ReplyInv == BaseInv /\ \A s \in Session : ReplyOK(s)

-----------------------------------------------------------------------------
(* Types. *)

StepOf(s) ==
    \/ BeginStart(s) \/ StartNew(s)
    \/ Emit(s) \/ Ask(s) \/ Finish(s) \/ Raise(s) \/ TaskStep(s)
    \/ SendReply(s) \/ Reply(s) \/ Chat(s)
    \/ BeginEnd(s) \/ EndSession(s)
    \/ Connect(s) \/ Disconnect(s) \/ StreamStep(s)

LEMMA StepsByKind ==
    ASSUME [Next]_vars
    PROVE  \/ \E s \in Session : StepOf(s)
           \/ Cleanup \/ Shutdown \/ SaveSessions \/ UNCHANGED vars
BY DEF Next, StepOf

LEMMA Bounds ==
    /\ QueueSize \in Nat \ {0} /\ MaxPrompts \in Nat /\ MaxRequests \in Nat
    /\ Nobody \notin Session
BY QueueAssumption, BoundAssumption, NobodyAssumption

LEMMA PutTyped ==
    ASSUME TypeInv, NEW s \in Session, NEW e \in {"event", "done"}, Put(s, e)
    PROVE  /\ output_queue' \in [Session -> Seq({"event", "done"})]
           /\ \A o \in Session : Len(output_queue'[o]) <= QueueSize
<1>1. /\ output_queue' = [output_queue EXCEPT ![s] = Append(output_queue[s], e)]
      /\ Len(output_queue[s]) < QueueSize
  BY DEF Put, HasRoom, Set
<1>2. output_queue[s] \in Seq({"event", "done"}) /\ output_queue \in [Session -> Seq({"event", "done"})]
  BY DEF TypeInv
<1>3. /\ Append(output_queue[s], e) \in Seq({"event", "done"})
      /\ Len(Append(output_queue[s], e)) = Len(output_queue[s]) + 1
      /\ Len(output_queue[s]) \in Nat
  BY <1>2, AppendProperties, LenProperties
<1>4. Len(Append(output_queue[s], e)) <= QueueSize
  BY <1>1, <1>3, Bounds
<1>5. \A o \in Session : Len(output_queue'[o]) <= QueueSize
  BY <1>1, <1>2, <1>4 DEF TypeInv
<1> QED BY <1>1, <1>2, <1>3, <1>5

LEMMA TailTyped ==
    ASSUME NEW S, NEW q \in Seq(S), q # <<>>
    PROVE  /\ Tail(q) \in Seq(S) /\ Head(q) \in S /\ Len(Tail(q)) = Len(q) - 1
           /\ Len(q) \in Nat
BY HeadTailProperties, LenProperties

LEMMA StartTyped ==
    ASSUME BaseInv, NEW s \in Session, BeginStart(s) \/ LoadState(s) \/ CreateSession(s) \/ StartNew(s)
    PROVE  BaseInv'
<1> TypeInv /\ IsFiniteSet(sessions) /\ student[s] \in Student
  BY DEF BaseInv, TypeInv
<1>1. CASE BeginStart(s)
  <2>1. /\ raced' \subseteq Session /\ requests' \in 0..MaxRequests
    BY <1>1, Bounds DEF BeginStart, Requested, Starting, TypeInv
  <2>2. task' \in [Session -> Place] /\ locked' \in [Session -> BOOLEAN]
    BY <1>1 DEF BeginStart, Goto, Set, TypeInv, Place
  <2> QED BY <1>1, <2>1, <2>2 DEF BeginStart, BaseInv, TypeInv, ctx, client
<1>2. CASE LoadState(s)
  <2>1. task' \in [Session -> Place] /\ loaded' \in [Session -> Nat]
    BY <1>2 DEF LoadState, Goto, Set, TypeInv, Place
  <2> QED BY <1>2, <2>1 DEF LoadState, BaseInv, TypeInv, ctx, client
<1>3. CASE CreateSession(s)
  <2>1. /\ task' \in [Session -> Place] /\ holder' \in [Student -> Session \union {Nobody}]
    BY <1>3 DEF CreateSession, Goto, Set, TypeInv, Place
  <2>2. sessions' \subseteq Session /\ IsFiniteSet(sessions')
    BY <1>3, FS_AddElement DEF CreateSession, TypeInv
  <2> QED BY <1>3, <2>1, <2>2 DEF CreateSession, BaseInv, TypeInv, ctx, client, who
<1>4. CASE StartNew(s)
  <2>1. /\ task' \in [Session -> Place] /\ known' \subseteq Student /\ requests' \in 0..MaxRequests
    BY <1>4, Bounds DEF StartNew, Requested, Goto, Set, TypeInv, Place
  <2>2. sessions' \subseteq Session /\ IsFiniteSet(sessions')
    BY <1>4, FS_AddElement DEF StartNew, TypeInv
  <2> QED BY <1>4, <2>1, <2>2 DEF StartNew, BaseInv, TypeInv, ctx, client
<1> QED BY <1>1, <1>2, <1>3, <1>4

LEMMA AskReturnsTyped ==
    ASSUME TypeInv, NEW s \in Session, NEW reply \in Asked, AskReturns(s, reply)
    PROVE  /\ task' \in [Session -> Place]
           /\ awaiting' \in [Session -> InputType \union {"none"}]
           /\ mixed' \in [Session -> InputType \union {"no"}]
           /\ UNCHANGED <<server, sessions, holder, stored, who, cancelled, ended, prompt,
                          ending, client, requests>>
<1>1. reply # NoPrompt => reply.type \in InputType
  BY DEF Asked
<1>2. mixed' \in [Session -> InputType \union {"no"}]
  BY <1>1 DEF AskReturns, Set, TypeInv
<1>3. task' \in [Session -> Place] /\ awaiting' \in [Session -> InputType \union {"none"}]
  BY DEF AskReturns, Goto, Set, TypeInv, Place
<1> QED BY <1>2, <1>3 DEF AskReturns

LEMMA AskTyped ==
    ASSUME BaseInv, NEW s \in Session,
           \/ Emit(s) \/ Ask(s) \/ PutPrompt(s) \/ TakeReply(s) \/ DoubtTimesOut(s)
           \/ NoteNoDoubt(s) \/ PutDone(s)
    PROVE  BaseInv'
<1> TypeInv
  BY DEF BaseInv
<1>0. NoPrompt \in Asked
  BY DEF Asked
<1>1. CASE Emit(s)
  <2>1. Put(s, "event")
    BY <1>1 DEF Emit
  <2> QED BY <1>1, <2>1, PutTyped DEF Emit, BaseInv, TypeInv, who, ctx, client
<1>2. CASE Ask(s)
  <2>1. PICK type \in InputType :
          /\ prompt' = [prompt EXCEPT ![s] = [number |-> prompt[s].number + 1, type |-> type]]
          /\ awaiting' = [awaiting EXCEPT ![s] = type]
    BY <1>2 DEF Ask, Set
  <2>2. prompt[s].number < MaxPrompts /\ prompt[s].number \in 0..MaxPrompts
    BY <1>2, Bounds DEF Ask, TypeInv, Asked, NoPrompt
  <2>3. [number |-> prompt[s].number + 1, type |-> type] \in Asked
    BY <2>2, Bounds DEF Asked
  <2>4. prompt' \in [Session -> Asked] /\ awaiting' \in [Session -> InputType \union {"none"}]
    BY <2>1, <2>3 DEF TypeInv
  <2>5. task' \in [Session -> Place]
    BY <1>2 DEF Ask, Goto, Set, TypeInv, Place
  <2> QED BY <1>2, <2>4, <2>5 DEF Ask, BaseInv, TypeInv, who, client
<1>3. CASE PutPrompt(s)
  <2>1. Put(s, "event") /\ task' \in [Session -> Place]
    BY <1>3 DEF PutPrompt, Goto, Set, TypeInv, Place
  <2> QED BY <1>3, <2>1, PutTyped DEF PutPrompt, BaseInv, TypeInv, who, ctx, client
<1>4. CASE TakeReply(s)
  <2>1. /\ input_queue[s] \in Seq(Asked) /\ input_queue[s] # <<>>
        /\ input_queue' = [input_queue EXCEPT ![s] = Tail(input_queue[s])]
        /\ AskReturns(s, Head(input_queue[s])) /\ UNCHANGED output_queue
    BY <1>4 DEF TakeReply, Set, TypeInv
  <2>2. Tail(input_queue[s]) \in Seq(Asked) /\ Head(input_queue[s]) \in Asked
    BY <2>1, TailTyped
  <2>3. input_queue' \in [Session -> Seq(Asked)]
    BY <2>1, <2>2 DEF TypeInv
  <2> QED BY <2>1, <2>2, <2>3, AskReturnsTyped DEF BaseInv, TypeInv, who, client
<1>5. CASE NoteNoDoubt(s)
  <2>1. Put(s, "event") /\ AskReturns(s, NoPrompt) /\ UNCHANGED input_queue
    BY <1>5 DEF NoteNoDoubt
  <2> QED BY <1>0, <2>1, PutTyped, AskReturnsTyped DEF BaseInv, TypeInv, who, client
<1>6. CASE DoubtTimesOut(s)
  <2>1. CASE HasRoom(s)
    <3>1. Put(s, "event") /\ AskReturns(s, NoPrompt) /\ UNCHANGED input_queue
      BY <1>6, <2>1 DEF DoubtTimesOut
    <3> QED BY <1>0, <3>1, PutTyped, AskReturnsTyped DEF BaseInv, TypeInv, who, client
  <2>2. CASE ~HasRoom(s)
    <3>1. /\ Goto(s, "noting")
          /\ UNCHANGED <<server, sessions, holder, stored, who, cancelled, ctx,
                         output_queue, input_queue, ending, client, mixed, requests>>
      BY <1>6, <2>2 DEF DoubtTimesOut
    <3>2. task' \in [Session -> Place]
      BY <3>1 DEF Goto, Set, TypeInv, Place
    <3> QED BY <3>1, <3>2 DEF BaseInv, TypeInv, who, ctx, client
  <2> QED BY <2>1, <2>2
<1>7. CASE PutDone(s)
  <2>1. Put(s, "done") /\ task' \in [Session -> Place]
    BY <1>7 DEF PutDone, Goto, Set, TypeInv, Place
  <2> QED BY <1>7, <2>1, PutTyped DEF PutDone, BaseInv, TypeInv, who, ctx, client
<1> QED BY <1>1, <1>2, <1>3, <1>4, <1>5, <1>6, <1>7

LEMMA EndTyped ==
    ASSUME BaseInv, NEW s \in Session,
           \/ Acquire(s) \/ Finish(s) \/ Raise(s) \/ CancelWaiting(s) \/ CancelRunning(s)
           \/ BeginEnd(s) \/ EndSession(s)
    PROVE  BaseInv'
<1> TypeInv /\ student[s] \in Student
  BY DEF BaseInv, TypeInv
<1>0. ASSUME Finally(s)
      PROVE  /\ task' \in [Session -> Place] /\ ended' \in [Session -> BOOLEAN]
             /\ holder' \in [Student -> Session \union {Nobody}]
  BY <1>0 DEF Finally, Goto, Set, TypeInv, Place
<1>1. CASE Acquire(s)
  <2>1. task' \in [Session -> Place] /\ holder' \in [Student -> Session \union {Nobody}]
    BY <1>1 DEF Acquire, Goto, Set, TypeInv, Place
  <2> QED BY <1>1, <2>1 DEF Acquire, BaseInv, TypeInv, who, ctx, client
<1>2. CASE Finish(s)
  <2>1. stored' \in [Student -> Nat] /\ Finally(s)
    BY <1>2 DEF Finish, Set, TypeInv
  <2>2. loaded' \in [Session -> Nat]
    BY <1>2, <2>1 DEF Finish, Set, TypeInv
  <2> QED BY <1>0, <1>2, <2>1, <2>2 DEF Finish, BaseInv, TypeInv, client
<1>3. CASE Raise(s)
  <2>1. /\ output_queue' \in [Session -> Seq({"event", "done"})]
        /\ \A o \in Session : Len(output_queue'[o]) <= QueueSize
    BY <1>3, PutTyped DEF Raise, TypeInv
  <2> QED BY <1>0, <1>3, <2>1 DEF Raise, BaseInv, TypeInv, who, client
<1>4. CASE CancelWaiting(s)
  <2>1. task' \in [Session -> Place] /\ cancelled' \in [Session -> BOOLEAN]
    BY <1>4 DEF CancelWaiting, Goto, Set, TypeInv, Place
  <2> QED BY <1>4, <2>1 DEF CancelWaiting, BaseInv, TypeInv, who, ctx, client
<1>5. CASE CancelRunning(s)
  <2>1. cancelled' \in [Session -> BOOLEAN] /\ Finally(s)
    BY <1>5 DEF CancelRunning, Set, TypeInv
  <2> QED BY <1>0, <1>5, <2>1 DEF CancelRunning, BaseInv, TypeInv, who, client
<1>6. CASE BeginEnd(s)
  <2>1. /\ cancelled' \in [Session -> BOOLEAN] /\ ended' \in [Session -> BOOLEAN]
        /\ ending' \in [Session -> BOOLEAN] /\ requests' \in 0..MaxRequests
    BY <1>6, Bounds DEF BeginEnd, Requested, Set, TypeInv
  <2> QED BY <1>6, <2>1 DEF BeginEnd, BaseInv, TypeInv, who, client
<1>7. CASE EndSession(s)
  <2>1. /\ Put(s, "done") /\ ending' \in [Session -> BOOLEAN]
        /\ sessions' \subseteq sessions
    BY <1>7 DEF EndSession, Set, TypeInv
  <2>2. IsFiniteSet(sessions')
    BY <2>1, FS_Subset DEF BaseInv
  <2> QED BY <1>7, <2>1, <2>2, PutTyped DEF EndSession, BaseInv, TypeInv, who, ctx, client
<1> QED BY <1>1, <1>2, <1>3, <1>4, <1>5, <1>6, <1>7

LEMMA ClientTyped ==
    ASSUME BaseInv, NEW s \in Session,
           \/ SendReply(s) \/ Reply(s) \/ Chat(s) \/ Connect(s) \/ Disconnect(s)
           \/ ReadEvent(s) \/ StreamIdle(s)
    PROVE  BaseInv'
<1> TypeInv
  BY DEF BaseInv
<1>0. NoPrompt \in Asked
  BY DEF Asked
<1>1. CASE SendReply(s)
  <2>1. posted' \in [Session -> Asked] /\ requests' \in 0..MaxRequests
    BY <1>1, Bounds DEF SendReply, Requested, Set, TypeInv
  <2> QED BY <1>1, <2>1 DEF SendReply, BaseInv, TypeInv, who, ctx
<1>2. CASE Reply(s)
  <2>1. posted' \in [Session -> Asked]
    BY <1>0, <1>2 DEF Reply, Set, TypeInv
  <2>2. input_queue' \in [Session -> Seq(Asked)]
    <3>1. input_queue[s] \in Seq(Asked) /\ posted[s] \in Asked
      BY DEF TypeInv
    <3>2. Append(input_queue[s], posted[s]) \in Seq(Asked)
      BY <3>1, AppendProperties
    <3> QED BY <1>2, <3>2 DEF Reply, Set, TypeInv
  <2> QED BY <1>2, <2>1, <2>2 DEF Reply, BaseInv, TypeInv, who, ctx
<1>3. CASE Chat(s)
  <2>1. Put(s, "event") /\ requests' \in 0..MaxRequests
    BY <1>3, Bounds DEF Chat, Requested, TypeInv
  <2> QED BY <1>3, <2>1, PutTyped DEF Chat, BaseInv, TypeInv, who, ctx
<1>4. CASE Connect(s)
  <2>1. stream' \in [Session -> {"none", "open", "closed"}] /\ requests' \in 0..MaxRequests
    BY <1>4, Bounds DEF Connect, Requested, Set, TypeInv
  <2> QED BY <1>4, <2>1 DEF Connect, BaseInv, TypeInv, who, ctx
<1>5. CASE Disconnect(s)
  <2>1. stream' \in [Session -> {"none", "open", "closed"}]
    BY <1>5 DEF Disconnect, Set, TypeInv
  <2> QED BY <1>5, <2>1 DEF Disconnect, BaseInv, TypeInv, who, ctx
<1>6. CASE StreamIdle(s)
  <2>1. stream' \in [Session -> {"none", "open", "closed"}]
    BY <1>6 DEF StreamIdle, Set, TypeInv
  <2> QED BY <1>6, <2>1 DEF StreamIdle, BaseInv, TypeInv, who, ctx
<1>7. CASE ReadEvent(s)
  <2>1. stream' \in [Session -> {"none", "open", "closed"}]
    BY <1>7 DEF ReadEvent, Set, TypeInv
  <2>2. /\ output_queue[s] \in Seq({"event", "done"}) /\ output_queue[s] # <<>>
        /\ output_queue' = [output_queue EXCEPT ![s] = Tail(output_queue[s])]
    BY <1>7 DEF ReadEvent, Set, TypeInv
  <2>3. /\ Tail(output_queue[s]) \in Seq({"event", "done"})
        /\ Len(Tail(output_queue[s])) = Len(output_queue[s]) - 1 /\ Len(output_queue[s]) \in Nat
    BY <2>2, TailTyped
  <2>4. Len(Tail(output_queue[s])) <= QueueSize
    BY <2>3, Bounds DEF TypeInv
  <2>5. /\ output_queue' \in [Session -> Seq({"event", "done"})]
        /\ \A o \in Session : Len(output_queue'[o]) <= QueueSize
    BY <2>2, <2>3, <2>4 DEF TypeInv
  <2> QED BY <1>7, <2>1, <2>5 DEF ReadEvent, BaseInv, TypeInv, who, ctx
<1> QED BY <1>1, <1>2, <1>3, <1>4, <1>5, <1>6, <1>7

LEMMA ServerTyped ==
    ASSUME BaseInv, Cleanup \/ Shutdown \/ SaveSessions \/ UNCHANGED vars
    PROVE  BaseInv'
<1> TypeInv
  BY DEF BaseInv
<1>1. CASE Cleanup
  <2>1. sessions' \subseteq sessions
    BY <1>1 DEF Cleanup
  <2>2. IsFiniteSet(sessions')
    BY <2>1, FS_Subset DEF BaseInv
  <2> QED BY <1>1, <2>1, <2>2 DEF Cleanup, BaseInv, TypeInv, who, ctx, client
<1>2. CASE Shutdown
  BY <1>2 DEF Shutdown, BaseInv, TypeInv, who, ctx, client
<1>3. CASE SaveSessions
  <2>2. ASSUME NEW st \in Student
        PROVE  stored[st] + Cardinality({s \in sessions : student[s] = st}) \in Nat
    <3>1. {s \in sessions : student[s] = st} \subseteq sessions
      OBVIOUS
    <3>2. IsFiniteSet({s \in sessions : student[s] = st})
      BY <3>1, FS_Subset DEF BaseInv
    <3>3. PICK c \in Nat : c = Cardinality({s \in sessions : student[s] = st})
      BY <3>2, FS_CardinalityType
    <3>4. stored[st] + c \in Nat
      BY DEF TypeInv
    <3> QED BY <3>3, <3>4
  <2>3. stored' \in [Student -> Nat]
    BY <1>3, <2>2 DEF SaveSessions
  <2> QED BY <1>3, <2>3 DEF SaveSessions, BaseInv, TypeInv, who, ctx, client
<1>4. CASE UNCHANGED vars
  BY <1>4 DEF vars, BaseInv, TypeInv, who, ctx, client
<1> QED BY <1>1, <1>2, <1>3, <1>4

LEMMA BaseInductive == BaseInv /\ [Next]_vars => BaseInv'
<1> SUFFICES ASSUME BaseInv, NEW s \in Session, StepOf(s)
             PROVE  BaseInv'
  BY StepsByKind, ServerTyped
<1> QED BY StartTyped, AskTyped, EndTyped, ClientTyped DEF StepOf, TaskStep, StreamStep

LEMMA InitBase == Init => BaseInv
<1> SUFFICES ASSUME Init PROVE BaseInv
  OBVIOUS
<1>1. NoPrompt \in Asked /\ <<>> \in Seq(Asked) /\ <<>> \in Seq({"event", "done"}) /\ Len(<<>>) = 0
  BY EmptySeq DEF Asked
<1>2. TypeInv
  BY <1>1, Bounds DEF Init, TypeInv, Place
<1> QED BY <1>2, FS_EmptySet DEF Init, BaseInv

\* The variables always hold values of their types, and no queue more events than
\* it has room for.
THEOREM TypeCorrect == Spec => []TypeOK
<1>1. BaseInv => TypeOK
  <2> SUFFICES ASSUME BaseInv PROVE TypeOK
    OBVIOUS
  <2>1. Asked \subseteq Prompt
    BY Bounds DEF Asked, Prompt, NoPrompt
  <2>2. \A s \in Session : input_queue[s] \in Seq(Prompt)
    <3> SUFFICES ASSUME NEW s \in Session PROVE input_queue[s] \in Seq(Prompt)
      OBVIOUS
    <3>1. input_queue[s] \in Seq(Asked)
      BY DEF BaseInv, TypeInv
    <3> QED BY <2>1, <3>1
  <2>3. prompt \in [Session -> Prompt] /\ posted \in [Session -> Prompt]
    BY <2>1 DEF BaseInv, TypeInv
  <2>4. input_queue \in [Session -> Seq(Prompt)]
    BY <2>2 DEF BaseInv, TypeInv
  <2> QED BY <2>3, <2>4 DEF BaseInv, TypeInv, TypeOK
<1> QED BY <1>1, InitBase, BaseInductive, PTL DEF Spec

-----------------------------------------------------------------------------
(* A step of one session leaves the others alone. *)

Stands(o) ==
    /\ task'[o] = task[o] /\ locked'[o] = locked[o] /\ loaded'[o] = loaded[o]
    /\ cancelled'[o] = cancelled[o] /\ ending'[o] = ending[o]
    /\ prompt'[o] = prompt[o] /\ posted'[o] = posted[o] /\ mixed'[o] = mixed[o]
    /\ input_queue'[o] = input_queue[o]
    /\ o \in sessions => o \in sessions'
    /\ o \in sessions' => o \in sessions
    /\ o \in raced => o \in raced'

LEMMA StepsAreOnes ==
    ASSUME TypeInv, NEW s \in Session, StepOf(s)
    PROVE  /\ \A o \in Session : o # s => Stands(o)
           /\ UNCHANGED <<server, student>>
           /\ known \subseteq known'
<1>0. UNCHANGED <<server, student>> /\ known \subseteq known'
  <2>1. CASE BeginStart(s) \/ StartNew(s)
    BY <2>1 DEF BeginStart, StartNew
  <2>2. CASE Emit(s) \/ Ask(s) \/ Finish(s) \/ Raise(s)
    BY <2>2 DEF Emit, Ask, Finish, Raise, who
  <2>3. CASE LoadState(s) \/ CreateSession(s) \/ Acquire(s) \/ PutPrompt(s) \/ TakeReply(s)
             \/ NoteNoDoubt(s) \/ PutDone(s) \/ CancelWaiting(s) \/ CancelRunning(s)
    BY <2>3 DEF LoadState, CreateSession, Acquire, PutPrompt, TakeReply,
                NoteNoDoubt, PutDone, CancelWaiting, CancelRunning, AskReturns, who
  <2>4. CASE DoubtTimesOut(s)
    BY <2>4 DEF DoubtTimesOut, AskReturns, who
  <2>5. CASE SendReply(s) \/ Reply(s) \/ Chat(s) \/ BeginEnd(s) \/ EndSession(s)
             \/ Connect(s) \/ Disconnect(s) \/ StreamStep(s)
    BY <2>5 DEF SendReply, Reply, Chat, BeginEnd, EndSession, Connect, Disconnect, StreamStep,
                ReadEvent, StreamIdle, who
  <2> QED BY <2>1, <2>2, <2>3, <2>4, <2>5 DEF StepOf, TaskStep
<1>1. ASSUME NEW o \in Session, o # s
      PROVE  Stands(o)
  <2>1. CASE BeginStart(s) \/ StartNew(s)
    BY <1>1, <2>1 DEF BeginStart, StartNew, Goto, Set, Stands, ctx, client, TypeInv
  <2>2. CASE Emit(s) \/ Ask(s)
    BY <1>1, <2>2 DEF Emit, Ask, Goto, Set, Stands, who, ctx, client, TypeInv
  <2>3. CASE Finish(s) \/ Raise(s) \/ CancelWaiting(s) \/ CancelRunning(s)
    BY <1>1, <2>3 DEF Finish, Raise, CancelWaiting, CancelRunning, Finally, Goto, Set, Stands,
                      who, ctx, client, TypeInv
  <2>4. CASE LoadState(s) \/ CreateSession(s) \/ Acquire(s)
    BY <1>1, <2>4 DEF LoadState, CreateSession, Acquire, Goto, Set, Stands, who, ctx, client, TypeInv
  <2>5. CASE PutPrompt(s) \/ PutDone(s)
    BY <1>1, <2>5 DEF PutPrompt, PutDone, Goto, Set, Stands, who, ctx, client, TypeInv
  <2>6. ASSUME NEW reply, AskReturns(s, reply),
               \/ UNCHANGED input_queue
               \/ input_queue' = [input_queue EXCEPT ![s] = Tail(input_queue[s])]
        PROVE  Stands(o)
    BY <1>1, <2>6 DEF AskReturns, Goto, Set, Stands, who, client, TypeInv
  <2>7. CASE TakeReply(s) \/ NoteNoDoubt(s)
    BY <2>6, <2>7 DEF TakeReply, NoteNoDoubt, Set
  <2>8. CASE DoubtTimesOut(s)
    <3>1. CASE AskReturns(s, NoPrompt) /\ UNCHANGED input_queue
      BY <2>6, <3>1
    <3>2. CASE Goto(s, "noting")
               /\ UNCHANGED <<server, sessions, holder, stored, who, cancelled, ctx,
                              output_queue, input_queue, ending, client, mixed, requests>>
      BY <1>1, <3>2 DEF Goto, Set, Stands, who, ctx, client, TypeInv
    <3> QED BY <2>8, <3>1, <3>2 DEF DoubtTimesOut
  <2>9. CASE SendReply(s) \/ Reply(s)
    BY <1>1, <2>9 DEF SendReply, Reply, Set, Stands, who, ctx, TypeInv
  <2>10. CASE Chat(s) \/ Connect(s) \/ Disconnect(s) \/ StreamStep(s)
    BY <2>10 DEF Chat, Connect, Disconnect, StreamStep, ReadEvent, StreamIdle, Stands, who, ctx
  <2>11. CASE BeginEnd(s) \/ EndSession(s)
    BY <1>1, <2>11 DEF BeginEnd, EndSession, Set, Stands, who, ctx, client, TypeInv
  <2> QED BY <2>1, <2>2, <2>3, <2>4, <2>5, <2>7, <2>8, <2>9, <2>10, <2>11 DEF StepOf, TaskStep
<1> QED BY <1>0, <1>1

-----------------------------------------------------------------------------
(* What a step is to the lock, the table and the saved state. *)

\* It stays on one side of the lock, or
Calm(s) ==
    /\ UNCHANGED <<holder, stored, loaded, locked, raced, known, sessions, ending, cancelled>>
    /\ task'[s] = task[s] \/ (InBody(s) /\ InBody(s)')

\* leaves the body of the task, or
Leaves(s) ==
    /\ InBody(s) /\ Finally(s)
    /\ UNCHANGED <<locked, raced, known, sessions, ending>>
    /\ cancelled'[s] => cancelled[s]

\* ends the task.
Closes(s) ==
    /\ task[s] \in {"acquiring", "closing"} /\ task'[s] = "done"
    /\ UNCHANGED <<holder, stored, loaded, locked, raced, known, sessions, ending>>
    /\ cancelled'[s] => cancelled[s]

LEMMA KindOfStep ==
    ASSUME TypeInv, NEW s \in Session, StepOf(s)
    PROVE  \/ BeginStart(s) \/ LoadState(s) \/ CreateSession(s) \/ StartNew(s) \/ Acquire(s)
           \/ Calm(s) \/ Leaves(s) \/ Closes(s) \/ BeginEnd(s) \/ EndSession(s)
<1>1. CASE Emit(s) \/ SendReply(s) \/ Reply(s) \/ Chat(s) \/ Connect(s) \/ Disconnect(s)
           \/ StreamStep(s)
  <2>1. UNCHANGED <<task, holder, stored, loaded, locked, raced, known, sessions, ending,
                    cancelled>>
    BY <1>1 DEF Emit, SendReply, Reply, Chat, Connect, Disconnect, StreamStep, ReadEvent,
                StreamIdle, who
  <2>2. task'[s] = task[s]
    BY <2>1
  <2>3. Calm(s)
    BY <2>1, <2>2 DEF Calm
  <2> QED BY <2>3
<1>2. ASSUME NEW reply, AskReturns(s, reply), task[s] \in {"awaiting", "noting"}
      PROVE  Calm(s)
  BY <1>2 DEF AskReturns, Goto, Set, InBody, Calm, who, TypeInv
<1>3. CASE Ask(s) \/ PutPrompt(s)
  BY <1>3 DEF Ask, PutPrompt, Goto, Set, InBody, Calm, who, TypeInv
<1>4. CASE TakeReply(s) \/ NoteNoDoubt(s)
  BY <1>2, <1>4 DEF TakeReply, NoteNoDoubt
<1>5. CASE DoubtTimesOut(s)
  <2>1. CASE AskReturns(s, NoPrompt)
    BY <1>2, <1>5, <2>1 DEF DoubtTimesOut
  <2>2. CASE Goto(s, "noting")
             /\ UNCHANGED <<server, sessions, holder, stored, who, cancelled, ctx,
                            output_queue, ending, client, mixed, requests>>
    BY <1>5, <2>2 DEF DoubtTimesOut, Goto, Set, InBody, Calm, who, TypeInv
  <2> QED BY <1>5, <2>1, <2>2 DEF DoubtTimesOut
<1>6. CASE Finish(s) \/ Raise(s) \/ CancelRunning(s)
  BY <1>6 DEF Finish, Raise, CancelRunning, InBody, Set, Leaves, who, TypeInv
<1>7. CASE PutDone(s) \/ CancelWaiting(s)
  BY <1>7 DEF PutDone, CancelWaiting, Goto, Set, Closes, who, TypeInv
<1> QED BY <1>1, <1>3, <1>4, <1>5, <1>6, <1>7 DEF StepOf, TaskStep

LEMMA LockInductive ==
    ASSUME TypeInv, \A s \in Session : LockOK(s), [Next]_vars
    PROVE  \A s \in Session : LockOK(s)'
<1>1. ASSUME NEW s \in Session, StepOf(s)
      PROVE  \A o \in Session : LockOK(o)'
  <2> student[s] \in Student /\ holder \in [Student -> Session \union {Nobody}]
      /\ task \in [Session -> Place] /\ locked \in [Session -> BOOLEAN] /\ LockOK(s)
      /\ student \in [Session -> Student]
    BY DEF TypeInv
  <2>1. /\ \A o \in Session : o # s => Stands(o)
        /\ student' = student /\ known \subseteq known'
    BY <1>1, StepsAreOnes
  <2>2. ASSUME NEW o \in Session, o # s, holder'[student[o]] = holder[student[o]]
                                          \/ ~(InBody(o) /\ locked[o])
        PROVE  LockOK(o)'
    BY <2>1, <2>2 DEF LockOK, Stands, Before, Started, InBody
  <2>3. CASE BeginStart(s)
    <3>1. /\ task'[s] = "loading" /\ locked'[s] = TRUE /\ student[s] \in known
          /\ holder' = holder /\ known' = known
      BY <2>3 DEF BeginStart, Goto, Set
    <3>2. LockOK(s)'
      BY <2>1, <3>1 DEF LockOK, Before, Started, InBody
    <3> QED BY <2>2, <3>1, <3>2
  <2>4. CASE LoadState(s)
    <3>1. task[s] = "loading" /\ task'[s] = "loaded" /\ locked' = locked /\ holder' = holder
      BY <2>4 DEF LoadState, Goto, Set
    <3>2. LockOK(s)'
      BY <2>1, <3>1 DEF LockOK, Before, Started, InBody
    <3> QED BY <2>2, <3>1, <3>2
  <2>5. CASE CreateSession(s) \/ Acquire(s)
    <3>1. /\ Before(s) /\ locked' = locked
          /\ \/ task'[s] = "acquiring" /\ holder' = holder
             \/ /\ task'[s] = "running" /\ holder[student[s]] = Nobody
                /\ holder' = [holder EXCEPT ![student[s]] = s]
      BY <2>5 DEF CreateSession, Acquire, Goto, Set, who, Before
    <3>2. LockOK(s)'
      BY <2>1, <3>1 DEF LockOK, Before, Started, InBody
    <3>3. ASSUME NEW o \in Session, o # s
          PROVE  holder'[student[o]] = holder[student[o]] \/ ~(InBody(o) /\ locked[o])
      BY <3>1, <3>3, Bounds DEF LockOK
    <3> QED BY <2>2, <3>2, <3>3
  <2>6. CASE StartNew(s)
    <3>1. /\ task[s] = "none" /\ task'[s] = "running" /\ locked' = locked /\ holder' = holder
          /\ student[s] \in known'
      BY <2>6 DEF StartNew, Goto, Set, Started
    <3>2. LockOK(s)'
      BY <2>1, <3>1 DEF LockOK, Before, Started, InBody
    <3> QED BY <2>2, <3>1, <3>2
  <2>7. CASE Calm(s) \/ Closes(s)
    <3>1. holder' = holder /\ locked' = locked /\ known' = known
      BY <2>7 DEF Calm, Closes
    <3>2. LockOK(s)'
      BY <2>1, <2>7, <3>1 DEF Calm, Closes, LockOK, Before, Started, InBody
    <3> QED BY <2>2, <3>1, <3>2
  <2>8. CASE Leaves(s)
    <3>1. /\ task'[s] = "closing" /\ locked' = locked /\ known' = known /\ InBody(s)
          /\ holder' = IF locked[s] THEN [holder EXCEPT ![student[s]] = Nobody] ELSE holder
      BY <2>8 DEF Leaves, Finally, Goto, Set
    <3>2. LockOK(s)'
      BY <2>1, <3>1 DEF LockOK, Before, Started, InBody
    <3>3. ASSUME NEW o \in Session, o # s
          PROVE  holder'[student[o]] = holder[student[o]] \/ ~(InBody(o) /\ locked[o])
      BY <3>1, <3>3 DEF LockOK
    <3> QED BY <2>2, <3>2, <3>3
  <2>9. CASE BeginEnd(s) \/ EndSession(s)
    <3>1. UNCHANGED <<holder, locked, known, task>>
      BY <2>9 DEF BeginEnd, EndSession, who
    <3>2. LockOK(s)'
      BY <2>1, <3>1 DEF LockOK, Before, Started, InBody
    <3> QED BY <2>2, <3>1, <3>2
  <2> QED BY <1>1, <2>3, <2>4, <2>5, <2>6, <2>7, <2>8, <2>9, KindOfStep
<1>2. CASE Cleanup \/ Shutdown \/ SaveSessions \/ UNCHANGED vars
  <2>1. UNCHANGED <<holder, locked, known, task, student>>
    BY <1>2 DEF Cleanup, Shutdown, SaveSessions, vars, who
  <2> QED BY <2>1 DEF LockOK, Before, Started, InBody
<1> QED BY <1>1, <1>2, StepsByKind

LEMMA TableInductive ==
    ASSUME TypeInv, \A s \in Session : TableOK(s), [Next]_vars
    PROVE  \A s \in Session : TableOK(s)'
<1>1. ASSUME NEW s \in Session, StepOf(s)
      PROVE  \A o \in Session : TableOK(o)'
  <2> task \in [Session -> Place] /\ cancelled \in [Session -> BOOLEAN] /\ TableOK(s)
      /\ ending \in [Session -> BOOLEAN] /\ sessions \subseteq Session
    BY DEF TypeInv
  <2>1. (\A o \in Session : o # s => Stands(o)) /\ server' = server
    BY <1>1, StepsAreOnes
  <2>2. ASSUME NEW o \in Session, o # s
        PROVE  TableOK(o)'
    BY <2>1, <2>2 DEF TableOK, Stands, InBody
  <2>3. CASE BeginStart(s)
    <3>1. /\ task[s] = "none" /\ task'[s] = "loading" /\ server = "up"
          /\ UNCHANGED <<sessions, ending, cancelled>>
      BY <2>3 DEF BeginStart, Requested, Started, Goto, Set
    <3> QED BY <2>1, <2>2, <3>1 DEF TableOK, InBody
  <2>4. CASE LoadState(s)
    <3>1. /\ task[s] = "loading" /\ task'[s] = "loaded"
          /\ UNCHANGED <<sessions, ending, cancelled>>
      BY <2>4 DEF LoadState, Goto, Set
    <3> QED BY <2>1, <2>2, <3>1 DEF TableOK, InBody
  <2>5. CASE CreateSession(s)
    <3>1. /\ task[s] = "loaded" /\ task'[s] \in {"running", "acquiring"} /\ s \in sessions'
          /\ UNCHANGED <<ending, cancelled>>
      BY <2>5 DEF CreateSession, Goto, Set
    <3> QED BY <2>1, <2>2, <3>1 DEF TableOK, InBody
  <2>6. CASE StartNew(s)
    <3>1. /\ task[s] = "none" /\ task'[s] = "running" /\ s \in sessions'
          /\ UNCHANGED <<ending, cancelled>>
      BY <2>6 DEF StartNew, Goto, Set, Started
    <3> QED BY <2>1, <2>2, <3>1 DEF TableOK, InBody
  <2>7. CASE Acquire(s)
    <3>1. /\ task[s] = "acquiring" /\ task'[s] = "running"
          /\ UNCHANGED <<sessions, ending, cancelled>>
      BY <2>7 DEF Acquire, Goto, Set
    <3> QED BY <2>1, <2>2, <3>1 DEF TableOK, InBody
  <2>8. CASE Calm(s)
    BY <2>1, <2>2, <2>8 DEF Calm, TableOK, InBody
  <2>9. CASE Leaves(s) \/ Closes(s)
    <3>1. /\ task[s] \notin {"none", "loading", "loaded"} /\ task'[s] \in {"closing", "done"}
          /\ UNCHANGED <<sessions, ending>>
      BY <2>9 DEF Leaves, Closes, Finally, Goto, Set, InBody
    <3> QED BY <2>1, <2>2, <3>1 DEF TableOK, InBody
  <2>10. CASE BeginEnd(s)
    <3>1. /\ s \in sessions /\ task' = task /\ sessions' = sessions
          /\ cancelled'[s] = (task[s] # "done")
      BY <2>10 DEF BeginEnd, Set
    <3> QED BY <2>1, <2>2, <3>1 DEF TableOK, InBody
  <2>11. CASE EndSession(s)
    <3>1. /\ ending[s] /\ task' = task /\ sessions' = sessions \ {s} /\ cancelled' = cancelled
      BY <2>11 DEF EndSession
    <3> QED BY <2>1, <2>2, <3>1 DEF TableOK, InBody
  <2> QED BY <1>1, <2>3, <2>4, <2>5, <2>6, <2>7, <2>8, <2>9, <2>10, <2>11, KindOfStep
<1>2. CASE Cleanup
  BY <1>2 DEF Cleanup, TableOK, InBody
<1>3. CASE Shutdown
  BY <1>3 DEF Shutdown, TableOK, InBody, TypeInv
<1>4. CASE SaveSessions \/ UNCHANGED vars
  BY <1>4 DEF SaveSessions, vars, TableOK, InBody
<1> QED BY <1>1, <1>2, <1>3, <1>4, StepsByKind

-----------------------------------------------------------------------------
(* Sessions of one student work one after the other. *)

\* Once a session has no lock to take, that stays so.
LEMMA LocksStay ==
    ASSUME TypeInv, \A s \in Session : LockOK(s), [Next]_vars, NEW st \in Student,
           AllLocked(st)'
    PROVE  AllLocked(st)
<1> SUFFICES ASSUME NEW o \in Session, student[o] = st, Started(o)
             PROVE  locked[o]
  BY DEF AllLocked
<1>1. ASSUME NEW s \in Session, StepOf(s)
      PROVE  locked[o]
  <2>1. student' = student /\ (o # s => Stands(o))
    BY <1>1, StepsAreOnes
  <2>2. CASE o # s
    BY <2>1, <2>2 DEF Stands, AllLocked, Started
  <2>3. CASE o = s /\ ~BeginStart(s) /\ ~StartNew(s)
    <3>1. locked' = locked /\ task'[s] # "none"
      <4>1. CASE LoadState(s) \/ CreateSession(s) \/ Acquire(s)
        BY <4>1 DEF LoadState, CreateSession, Acquire, Goto, Set, who, TypeInv
      <4>2. CASE Calm(s) \/ Leaves(s) \/ Closes(s)
        BY <2>3, <4>2 DEF Calm, Leaves, Closes, Finally, Goto, Set, InBody, TypeInv, Started
      <4>3. CASE BeginEnd(s) \/ EndSession(s)
        BY <2>3, <4>3 DEF BeginEnd, EndSession, who, Started
      <4> QED BY <1>1, <2>3, <4>1, <4>2, <4>3, KindOfStep
    <3> QED BY <2>1, <2>3, <3>1 DEF AllLocked, Started
  <2>4. CASE o = s /\ (BeginStart(s) \/ StartNew(s))
    BY <2>4 DEF BeginStart, StartNew
  <2> QED BY <2>2, <2>3, <2>4
<1>2. CASE Cleanup \/ Shutdown \/ SaveSessions \/ UNCHANGED vars
  <2>1. UNCHANGED <<locked, task, student>>
    BY <1>2 DEF Cleanup, Shutdown, SaveSessions, vars, who
  <2> QED BY <2>1 DEF AllLocked, Started
<1> QED BY <1>1, <1>2, StepsByKind

\* While everybody has the lock to take, only one runs, and nobody beside a start
\* that met no other.
LEMMA RunsAlone ==
    ASSUME ApartInv, NEW s \in Session, NEW o \in Session, o # s, student[o] = student[s],
           AllLocked(student[s]), s \notin raced, InBody(o)
    PROVE  ~InBody(s) /\ ~Before(s)
<1>1. locked[o]
  BY DEF AllLocked, Started, InBody
<1>2. InBody(s) => locked[s]
  BY DEF AllLocked, Started, InBody
<1>3. ~InBody(s)
  BY <1>1, <1>2 DEF ApartInv, LockOK
<1>4. ~Before(s)
  BY DEF ApartInv, LatestOK
<1> QED BY <1>3, <1>4

\* What the last flush wrote and what a session has loaded stay as they are.
LEMMA LatestStays ==
    ASSUME ApartInv, [Next]_vars, NEW s \in Session, AllLocked(student[s]), s \notin raced,
           \/ task[s] = "loaded"
           \/ (task[s] = "acquiring" \/ InBody(s)) /\ ~cancelled[s],
           ~Finish(s), ~LoadState(s)
    PROVE  loaded'[s] = loaded[s] /\ stored'[student[s]] = stored[student[s]]
<1> TypeInv /\ student[s] \in Student /\ LockOK(s) /\ TableOK(s)
  BY DEF ApartInv, BaseInv, TypeInv
<1>1. ASSUME NEW o \in Session, Finish(o)
      PROVE  loaded'[s] = loaded[s] /\ stored'[student[s]] = stored[student[s]]
  <2>1. InBody(o) /\ o # s
    BY <1>1 DEF Finish, InBody
  <2>2. student[o] # student[s]
    BY <2>1, RunsAlone DEF Before
  <2>3. stored' = [stored EXCEPT ![student[o]] = stored[student[o]] + 1]
    BY <1>1 DEF Finish, Set
  <2>4. loaded'[s] = loaded[s]
    BY <1>1, <2>1 DEF Finish, Set, TypeInv
  <2> QED BY <2>2, <2>3, <2>4 DEF TypeInv
<1>2. ASSUME NEW o \in Session, LoadState(o)
      PROVE  loaded'[s] = loaded[s] /\ stored'[student[s]] = stored[student[s]]
  BY <1>2 DEF LoadState, Set, TypeInv
<1>3. ASSUME NEW o \in Session, StepOf(o), ~Finish(o), ~LoadState(o)
      PROVE  loaded' = loaded /\ stored' = stored
  <2>1. CASE BeginStart(o) \/ StartNew(o) \/ CreateSession(o) \/ Acquire(o) \/ BeginEnd(o)
             \/ EndSession(o)
    BY <2>1 DEF BeginStart, StartNew, CreateSession, Acquire, BeginEnd, EndSession, who
  <2>2. CASE Calm(o) \/ Closes(o)
    BY <2>2 DEF Calm, Closes
  <2>3. CASE Raise(o) \/ CancelRunning(o)
    BY <2>3 DEF Raise, CancelRunning, who
  <2>4. CASE Emit(o) \/ Ask(o) \/ TaskStep(o) \/ SendReply(o) \/ Reply(o) \/ Chat(o)
             \/ Connect(o) \/ Disconnect(o) \/ StreamStep(o)
    <3>1. CASE Emit(o) \/ Ask(o) \/ SendReply(o) \/ Reply(o) \/ Chat(o)
               \/ Connect(o) \/ Disconnect(o) \/ StreamStep(o)
      BY <3>1 DEF Emit, Ask, SendReply, Reply, Chat, Connect, Disconnect, StreamStep,
                  ReadEvent, StreamIdle, who
    <3>2. CASE CreateSession(o) \/ Acquire(o) \/ PutPrompt(o) \/ TakeReply(o)
               \/ DoubtTimesOut(o) \/ NoteNoDoubt(o) \/ PutDone(o)
               \/ CancelWaiting(o) \/ CancelRunning(o)
      BY <3>2 DEF CreateSession, Acquire, PutPrompt, TakeReply, DoubtTimesOut, NoteNoDoubt,
                  PutDone, CancelWaiting, CancelRunning, AskReturns, who
    <3> QED BY <1>3, <2>4, <3>1, <3>2 DEF TaskStep
  <2> QED BY <1>3, <2>1, <2>3, <2>4 DEF StepOf
<1>4. CASE SaveSessions
  <2>1. task[s] = "acquiring" \/ InBody(s)
    BY <1>4 DEF SaveSessions, TableOK
  <2>2. s \in sessions
    BY <2>1 DEF TableOK, InBody
  <2> QED BY <1>4, <2>1, <2>2 DEF SaveSessions, InBody
<1>5. CASE Cleanup \/ Shutdown \/ UNCHANGED vars
  BY <1>5 DEF Cleanup, Shutdown, vars, who
<1> QED BY <1>1, <1>2, <1>3, <1>4, <1>5, StepsByKind

LEMMA LatestInductive ==
    ASSUME ApartInv, [Next]_vars
    PROVE  \A s \in Session : LatestOK(s)'
<1> TypeInv /\ \A s \in Session : LockOK(s) /\ TableOK(s) /\ LatestOK(s)
  BY DEF ApartInv, BaseInv
<1> DEFINE Alone(s) == \A o \in Session \ {s} : student[o] = student[s] => ~Before(o) /\ ~InBody(o)
           Loads(s) == \/ task[s] = "loaded"
                       \/ (task[s] = "acquiring" \/ InBody(s)) /\ ~cancelled[s]
<1>1. student' = student
  <2>1. \A s \in Session : StepOf(s) => student' = student
    BY StepsAreOnes
  <2> QED BY <2>1, StepsByKind DEF Cleanup, Shutdown, SaveSessions, vars, who
<1> SUFFICES ASSUME NEW s \in Session, AllLocked(student[s])', s \notin raced'
             PROVE  (Before(s)' => Alone(s)') /\ (Loads(s)' => loaded'[s] = stored'[student[s]])
  BY <1>1 DEF LatestOK
<1>2. AllLocked(student[s]) /\ student[s] \in Student
  BY <1>1, LocksStay DEF TypeInv, AllLocked
<1>3. ASSUME NEW o \in Session, o # s, StepOf(o), s \notin raced
      PROVE  (Before(s)' => Alone(s)') /\ (Loads(s)' => loaded'[s] = stored'[student[s]])
  <2>1. Stands(s) /\ \A x \in Session : x # o => Stands(x)
    BY <1>3, StepsAreOnes
  <2>2. ASSUME Before(s)'
        PROVE  Alone(s)'
    <3>1. Before(s) /\ Alone(s)
      BY <1>2, <1>3, <2>1, <2>2 DEF LatestOK, Stands, Before
    <3>2. student[o] = student[s] => ~Before(o)' /\ ~InBody(o)'
      <4> SUFFICES ASSUME student[o] = student[s], Before(o)' \/ InBody(o)'
                   PROVE  FALSE
        OBVIOUS
      <4>1. ~Before(o) /\ ~InBody(o)
        BY <1>3, <3>1
      <4>2. CASE BeginStart(o)
        <5>1. s \in Starting(student[o])
          BY <3>1 DEF Starting, Before
        <5>2. s \in raced'
          BY <4>2, <5>1 DEF BeginStart
        <5> QED BY <5>2
      <4>3. CASE StartNew(o)
        BY <3>1, <4>3 DEF StartNew, LockOK, Started, Before
      <4>4. CASE LoadState(o) \/ CreateSession(o) \/ Acquire(o)
        BY <4>1, <4>4 DEF LoadState, CreateSession, Acquire, Before
      <4>5. CASE Calm(o) \/ Leaves(o) \/ Closes(o)
        BY <4>1, <4>5 DEF Calm, Leaves, Closes, Before, InBody
      <4>6. CASE BeginEnd(o) \/ EndSession(o)
        BY <4>1, <4>6 DEF BeginEnd, EndSession, Before, InBody
      <4> QED BY <1>3, <4>2, <4>3, <4>4, <4>5, <4>6, KindOfStep
    <3> QED BY <1>1, <2>1, <3>1, <3>2 DEF Stands, Before, InBody
  <2>3. ASSUME Loads(s)'
        PROVE  loaded'[s] = stored'[student[s]]
    <3>1. Loads(s)
      BY <2>1, <2>3 DEF Stands, InBody
    <3>2. loaded[s] = stored[student[s]]
      BY <1>2, <1>3, <3>1 DEF LatestOK
    <3>3. ~Finish(s) /\ ~LoadState(s)
      <4>1. Finish(s) \/ LoadState(s) => StepOf(s) /\ task'[s] # task[s]
        BY DEF StepOf, TaskStep, Finish, Finally, LoadState, Goto, Set, TypeInv
      <4> QED BY <2>1, <4>1 DEF Stands
    <3> QED BY <1>2, <1>3, <3>1, <3>2, <3>3, LatestStays
  <2> QED BY <2>2, <2>3
<1>4. ASSUME StepOf(s)
      PROVE  (Before(s)' => Alone(s)') /\ (Loads(s)' => loaded'[s] = stored'[student[s]])
  <2>1. \A x \in Session : x # s => Stands(x)
    BY <1>4, StepsAreOnes
  <2>2. Alone(s) => Alone(s)'
    BY <1>1, <2>1 DEF Stands, Before, InBody
  <2>3. CASE BeginStart(s)
    <3>1. /\ task'[s] = "loading" /\ holder[student[s]] = Nobody /\ Starting(student[s]) = {}
      BY <2>3 DEF BeginStart, Goto, Set, Passes, TypeInv
    <3>2. Alone(s)
      BY <1>2, <3>1, Bounds DEF Starting, Before, LockOK, AllLocked, Started, InBody
    <3> QED BY <2>2, <3>1, <3>2 DEF Before, InBody
  <2>4. CASE LoadState(s)
    <3>1. task[s] = "loading" /\ raced' = raced /\ loaded'[s] = stored[student[s]] /\ stored' = stored
      BY <2>4 DEF LoadState, Set, TypeInv
    <3>2. Alone(s)
      BY <1>2, <3>1 DEF LatestOK, Before
    <3> QED BY <2>2, <3>1, <3>2
  <2>5. CASE StartNew(s)
    BY <2>5 DEF StartNew, AllLocked, Started, Goto, Set, LockOK, TypeInv
  <2>6. CASE CreateSession(s) \/ Acquire(s)
    <3>1. /\ raced' = raced /\ loaded' = loaded /\ stored' = stored
          /\ Before(s) /\ Loads(s)
      BY <2>6 DEF CreateSession, Acquire, who, Before
    <3>2. Alone(s) /\ loaded[s] = stored[student[s]]
      BY <1>2, <3>1 DEF LatestOK
    <3> QED BY <2>2, <3>1, <3>2
  <2>7. CASE Calm(s)
    <3>1. /\ raced' = raced /\ loaded' = loaded /\ stored' = stored
          /\ (Before(s)' => Before(s)) /\ (Loads(s)' => Loads(s))
      BY <2>7 DEF Calm, Before, InBody
    <3> QED BY <1>2, <2>2, <3>1 DEF LatestOK
  <2>8. CASE Leaves(s) \/ Closes(s)
    BY <2>8 DEF Leaves, Closes, Finally, Goto, Set, Before, InBody, TypeInv
  <2>9. CASE BeginEnd(s) \/ EndSession(s)
    <3>1. /\ raced' = raced /\ loaded' = loaded /\ stored' = stored
          /\ (Before(s)' => Before(s)) /\ (Loads(s)' => Loads(s))
      BY <2>9 DEF BeginEnd, EndSession, who, Before, InBody, Set, TypeInv
    <3> QED BY <1>2, <2>2, <3>1 DEF LatestOK
  <2> QED BY <1>4, <2>3, <2>4, <2>5, <2>6, <2>7, <2>8, <2>9, KindOfStep
<1>5. ASSUME Cleanup \/ Shutdown \/ SaveSessions \/ UNCHANGED vars
      PROVE  (Before(s)' => Alone(s)') /\ (Loads(s)' => loaded'[s] = stored'[student[s]])
  <2>1. /\ UNCHANGED <<task, student, raced, loaded>>
        /\ cancelled[s] => cancelled'[s]
    BY <1>5 DEF Cleanup, Shutdown, SaveSessions, vars, who, TypeInv
  <2>2. (Before(s)' => Before(s)) /\ (Loads(s)' => Loads(s)) /\ (Alone(s) => Alone(s)')
    BY <2>1 DEF Before, InBody
  <2>3. ~Finish(s) /\ ~LoadState(s)
    <3>1. Finish(s) \/ LoadState(s) => task'[s] # task[s]
      BY DEF Finish, Finally, LoadState, Goto, Set, TypeInv
    <3> QED BY <2>1, <3>1
  <2> QED BY <1>2, <2>1, <2>2, <2>3, LatestStays DEF LatestOK
<1>6. s \in raced => FALSE
  <2>1. ASSUME NEW o \in Session, StepOf(o), s \in raced
        PROVE  s \in raced'
    <3>1. CASE BeginStart(o)
      BY <2>1, <3>1 DEF BeginStart
    <3>2. CASE ~BeginStart(o)
      BY <2>1, <3>2, KindOfStep DEF LoadState, CreateSession, StartNew, Acquire, Calm, Leaves,
             Closes, BeginEnd, EndSession, who
    <3> QED BY <3>1, <3>2
  <2> QED BY <2>1, StepsByKind DEF Cleanup, Shutdown, SaveSessions, vars, who
<1> QED BY <1>3, <1>4, <1>5, <1>6, StepsByKind

\* Sessions of one student that were started with a lock never run at the same
\* time, and none undoes what another has saved, however starts, ends, errors,
\* cancellations and the shutdown of the server interleave (_run_session).
THEOREM SessionsStayApart == Spec => []SessionsApart
<1>1. Init => ApartInv
  <2>1. Init => \A s \in Session : LockOK(s) /\ TableOK(s) /\ LatestOK(s)
    BY DEF Init, LockOK, TableOK, LatestOK, Before, InBody, Started
  <2> QED BY <2>1, InitBase DEF ApartInv
<1>2. ApartInv /\ [Next]_vars => ApartInv'
  <2> SUFFICES ASSUME ApartInv, [Next]_vars PROVE ApartInv'
    OBVIOUS
  <2>1. BaseInv /\ TypeInv /\ \A s \in Session : LockOK(s) /\ TableOK(s)
    BY DEF ApartInv, BaseInv
  <2> QED BY <2>1, BaseInductive, LockInductive, TableInductive, LatestInductive DEF ApartInv
<1>3. ApartInv => SessionsApart
  <2> SUFFICES ASSUME ApartInv PROVE OneWithLock /\ WorksOnLatest
    BY DEF SessionsApart
  <2>1. OneWithLock
    BY DEF ApartInv, LockOK, OneWithLock
  <2>2. WorksOnLatest
    BY DEF ApartInv, LatestOK, AllLocked, WorksOnLatest
  <2> QED BY <2>1, <2>2
<1> QED BY <1>1, <1>2, <1>3, PTL DEF Spec

-----------------------------------------------------------------------------
(* Each prompt gets its own reply. *)

LEMMA OneInQueue ==
    ASSUME NEW x
    PROVE  /\ Append(<<>>, x) = <<x>> /\ Head(<<x>>) = x /\ Tail(<<x>>) = <<>>
           /\ <<x>> # <<>>
OBVIOUS

\* Where a reply can be on its way.
Waits == {"awaiting", "closing", "done"}

\* What becomes of a session that neither asks nor is replied to.
Keeps(s) ==
    /\ prompt'[s] = prompt[s] /\ posted'[s] = posted[s] /\ mixed'[s] = mixed[s]
    /\ input_queue'[s] = input_queue[s]
    /\ task[s] \in Waits => task'[s] \in Waits

LEMMA KeptReply ==
    ASSUME NEW s \in Session, ReplyOK(s), Keeps(s)
    PROVE  ReplyOK(s)'
BY DEF Keeps, ReplyOK, Waits

LEMMA RestKeeps ==
    ASSUME TypeInv, NEW s \in Session, StepOf(s),
           ~Ask(s), ~TakeReply(s), ~DoubtTimesOut(s), ~NoteNoDoubt(s), ~SendReply(s), ~Reply(s)
    PROVE  Keeps(s)
<1> task \in [Session -> Place]
  BY DEF TypeInv
<1>1. CASE BeginStart(s) \/ StartNew(s)
  BY <1>1 DEF BeginStart, StartNew, Started, Keeps, Waits, ctx, client
<1>2. CASE LoadState(s) \/ CreateSession(s) \/ Acquire(s)
  BY <1>2 DEF LoadState, CreateSession, Acquire, Keeps, Waits, ctx, client
<1>3. CASE Emit(s) \/ Chat(s) \/ Connect(s) \/ Disconnect(s) \/ StreamStep(s)
  BY <1>3 DEF Emit, Chat, Connect, Disconnect, StreamStep, ReadEvent, StreamIdle, Keeps, ctx, client
<1>4. CASE PutPrompt(s)
  BY <1>4 DEF PutPrompt, Keeps, Waits, ctx, client
<1>5. CASE Finish(s) \/ Raise(s) \/ CancelRunning(s)
  BY <1>5 DEF Finish, Raise, CancelRunning, Finally, Goto, Set, Keeps, Waits, client
<1>6. CASE PutDone(s) \/ CancelWaiting(s)
  BY <1>6 DEF PutDone, CancelWaiting, Goto, Set, Keeps, Waits, ctx, client
<1>7. CASE BeginEnd(s) \/ EndSession(s)
  BY <1>7 DEF BeginEnd, EndSession, Keeps, ctx, client
<1> QED BY <1>1, <1>2, <1>3, <1>4, <1>5, <1>6, <1>7 DEF StepOf, TaskStep

LEMMA AskReply ==
    ASSUME Punctual, TypeInv, NEW s \in Session, ReplyOK(s),
           \/ Ask(s) \/ TakeReply(s) \/ DoubtTimesOut(s) \/ NoteNoDoubt(s)
    PROVE  ReplyOK(s)'
<1> TypeInv /\ task \in [Session -> Place] /\ mixed \in [Session -> InputType \union {"no"}]
    /\ input_queue \in [Session -> Seq(Asked)]
  BY DEF TypeInv
<1>0. ASSUME NEW reply \in {prompt[s], NoPrompt}, AskReturns(s, reply), posted[s] = NoPrompt,
             input_queue'[s] = <<>>
      PROVE  ReplyOK(s)'
  <2>1. mixed' = mixed /\ prompt' = prompt /\ posted' = posted
    BY <1>0 DEF AskReturns, client
  <2> QED BY <1>0, <2>1 DEF ReplyOK
<1>1. CASE Ask(s)
  <2>1. posted[s] = NoPrompt /\ input_queue[s] = <<>>
    BY <1>1 DEF Ask, ReplyOK
  <2>2. UNCHANGED <<posted, input_queue, mixed>>
    BY <1>1 DEF Ask, client
  <2> QED BY <2>1, <2>2 DEF ReplyOK
<1>2. CASE TakeReply(s)
  <2>1. /\ input_queue[s] # <<>> /\ AskReturns(s, Head(input_queue[s]))
        /\ input_queue'[s] = Tail(input_queue[s])
    BY <1>2 DEF TakeReply, Set
  <2>2. input_queue[s] = <<prompt[s]>> /\ posted[s] = NoPrompt
    BY <2>1 DEF ReplyOK
  <2>3. input_queue'[s] = <<>> /\ AskReturns(s, prompt[s])
    BY <2>1, <2>2, OneInQueue
  <2> QED BY <1>0, <2>2, <2>3
<1>3. CASE DoubtTimesOut(s)
  <2>1. posted[s] = NoPrompt /\ input_queue[s] = <<>>
    BY <1>3 DEF DoubtTimesOut
  <2>2. CASE HasRoom(s)
    <3>1. AskReturns(s, NoPrompt) /\ input_queue' = input_queue
      BY <1>3, <2>2 DEF DoubtTimesOut
    <3> QED BY <1>0, <2>1, <3>1
  <2>3. CASE ~HasRoom(s)
    <3>1. UNCHANGED <<posted, input_queue, mixed, prompt>>
      BY <1>3, <2>3 DEF DoubtTimesOut, client, ctx
    <3> QED BY <2>1, <3>1 DEF ReplyOK
  <2> QED BY <2>2, <2>3
<1>4. CASE NoteNoDoubt(s)
  <2>1. posted[s] = NoPrompt /\ input_queue[s] = <<>>
    BY <1>4 DEF NoteNoDoubt, ReplyOK
  <2>2. AskReturns(s, NoPrompt) /\ input_queue' = input_queue
    BY <1>4 DEF NoteNoDoubt
  <2> QED BY <1>0, <2>1, <2>2
<1> QED BY <1>1, <1>2, <1>3, <1>4

LEMMA SentReply ==
    ASSUME Punctual, TypeInv, NEW s \in Session, ReplyOK(s), SendReply(s) \/ Reply(s)
    PROVE  ReplyOK(s)'
<1> posted \in [Session -> Asked] /\ input_queue \in [Session -> Seq(Asked)]
  BY DEF TypeInv
<1>1. CASE SendReply(s)
  <2>1. /\ task[s] = "awaiting" /\ input_queue[s] = <<>> /\ posted'[s] = prompt[s]
        /\ UNCHANGED <<task, prompt, mixed, input_queue>>
    BY <1>1 DEF SendReply, Set, ctx
  <2> QED BY <2>1 DEF ReplyOK
<1>2. CASE Reply(s)
  <2>1. /\ posted[s] # NoPrompt /\ posted'[s] = NoPrompt
        /\ input_queue'[s] \in {input_queue[s], Append(input_queue[s], posted[s])}
        /\ UNCHANGED <<task, prompt, mixed>>
    BY <1>2 DEF Reply, Set, ctx
  <2>2. input_queue[s] = <<>> /\ posted[s] = prompt[s] /\ task[s] \in Waits
    BY <2>1 DEF ReplyOK, Waits
  <2>3. input_queue'[s] \in {<<>>, <<prompt[s]>>}
    BY <2>1, <2>2, OneInQueue
  <2> QED BY <2>1, <2>2, <2>3 DEF ReplyOK, Waits
<1> QED BY <1>1, <1>2

LEMMA ReplyInductive ==
    ASSUME Punctual, ReplyInv, [Next]_vars
    PROVE  ReplyInv'
<1> BaseInv /\ TypeInv /\ \A s \in Session : ReplyOK(s)
  BY DEF ReplyInv, BaseInv
<1>1. ASSUME NEW s \in Session, StepOf(s), NEW o \in Session
      PROVE  ReplyOK(o)'
  <2>1. CASE o # s
    <3>1. Keeps(o)
      BY <1>1, <2>1, StepsAreOnes DEF Stands, Keeps
    <3> QED BY <3>1, KeptReply
  <2>2. ReplyOK(s)'
    BY <1>1, RestKeeps, KeptReply, AskReply, SentReply
  <2> QED BY <2>1, <2>2
<1>2. ASSUME Cleanup \/ Shutdown \/ SaveSessions \/ UNCHANGED vars, NEW o \in Session
      PROVE  ReplyOK(o)'
  <2>1. UNCHANGED <<task, prompt, posted, mixed, input_queue>>
    BY <1>2 DEF Cleanup, Shutdown, SaveSessions, vars, ctx, client
  <2>2. Keeps(o)
    BY <2>1 DEF Keeps
  <2> QED BY <2>2, KeptReply
<1>3. BaseInv'
  BY BaseInductive
<1> QED BY <1>1, <1>2, <1>3, StepsByKind DEF ReplyInv

\* Each prompt gets the reply that was meant for it, or none, for a student who
\* replies once to each prompt and in time: no reply is left in the queue for the
\* next prompt (ask), whatever the client, the agents and the server do meanwhile.
THEOREM OwnReplies == Punctual => (Spec => []OwnReply)
<1> SUFFICES ASSUME Punctual PROVE Spec => []OwnReply
  OBVIOUS
<1>1. Init => ReplyInv
  <2>1. Init => \A s \in Session : ReplyOK(s)
    BY DEF Init, ReplyOK
  <2> QED BY <2>1, InitBase DEF ReplyInv
<1>2. ReplyInv /\ [Next]_vars => ReplyInv'
  BY ReplyInductive
<1>3. ReplyInv => OwnReply
  BY DEF ReplyInv, ReplyOK, OwnReply
<1> QED BY <1>1, <1>2, <1>3, PTL DEF Spec
=============================================================================
