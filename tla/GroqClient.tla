------------------------------ MODULE GroqClient ------------------------------
(***************************************************************************)
(* Calls of the LLM (clients/groq_client.py) and the tool loop that every  *)
(* agent runs on (agents/base_agent.py).                                   *)
(*                                                                         *)
(* The SDK blocks, so each request occupies a thread of the pool that all  *)
(* calls of the process share; the coroutine awaits it.  A stream occupies *)
(* its thread until the last chunk is in a bounded queue, from which an    *)
(* async generator hands the chunks to its caller.  Time is left out: a    *)
(* wait that has a limit may end by it, a backoff is a place to wake from. *)
(***************************************************************************)
EXTENDS Naturals, Sequences, FiniteSets

CONSTANTS
    Call,           \* LLM calls of the process
    Threads,        \* size of the default executor
    MaxRetries,     \* settings.groq_max_retries
    MaxIterations,  \* the safety cap of tool_call_loop
    QueueSize,      \* maxsize of chunk_queue
    MaxChunks,      \* bound: chunks of one answer
    MaxToolCalls    \* bound: tool calls in one message of the LLM

ASSUME PoolAssumption == {Threads, MaxIterations, QueueSize} \subseteq Nat \ {0}
ASSUME BoundAssumption == {MaxRetries, MaxChunks, MaxToolCalls} \subseteq Nat

TotalAttempts == MaxRetries + 1

Kind    == {"generate", "tools", "stream"}
Failure == {"timeout", "rate_limit", "error"}
None    == 0        \* the sentinel of chunk_queue; chunks are numbered from 1

-----------------------------------------------------------------------------
VARIABLES
    kind,       \* which of the three entry points the call goes through
    pc,         \* where the coroutine stands
    thread,     \* its function in the pool
    attempt, iteration,
    messages,   \* tool loop: roles appended, with the number of tool calls
    todo,       \* tool calls of the last message still to be handled
    chunk_queue, produced, sentinels, failure, yielded,
    left,       \* streams whose caller went away
    result

loop   == <<attempt, iteration, messages, todo>>
bridge == <<chunk_queue, produced, sentinels, failure, yielded, left>>
vars   == <<kind, pc, thread, loop, bridge, result>>

Busy == {c \in Call : thread[c] \in {"running", "closing"}}

Init ==
    /\ kind \in [Call -> Kind]
    /\ pc = [c \in Call |-> "idle"]
    /\ thread = [c \in Call |-> "none"]
    /\ attempt = [c \in Call |-> 1]
    /\ iteration = [c \in Call |-> 1]
    /\ messages = [c \in Call |-> <<>>]
    /\ todo = [c \in Call |-> <<>>]
    /\ chunk_queue = [c \in Call |-> <<>>]
    /\ produced = [c \in Call |-> 0]
    /\ sentinels = [c \in Call |-> 0]
    /\ failure = [c \in Call |-> "none"]
    /\ yielded = [c \in Call |-> <<>>]
    /\ left = [c \in Call |-> FALSE]
    /\ result = [c \in Call |-> "none"]

-----------------------------------------------------------------------------
Set(f, c, v) == [f EXCEPT ![c] = v]

Goto(c, to) == pc' = Set(pc, c, to)

Return(c, r) == Goto(c, "done") /\ result' = Set(result, c, r)

\* generate, tool_call_loop or stream is called; asyncio.to_thread queues the
\* blocking function.
Start(c) ==
    /\ pc[c] = "idle"
    /\ Goto(c, IF kind[c] = "stream" THEN "reading" ELSE "asking")
    /\ thread' = Set(thread, c, "queued")
    /\ UNCHANGED <<kind, loop, bridge, result>>

RunInThread(c) ==
    /\ thread[c] = "queued"
    /\ Cardinality(Busy) < Threads
    /\ thread' = Set(thread, c, "running")
    /\ UNCHANGED <<kind, pc, loop, bridge, result>>

(* generate and tool_call_loop *)

\* The request of call c comes back and leaves its thread.
Returned(c) ==
    /\ pc[c] = "asking" /\ thread[c] = "running"
    /\ thread' = Set(thread, c, "none")
    /\ UNCHANGED <<kind, bridge>>

\* Mistake: a loop that counts retries where it should count attempts.
LastAttemptEarly(n) == n >= MaxRetries

LastAttempt(n) == n = TotalAttempts

RateLimited(c) ==
    /\ Returned(c)
    /\ IF LastAttempt(attempt[c])
       THEN Return(c, "rate_limit")
       ELSE Goto(c, "backoff") /\ UNCHANGED result
    /\ UNCHANGED loop

\* Mistake: a retry is not counted.
WakeUpUncounted(c) ==
    /\ pc[c] = "backoff"
    /\ Goto(c, "asking")
    /\ thread' = Set(thread, c, "queued")
    /\ UNCHANGED <<kind, loop, bridge, result>>

WakeUp(c) ==
    /\ pc[c] = "backoff"
    /\ Goto(c, "asking")
    /\ attempt' = Set(attempt, c, attempt[c] + 1)
    /\ thread' = Set(thread, c, "queued")
    /\ UNCHANGED <<kind, iteration, messages, todo, bridge, result>>

\* A timeout is not retried; neither is any other error, unless it carries a
\* rejected tool call (see Recovered).
RequestFails(c) ==
    /\ Returned(c)
    /\ \E f \in {"timeout", "error"} : Return(c, f)
    /\ UNCHANGED loop

GenerateReturns(c) ==
    /\ kind[c] = "generate"
    /\ Returned(c)
    /\ Return(c, "text")
    /\ UNCHANGED loop

\* The next request of the loop, or none after the last iteration.
NextIteration(c, said) ==
    /\ messages' = Set(messages, c, messages[c] \o said)
    /\ IF iteration[c] = MaxIterations
       THEN Return(c, "empty") /\ UNCHANGED <<attempt, iteration, thread>>
       ELSE /\ Goto(c, "asking")
            /\ iteration' = Set(iteration, c, iteration[c] + 1)
            /\ attempt' = Set(attempt, c, 1)
            /\ thread' = Set(thread, c, "queued")
            /\ UNCHANGED result

Says(role, n) == [role |-> role, calls |-> n]

TextReturned(c) ==
    /\ kind[c] = "tools"
    /\ Returned(c)
    /\ \E r \in {"text", "terminal"} : Return(c, r)
    /\ UNCHANGED loop

\* The LLM wrote one tool call as text, or Groq rejected it: it is parsed out
\* of the text and executed, its result is fed back as the user's words.
Recovered(c) ==
    /\ kind[c] = "tools"
    /\ Returned(c)
    /\ Goto(c, "recovering")
    /\ UNCHANGED <<loop, result>>

RunRecovered(c) ==
    /\ pc[c] = "recovering"
    /\ \E said \in {<<Says("user", 0)>>, <<Says("assistant", 0), Says("user", 0)>>} :
            NextIteration(c, said)
    /\ UNCHANGED <<kind, todo, bridge>>

ToolsCalled(c) ==
    /\ kind[c] = "tools"
    /\ Returned(c)
    /\ \E n \in 1..MaxToolCalls : \E calls \in [1..n -> {"tool", "terminal"}] :
        /\ todo' = Set(todo, c, calls)
        /\ messages' = Set(messages, c, Append(messages[c], Says("assistant", n)))
    /\ Goto(c, "executing")
    /\ UNCHANGED <<attempt, iteration, result>>

\* The terminal tool ends the loop before it is executed, whatever comes after it.
TerminalCalled(c) ==
    /\ pc[c] = "executing" /\ Head(todo[c]) = "terminal"
    /\ messages' = Set(messages, c, Append(messages[c], Says("tool", 0)))
    /\ todo' = Set(todo, c, <<>>)
    /\ Return(c, "terminal")
    /\ UNCHANGED <<kind, thread, attempt, iteration, bridge>>

\* Mistake: what a tool that raised says is not appended.
ToolSaysIfFine(fine) == IF fine THEN <<Says("tool", 0)>> ELSE <<>>

\* The result of a tool, or ERROR and the exception it raised.
ToolSays(fine) == <<Says("tool", 0)>>

ToolExecuted(c) ==
    /\ pc[c] = "executing" /\ Head(todo[c]) = "tool"
    /\ \E fine \in BOOLEAN :
        IF Len(todo[c]) = 1
        THEN NextIteration(c, ToolSays(fine))
        ELSE /\ messages' = Set(messages, c, messages[c] \o ToolSays(fine))
             /\ UNCHANGED <<pc, result, attempt, iteration, thread>>
    /\ todo' = Set(todo, c, Tail(todo[c]))
    /\ UNCHANGED <<kind, bridge>>

(* stream: the thread *)

HasRoom(c) == Len(chunk_queue[c]) < QueueSize

Put(c, item) == HasRoom(c) /\ chunk_queue' = Set(chunk_queue, c, Append(chunk_queue[c], item))

\* Mistake: the queue is bridged without waiting for room, a full one drops.
PutChunkWithoutWaiting(c) ==
    /\ kind[c] = "stream" /\ thread[c] = "running"
    /\ produced[c] < MaxChunks
    /\ IF HasRoom(c) THEN Put(c, produced[c] + 1) ELSE UNCHANGED chunk_queue
    /\ produced' = Set(produced, c, produced[c] + 1)
    /\ UNCHANGED <<kind, pc, thread, loop, sentinels, failure, yielded, left, result>>

PutChunk(c) ==
    /\ kind[c] = "stream" /\ thread[c] = "running"
    /\ produced[c] < MaxChunks
    /\ Put(c, produced[c] + 1)
    /\ produced' = Set(produced, c, produced[c] + 1)
    /\ UNCHANGED <<kind, pc, thread, loop, sentinels, failure, yielded, left, result>>

\* Mistake: every failure puts two sentinels and the finally clause a third.
SentinelsPerFailure(f) == IF f = "none" THEN 1 ELSE 3

\* A timeout and a rate limit put a sentinel of their own before the one of
\* the finally clause.
Sentinels(f) == IF f \in {"timeout", "rate_limit"} THEN 2 ELSE 1

AnswerEnds(c) ==
    /\ kind[c] = "stream" /\ thread[c] = "running"
    /\ thread' = Set(thread, c, "closing")
    /\ \E f \in Failure \cup {"none"} :
        /\ failure' = Set(failure, c, f)
        /\ sentinels' = Set(sentinels, c, Sentinels(f))
    /\ UNCHANGED <<kind, pc, loop, chunk_queue, produced, yielded, left, result>>

PutSentinel(c) ==
    /\ thread[c] = "closing"
    /\ Put(c, None)
    /\ sentinels' = Set(sentinels, c, sentinels[c] - 1)
    /\ thread' = IF sentinels[c] = 1 THEN Set(thread, c, "ended") ELSE thread
    /\ UNCHANGED <<kind, pc, loop, produced, failure, yielded, left, result>>

(* stream: the generator and its caller *)

Get(c) ==
    /\ pc[c] = "reading"
    /\ chunk_queue[c] # <<>>
    /\ chunk_queue' = Set(chunk_queue, c, Tail(chunk_queue[c]))
    /\ UNCHANGED <<kind, thread, loop, produced, sentinels, failure, left, result>>

YieldChunk(c) ==
    /\ Get(c)
    /\ Head(chunk_queue[c]) # None
    /\ yielded' = Set(yielded, c, Append(yielded[c], Head(chunk_queue[c])))
    /\ Goto(c, "yielded")

GetSentinel(c) ==
    /\ Get(c)
    /\ Head(chunk_queue[c]) = None
    /\ Goto(c, "joining")
    /\ UNCHANGED yielded

CallerAsks(c) ==
    /\ pc[c] = "yielded"
    /\ Goto(c, "reading")
    /\ UNCHANGED <<kind, thread, loop, bridge, result>>

\* The caller closes the generator or is cancelled: the finally clause awaits
\* the thread.
CallerLeaves(c) ==
    /\ pc[c] \in {"reading", "yielded"}
    /\ Goto(c, "joining")
    /\ left' = Set(left, c, TRUE)
    /\ UNCHANGED <<kind, thread, loop, chunk_queue, produced, sentinels, failure, yielded, result>>

\* No chunk within the limit: the task is cancelled, a function that runs goes
\* on in its thread.
WaitTooLong(c) ==
    /\ pc[c] = "reading" /\ chunk_queue[c] = <<>>
    /\ Return(c, "timeout")
    /\ thread' = IF thread[c] = "queued" THEN Set(thread, c, "none") ELSE thread
    /\ UNCHANGED <<kind, loop, bridge>>

\* Mistake: any failure of the thread is caught like a timeout.
HeardNothing(f) == FALSE

\* Awaiting the task raises what the function raised, and timeouts and rate
\* limits are caught.
Heard(f) == f = "error"

Join(c) ==
    /\ pc[c] = "joining" /\ thread[c] = "ended"
    /\ Return(c, IF Heard(failure[c]) THEN "error"
                 ELSE IF left[c] THEN "left" ELSE "complete")
    /\ UNCHANGED <<kind, thread, loop, bridge>>

-----------------------------------------------------------------------------
Request(c) ==
    \/ RateLimited(c) \/ WakeUp(c) \/ RequestFails(c) \/ GenerateReturns(c)
    \/ TextReturned(c) \/ Recovered(c) \/ RunRecovered(c)
    \/ ToolsCalled(c) \/ TerminalCalled(c) \/ ToolExecuted(c)

Stream(c) ==
    \/ PutChunk(c) \/ AnswerEnds(c) \/ PutSentinel(c)
    \/ YieldChunk(c) \/ GetSentinel(c) \/ CallerAsks(c) \/ Join(c)

Next == \E c \in Call :
    \/ Start(c) \/ RunInThread(c) \/ Request(c) \/ Stream(c)
    \/ CallerLeaves(c) \/ WaitTooLong(c)

Spec == Init /\ [][Next]_vars

\* Threads run, awaits end and callers that stay ask for the next chunk; that a
\* caller leaves or waits too long is never required.
Fairness == \A c \in Call :
    SF_vars(RunInThread(c)) /\ WF_vars(Request(c)) /\ WF_vars(Stream(c))

FairSpec == Spec /\ Fairness

-----------------------------------------------------------------------------
Place == {"idle", "asking", "backoff", "recovering", "executing",
          "reading", "yielded", "joining", "done"}

TypeOK ==
    /\ kind \in [Call -> Kind]
    /\ pc \in [Call -> Place]
    /\ thread \in [Call -> {"none", "queued", "running", "closing", "ended"}]
    /\ attempt \in [Call -> 1..TotalAttempts]
    /\ iteration \in [Call -> 1..MaxIterations]
    /\ messages \in [Call -> Seq([role : {"user", "assistant", "tool"}, calls : 0..MaxToolCalls])]
    /\ todo \in [Call -> Seq({"tool", "terminal"})]
    /\ chunk_queue \in [Call -> Seq(0..MaxChunks)]
    /\ produced \in [Call -> 0..MaxChunks]
    /\ sentinels \in [Call -> 0..2]
    /\ failure \in [Call -> Failure \cup {"none"}]
    /\ yielded \in [Call -> Seq(1..MaxChunks)]
    /\ left \in [Call -> BOOLEAN]
    /\ result \in [Call -> Failure \cup {"none", "text", "terminal", "empty", "complete", "left"}]
    /\ \A c \in Call : Len(chunk_queue[c]) <= QueueSize
    /\ Cardinality(Busy) <= Threads

\* Whenever the LLM is asked again, each of its messages with tool calls is
\* followed by exactly as many tool results: whatever a tool did or raised, the
\* conversation is one the API accepts (tool_call_loop).
EveryCallAnswered == \A c \in Call : pc[c] = "asking" =>
    \A i \in DOMAIN messages[c] : messages[c][i].role = "assistant" =>
        LET n == messages[c][i].calls
            after == SubSeq(messages[c], i + 1, Len(messages[c]))
        IN  /\ Len(after) >= n
            /\ \A k \in 1..n : after[k].role = "tool"
            /\ Len(after) > n => after[n + 1].role # "tool"

\* A call gives up on a rate limit only after its last attempt (_with_retry).
ExhaustedFirst == \A c \in Call :
    result[c] = "rate_limit" => attempt[c] = TotalAttempts

\* What the caller has got, followed by what waits in the queue, is what the
\* thread has received, in that order, nothing twice, nothing after a sentinel
\* (the bridge of stream()).
ChunksInOrder == \A c \in Call :
    LET put == yielded[c] \o chunk_queue[c] IN
    \E k \in 0..2 :
        /\ Len(put) <= produced[c] + k
        /\ \A i \in DOMAIN put : put[i] = IF i <= produced[c] THEN i ELSE None

\* A stream that ends as complete has delivered all that was received, and an
\* error of the network is never taken for the end of the answer (stream()).
CompleteIsWhole == \A c \in Call : result[c] = "complete" =>
    /\ Len(yielded[c]) = produced[c]
    /\ failure[c] # "error"

\* What a stream hands out is what was received, whole if it says so.
StreamFaithful == ChunksInOrder /\ CompleteIsWhole

\* A stream that Groq cut by a timeout ends in a timeout for its caller.
TimeoutRaised == \A c \in Call :
    pc[c] = "done" /\ failure[c] = "timeout" /\ ~left[c] => result[c] = "timeout"

\* A stream nobody reads any more, its function still in its thread.
Abandoned(c) ==
    /\ kind[c] = "stream"
    /\ left[c] \/ (pc[c] = "done" /\ thread[c] # "ended")

\* As long as no stream is abandoned, every call ends: retries are bounded, the
\* tool loop is, and no thread of the pool is held for ever (_with_retry,
\* tool_call_loop, stream).  An abandoned stream holds its thread when the rest
\* of the answer does not fit into the queue.
CallsEnd ==
    (\A c \in Call : []~Abandoned(c)) =>
        \A c \in Call : (pc[c] # "idle") ~> (pc[c] = "done")
=============================================================================
