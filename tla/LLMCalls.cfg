\* Two calls of any kind on a pool of one thread: one retry, two iterations, two
\* tool calls per message, streams one chunk longer than their queue.
CONSTANTS
    Call = {c1, c2}
    Threads = 1
    MaxRetries = 1
    MaxIterations = 2
    QueueSize = 2
    MaxChunks = 3
    MaxToolCalls = 2
SPECIFICATION FairSpec
INVARIANTS
    EveryCallAnswered
    StreamFaithful
PROPERTIES
    CallsEnd
CHECK_DEADLOCK FALSE
