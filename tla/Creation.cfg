\* One request at a time, or two at once; one statement that fails or one
\* restart.  Deadlock: the server stops when the bounds are used up.
CONSTANTS
    K = 2
    Job = {j1}
    Handler = {h1, h2}
    Limits = {1, 2}
    MaxRequests = 3
    MaxFaults = 1
SPECIFICATION Spec
INVARIANTS
    DoneIsWhole
    CreationsInOrder
PROPERTIES
    JobsLeave
CHECK_DEADLOCK FALSE
