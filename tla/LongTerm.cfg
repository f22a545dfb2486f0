\* A chat, then the end of a tutoring session.
CONSTANTS
    Q = 2
    Lengths = {2}
    Request = {r1}
    WaitsForLesson = TRUE
    Limits = {1}
    MaxRequests = 3
    MaxFaults = 0
    MaxSessions = 1
SPECIFICATION Spec
PROPERTIES
    LongTermDoubts
CHECK_DEADLOCK FALSE
