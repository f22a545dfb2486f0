\* Two sessions of one student, who may be new, four requests together; a queue
\* of one event is full after each put.
CONSTANTS
    Student = {st1}
    Session = {s1, s2}
    Nobody = nobody
    QueueSize = 1
    MaxPrompts = 2
    MaxRequests = 4
    Punctual = TRUE
SPECIFICATION FairSpec
INVARIANTS
    SessionsApart
    OwnReply
PROPERTIES
    EndFreesStudent
    EndedStops
CHECK_DEADLOCK FALSE
