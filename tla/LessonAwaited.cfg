\* Three requests at once, none beside the generation of the lesson; one handler
\* may die anywhere.
CONSTANTS
    Q = 4
    Lengths = {2, 4}
    Request = {r1, r2, r3}
    WaitsForLesson = TRUE
    Limits = {1, 3}
    MaxRequests = 5
    MaxFaults = 1
    MaxSessions = 1
SPECIFICATION Spec
SYMMETRY RequestSymmetry
INVARIANTS
    SavedQuestions
    ChatOnRecord
PROPERTIES
    LessonIsKept
CHECK_DEADLOCK FALSE
