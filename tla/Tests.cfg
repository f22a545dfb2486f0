\* A request of the teacher and one of a student at a time, in every
\* interleaving, with a fault; a student who submits some day.
CONSTANTS
    Teacher = Teacher
    Student = {s1}
    Slot = {c1}
    K = 1
    MaxTime = 1
    MaxDrawn = 2
    MaxWritten = 2
    MaxAnalyses = 1
    MaxFaults = 1
SPECIFICATION DiligentSpec
INVARIANTS
    PaperWhole
    GradesAccounted
PROPERTIES
    PaperKept
    GradeIsFinal
    ApprovedFirst
    AttemptsGraded
CHECK_DEADLOCK FALSE
