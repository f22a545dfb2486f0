\* Two sessions over a plan of two modules; one thing may fail.
CONSTANTS
    a = a
    b = b
    c = c
    Concept = {a, b, c}
    Unknown = Unknown
    Plan <- PlanOf2
    Remedy <- RemedyOf1
    ModulesPerSession = 2
    MaxSessions = 3
    MaxRounds = 4
    Missing = {b, c}
    DetourName <- NamesOf3
    RevisitName <- NamesOf3
    Doubted = {a}
    MaxDoubts = 2
    MaxPlans = 2
    MaxFaults = 1
SPECIFICATION Spec
INVARIANTS
    QuestionsFit
    FindingsOnRecord
    NothingSkipped
    EscalatedInTime
CHECK_DEADLOCK FALSE
