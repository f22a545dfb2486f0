\* Two concepts, lists of up to three modules; one concept may be known.
CONSTANTS
    Paces = {"fast", "deep"}
    a = a
    b = b
    Concept = {a, b}
    Blank = Blank
    None = None
    Needs <- BNeedsA
    Excluded = {b}
    Studied = {a}
    Coverages <- TwoCoverages
    StepIds = {0, 2}
    MaxModules = 3
SPECIFICATION Spec
INVARIANTS
    PlanInOrder
    DroppedOnEvidence
CHECK_DEADLOCK FALSE
