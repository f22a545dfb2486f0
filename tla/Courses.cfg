\* Requests one at a time, or three handlers at once; handlers that die, and
\* a deletion at any point.
CONSTANTS
    N = 2
    Request = {r1, r2, r3}
    Limits = {1, 3}
    MaxRequests = 5
    MaxFaults = 1
SPECIFICATION Spec
SYMMETRY RequestSymmetry
INVARIANTS
    NoOrphans
PROPERTIES
    RecalculationRepairs
    CompletedStays
CHECK_DEADLOCK FALSE
