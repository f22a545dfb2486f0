\* Every course of up to three modules over few days; one request at a time
\* or two at once, a handler that dies, and a deletion at any point.
CONSTANTS
    Minutes = {20, 45}
    MaxModules = 3
    Paces = {"fast", "deep"}
    Learners = {{"beginner"}}
    Capacities = {30, 60}
    Durations = {1, 3}
    Slot = {360, 1080}
    MaxSlots = 2
    Request = {r1, r2}
    MaxInFlight = 2
    MaxRequests = 3
    MaxFaults = 1
SPECIFICATION Spec
SYMMETRY RequestSymmetry
INVARIANTS
    SoundTimetables
    TicksShown
CHECK_DEADLOCK FALSE
