\* One request at a time: retries after faults, one answer out of turn;
\* a student who keeps answering; what else completes the
\* module does so at any time.
CONSTANTS
    Session = {s1}
    Request = {r1}
    None = None
    CoursePace = "fast"
    HasConcept = TRUE
    ProbeId = {"probe_1", "probe_2"}
    SignalGiven = {"clear", "weak"}
    DecisionGiven = {"REPEAT_MODULE"}
    MaxInFlight = 1
    MaxSent = 8
    MaxStray = 1
    MaxFaults = 1
    Elsewhere = TRUE
SPECIFICATION DiligentSpec
INVARIANTS
    AcknowledgedKept
    FinalizedOncePerFault
    ReportSound
    ActiveHasQuestion
    CompletionEarned
PROPERTIES
    KeepsContract
    SessionsFinish
CHECK_DEADLOCK FALSE
