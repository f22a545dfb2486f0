\* Two students and a classroom course; one or two requests at once.
CONSTANTS
    s1 = s1
    s2 = s2
    r1 = r1
    r2 = r2
    Students = {s1, s2}
    Templates = {"algebra"}
    CourseIds = {1}
    Requests = {r1, r2}
    Limits = {1, 2}
    MaxFaults = 1
    MaxDeletions = 1
SPECIFICATION Spec
SYMMETRY Interchangeable
INVARIANTS
    MembersHaveCourses
    NoSpareCourses
PROPERTIES
    AssignmentReaches
CHECK_DEADLOCK FALSE
