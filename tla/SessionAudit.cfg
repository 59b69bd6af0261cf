\* Deadlock is off: when every call was refused there is no session to audit.
SPECIFICATION AuditSpec
CONSTANTS
    Requests = {r1, r2, r3}
    SessionIds = {s1}
    r1 = r1
    r2 = r2
    r3 = r3
    s1 = s1
SYMMETRY Symmetry
INVARIANTS
    ReportsAreSound
PROPERTIES
    TrailOnlyGrows
CHECK_DEADLOCK FALSE
