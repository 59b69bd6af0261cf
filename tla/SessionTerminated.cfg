\* Deadlock is off: the calls are finite in number and the server then idles.
SPECIFICATION Spec
CONSTANTS
    Requests = {r1, r2, r3}
    SessionIds = {s1}
    r1 = r1
    r2 = r2
    r3 = r3
    s1 = s1
SYMMETRY Symmetry
PROPERTIES
    TerminatedIsFinal
CHECK_DEADLOCK FALSE
