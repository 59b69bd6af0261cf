\* Deadlock is off: the calls are finite in number and the bridge then idles.
SPECIFICATION Spec
CONSTANTS
    Calls = {c1, c2, c3, c4}
    c1 = c1
    c2 = c2
    c3 = c3
    c4 = c4
    SessionIds = {a, b}
    a = a
    b = b
    None = None
    MaxTurns = 5
SYMMETRY Symmetry
INVARIANTS
    ReceiptsAreSound
PROPERTIES
    UnracedForgettingIsRight
CHECK_DEADLOCK FALSE
