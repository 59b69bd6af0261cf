\* Deadlock is off: once Run has returned and both signal and close have
\* happened nothing is left to do.
SPECIFICATION FairSpec
CONSTANTS
    SessionIds = {a, b}
    a = a
    b = b
    NoSession = no_session
    MaxTurns = 4
    MaxOfferings = 1
INVARIANTS
    PendingPassesValidation
    EmissionAcknowledgedOnce
    AckedTurnIsItsOwn
    TurnReceiptsStayInSession
CHECK_DEADLOCK FALSE
