\* No symmetry, as a liveness property is checked.  Deadlock is off: the calls
\* are finite in number and the server then idles.
SPECIFICATION FairSpec
CONSTANTS
    Requests = {r1, r2, r3}
    SessionIds = {s1}
    r1 = r1
    r2 = r2
    r3 = r3
    s1 = s1
INVARIANTS
    ContiguousTurns
    ReplyFollowsItsQuestion
    ReplySawWholeLog
    AnsweredIsRecorded
    ReceiptBeforeItsCarrier
    HandoffHasCause
PROPERTIES
    QuietTerminationIsFinal
    ImplementsTurnLog
    QuestionsSettle
CHECK_DEADLOCK FALSE
