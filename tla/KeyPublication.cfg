\* Deadlock is off: when the starts are used up and nothing runs any more,
\* nothing is left to do.
SPECIFICATION PublicFairSpec
CONSTANTS
    Procs = {server, desktop}
    HttpProcs = {server}
    server = server
    desktop = desktop
    MaxStarts = 3
    MaxRequests = 2
INVARIANTS
    ServesOnFullSchema
    SigningKeyIsOnDisk
    KeysAreSound
    NotaryOutlivesTheProcess
PROPERTIES
    StopsOnSignal
CHECK_DEADLOCK FALSE
