\* The signal at any moment, with up to two rows per table under way.
CONSTANTS
    Inserters <- MCInserters
    ChanCap = 1
    FlushAt = 2
    MaxRows = 2
    DrainTimeout = 6
    Linger = 1
    WatchdogAfter = 10
SPECIFICATION Spec
CHECK_DEADLOCK FALSE
INVARIANTS TypeOK WatchdogNeverFires ExitLosesNothing
PROPERTY ProcessExits
