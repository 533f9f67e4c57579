\* One slot of replay window; three distinct slots above the first one.
CONSTANTS
    MaxReconnectAttempts = 2
    InitialBackoff = 1
    MaxBackoff = 1
    SlotOf <- MCSlotOf
    BadTxs = {}
    MaxTx = 4
    MaxFailures = 1
    AmmTxs = {1, 3, 4}
    AltTxs = {1, 2}
    Window = 1
    Overrides = {3}
    PartialFlush = TRUE
    MaxCrashes = 2
SPECIFICATION CFairSpec
CHECK_DEADLOCK FALSE
INVARIANTS CTypeOK NothingForgotten
PROPERTIES EventuallyCommitted
