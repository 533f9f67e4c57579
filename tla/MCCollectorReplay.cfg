\* The comment on replay_from_slot, with every flush writing all its rows.
CONSTANTS
    MaxReconnectAttempts = 2
    InitialBackoff = 1
    MaxBackoff = 1
    SlotOf <- MCSlotOf
    BadTxs = {}
    MaxTx = 4
    MaxFailures = 0
    AmmTxs = {1, 3, 4}
    AltTxs = {1, 2}
    Window = 1
    Overrides = {}
    PartialFlush = FALSE
    MaxCrashes = 1
SPECIFICATION CSpec
CHECK_DEADLOCK FALSE
INVARIANT ReceivedIsRedelivered
