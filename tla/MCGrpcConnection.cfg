\* The code's retry constants.  Slot 2 holds two transactions, so that a stream
\* can drop between them, slot 4 none; the handler refuses the one of slot 3.
\* Enough failures to give up once and fail again.
CONSTANTS
    MaxReconnectAttempts = 10
    InitialBackoff = 1
    MaxBackoff = 60
    SlotOf <- MCSlotOf
    BadTxs = {4}
    MaxTx = 5
    MaxFailures = 12
SPECIFICATION FairSpec
CHECK_DEADLOCK FALSE
INVARIANTS TypeOK NoSilentGap ResumesAtLastHandled
PROPERTIES WaitNeverShrinks EventuallyAccounted
