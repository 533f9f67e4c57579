\* FlushAt = Chunk, as in the code.  Four deliveries over two keys: a failed
\* flush of two rows, and two more rows, make a flush of two chunks.
CONSTANTS
    Keys = {k1, k2}
    ChanCap = 2
    FlushAt = 2
    Chunk = 2
    MaxSent = 4
SPECIFICATION FairSpec
CHECK_DEADLOCK FALSE
INVARIANTS TypeOK NoRowLost PipelineOrdered StaleOnlyAfterSplit
PROPERTIES ImplementsStore EventuallySettled ShutdownEnds
