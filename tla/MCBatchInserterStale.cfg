\* The comment on coalesce_duplicate_rows, over the whole life of a row.
CONSTANTS
    Keys = {k1, k2}
    ChanCap = 2
    FlushAt = 2
    Chunk = 2
    MaxSent = 4
SYMMETRY KeySymmetry
SPECIFICATION Spec
CHECK_DEADLOCK FALSE
INVARIANT LatestDeliveryWins
