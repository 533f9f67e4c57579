\* Two deliveries: a first one, and a replay under another whitelist.
CONSTANTS
    t1 = t1
    t2 = t2
    m1 = m1
    m2 = m2
    Mints = {m1, m2}
    MaxChanges = 1
    Txs = {t1, t2}
    InstrsOf <- MCInstrsOf
    MintOf <- MCMintOf
    Filtered = {"f"}
    NoAmounts = {"n"}
    Readonly = FALSE
    MaxDeliveries = 2
SPECIFICATION Spec
CHECK_DEADLOCK FALSE
INVARIANTS TypeOK EmitsByScope RowsByPosition
