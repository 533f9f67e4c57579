\* A replay while the whitelist is being refreshed, all_mints unchanged.
CONSTANTS
    t1 = t1
    t2 = t2
    m1 = m1
    m2 = m2
    Mints = {m1, m2}
    MaxChanges = 0
    Txs = {t1, t2}
    InstrsOf <- MCInstrsOf
    MintOf <- MCMintOf
    Filtered = {"f"}
    NoAmounts = {"n"}
    Readonly = FALSE
    MaxDeliveries = 2
SPECIFICATION Spec
CHECK_DEADLOCK FALSE
INVARIANT OneRowPerTrade
