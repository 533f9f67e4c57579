\* Two tracked mints; one change of alt_mints may race the scan.
CONSTANTS
    a = a
    b = b
    sol = sol
    usdc = usdc
    p = p
    q = q
    x = x
    y = y
    TrackedMints = {a, b}
    Infos = {"unknown", "recorded"}
    Absent = "absent"
    MaxAltChanges = 1
    Transactions <- MCTransactions
    BaseOf <- MCBaseOf
    QuoteOf <- MCQuoteOf
    LaunchQuote <- MCLaunchQuote
    PoolOf <- MCPoolOf
    Canonical = {p}
    StonkPools = {p, q, y}
    Accrued <- MCAccrued
    Supply <- MCSupply
    U64Max = 15
    MaxTxs = 1
SPECIFICATION Spec
CHECK_DEADLOCK FALSE
INVARIANTS TypeOK AtomicPerKey EventsAreOwn VaultAmountsExactAlone MarketCapExact RecordsByScope
