\* All routes of up to three hops, successful and failed.
CONSTANTS
    U64Max = 15
    Mints = {"sol", "a", "b", "c"}
    WSOL = "sol"
    Whitelisted = {"a", "b"}
    MaxHops = 3
    Arg1 = 7
    Arg2 = 5
    HopMoves <- MCHopMoves
    SingleMoves <- MCSingleMoves
    NameLengths = {3, 18}
SPECIFICATION Spec
CHECK_DEADLOCK FALSE
INVARIANTS TypeOK EventFillsMatchRoute FailedFillsMatchRoute RoutedExactly AmountsDecoded
