\* Height 5 is the runtime's limit; five calls nest, return and call again.
CONSTANTS
    MaxHeight = 5
    MaxTrace = 5
SPECIFICATION Spec
CHECK_DEADLOCK FALSE
INVARIANTS TypeOK ChildEventsAreOwn FindsOwnTradeEvent
