SPECIFICATION FairSpec
CONSTANTS
    Callers = {c1, c2, c3}
    Keys = {k1}
    Payloads = {v1, v2}
    NoEntry = NoEntry
    NoCaller = NoCaller
    Expires = TRUE
INVARIANTS
    TypeOK
    DecisionStands
PROPERTIES
    ImplementsUpToDateCache
    CallsReturn
