SPECIFICATION FairSpec
CONSTANTS
    p1 = p1  p2 = p2
    o1 = o1
    l1 = l1  l2 = l2  l3 = l3
    e1 = e1  e2 = e2
    Workers = {w1, w2}
    Pods = {p1, p2}
    Owners = {o1}
    Listeners = {l1}
    Envs = {e1}
    OwnerOf <- OneOwner
    HandlersFor <- OneHandler
    EnvOf <- OneEnv
    MultiListener = FALSE
    Resyncs = TRUE
    Expires = TRUE
    MaxVersion = 2
    Faults = {}
    MaxFaults = 0
    NoEnv = NoEnv
    NoEntry = NoEntry
    NoPod = NoPod
PROPERTIES
    ScaledDownIsPublished
CHECK_DEADLOCK FALSE
