SPECIFICATION FairSpec
CONSTANTS
    p1 = p1  p2 = p2
    o1 = o1
    l1 = l1  l2 = l2  l3 = l3
    e1 = e1  e2 = e2
    Workers = {w1, w2}
    Pods = {p1}
    Owners = {o1}
    Listeners = {l1, l2, l3}
    Envs = {e1, e2}
    OwnerOf <- OneOwner
    HandlersFor <- ThreeHandlers
    EnvOf <- ThreeEnvs
    MultiListener = TRUE
    Resyncs = TRUE
    Expires = TRUE
    MaxVersion = 2
    Faults = {"refused", "lost", "restart"}
    MaxFaults = 2
    NoEnv = NoEnv
    NoEntry = NoEntry
    NoPod = NoPod
INVARIANTS
    TypeOK
    EntryIsBacked
    CachedIsPublished
PROPERTIES
    PublishedNeverGoesBack
    EventuallyPublished
CHECK_DEADLOCK FALSE
