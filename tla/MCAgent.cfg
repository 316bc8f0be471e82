SPECIFICATION FairAgentSpec
CONSTANTS
    p1 = p1
    o1 = o1
    l1 = l1
    e1 = e1
    Workers = {w1, w2}
    Pods = {p1}
    Selected <- MCSelected
    MaxRevision = 2
    MaxEvents = 2
    Resyncs = TRUE
    Owners = {o1}
    Listeners = {l1}
    Envs = {e1}
    OwnerOf <- MCOwnerOf
    HandlersFor <- MCHandlersFor
    EnvOf <- MCEnvOf
    MultiListener = FALSE
    Expires = TRUE
    MaxVersion = 2
    Faults = {}
    MaxFaults = 0
    NoEnv = NoEnv
    NoEntry = NoEntry
    NoPod = NoPod
INVARIANTS
    AgentTypeOK
PROPERTIES
    ImplementsPodSync
    ChangesArePublished
CHECK_DEADLOCK FALSE
