SPECIFICATION FairSpec
CONSTANTS
    p1 = p1
    Pods = {p1}
    Workers = {w1, w2}
    Selected <- MCRelabelled
    MaxRevision = 4
    MaxEvents = 3
    Resyncs = TRUE
    NoPod = NoPod
INVARIANTS
    TypeOK
    OneWorkerPerPod
    ChangeNotLost
    BackoffCleared
PROPERTIES
    EventuallySynced
CHECK_DEADLOCK FALSE
