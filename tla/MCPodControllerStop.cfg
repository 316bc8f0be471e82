SPECIFICATION Spec
CONSTANTS
    p1 = p1
    Pods = {p1}
    Workers = {w1, w2}
    Selected <- MCRelabelled
    MaxRevision = 3
    MaxEvents = 2
    Resyncs = TRUE
    NoPod = NoPod
SYMMETRY Symmetry
INVARIANTS
    ReturnWaitsForWorkers
CHECK_DEADLOCK FALSE
