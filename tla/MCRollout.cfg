SPECIFICATION FairSpec
CONSTANTS
    Observed = {"Deployment", "DaemonSet", "StatefulSet"}
    Templates = {t1, t2}
    Startable = {t1}
    Reusable = {"Deployment", "DaemonSet"}
    Partitions = {0, 1}
    Strategies = {TRUE, FALSE}
    MaxReplicas = 2
    MaxEdits = 2
    MaxBreaks = 1
    NoTemplate = NoTemplate
INVARIANTS
    TypeOK
    UpMeansRolledOut
    FailedMeansStuck
PROPERTIES
    StatusSettles
    StuckDeploymentFails
CHECK_DEADLOCK FALSE
