--------------------------- MODULE RolloutStatus ---------------------------
(***************************************************************************)
(* The status of an environment (meta.go), read off the resource that owns *)
(* its pods.  A resource is a record [spec, status] with the fields the    *)
(* code reads, the optional ones filled in as the API server does:         *)
(*   spec.replicas        wanted pods (a DaemonSet has none of its own)    *)
(*   spec.rolling         the update strategy is RollingUpdate             *)
(*   spec.partition       StatefulSet: pods a rolling update leaves alone  *)
(*   spec.generation      version of the spec                              *)
(*   status.observed      generation the status was computed for           *)
(*   status.replicas      pods that exist                                  *)
(*   status.desired       DaemonSet: pods wanted by the nodes              *)
(*   status.updated       pods of the last template                        *)
(*   status.ready         pods that serve                                  *)
(*   status.timedOut      Deployment: Progressing is                       *)
(*                        ProgressDeadlineExceeded                         *)
(*   status.current, status.update    StatefulSet: its two revisions       *)
(***************************************************************************)
EXTENDS Integers

Kinds == {"Deployment", "DaemonSet", "StatefulSet", "CronJob"}
EnvironmentStatus == {"Unknown", "Down", "Deploy", "Failed", "Up"}

\* The status is older than the spec.
Outdated(d) == d.status.observed < d.spec.generation

\* Mutated form: a status older than the spec is taken for the current one.
DeploymentStatusUnguarded(d) ==
    IF d.status.replicas = 0 THEN "Down"
    ELSE IF d.status.timedOut THEN "Failed"
    ELSE IF \/ d.status.updated < d.spec.replicas
            \/ d.status.updated < d.status.replicas
            \/ d.status.ready < d.status.updated
    THEN "Deploy" ELSE "Up"

\* Mutated form: the deadline is looked at only once all pods are replaced.
DeploymentStatusDeployFirst(d) ==
    IF d.status.replicas = 0 THEN "Down"
    ELSE IF Outdated(d) THEN "Unknown"
    ELSE IF \/ d.status.updated < d.spec.replicas
            \/ d.status.updated < d.status.replicas
            \/ d.status.ready < d.status.updated
    THEN "Deploy"
    ELSE IF d.status.timedOut THEN "Failed" ELSE "Up"

DeploymentStatus(d) ==
    IF d.status.replicas = 0 THEN "Down"
    ELSE IF Outdated(d) THEN "Unknown"
    ELSE IF d.status.timedOut THEN "Failed"
    ELSE IF \/ d.status.updated < d.spec.replicas
            \/ d.status.updated < d.status.replicas
            \/ d.status.ready < d.status.updated
    THEN "Deploy" ELSE "Up"

\* Named DamonSetStatus in the code.
DaemonSetStatus(d) ==
    IF d.status.desired = 0 THEN "Down"
    ELSE IF ~d.spec.rolling \/ Outdated(d) THEN "Unknown"
    ELSE IF \/ d.status.updated < d.status.desired
            \/ d.status.ready < d.status.desired
    THEN "Deploy" ELSE "Up"

\* Mutated form: the comparison of the revisions is inverted.
StatefulSetStatusInverted(s) ==
    IF s.status.replicas = 0 THEN "Down"
    ELSE IF ~s.spec.rolling \/ s.status.observed = 0 \/ Outdated(s) THEN "Unknown"
    ELSE IF \/ s.status.ready < s.spec.replicas
            \/ s.status.updated < s.spec.replicas - s.spec.partition
            \/ s.status.update = s.status.current
    THEN "Deploy" ELSE "Up"

StatefulSetStatus(s) ==
    IF s.status.replicas = 0 THEN "Down"
    ELSE IF ~s.spec.rolling \/ s.status.observed = 0 \/ Outdated(s) THEN "Unknown"
    ELSE IF \/ s.status.ready < s.spec.replicas
            \/ s.status.updated < s.spec.replicas - s.spec.partition
            \/ s.status.update # s.status.current
    THEN "Deploy" ELSE "Up"

CronJobStatus(c) == "Unknown"

\* Mutated form: the type switch forgets daemon sets.
MetaStatusWithoutDaemonSets(r) ==
    CASE r.spec.kind = "Deployment" -> DeploymentStatus(r)
      [] r.spec.kind = "StatefulSet" -> StatefulSetStatus(r)
      [] r.spec.kind = "CronJob" -> CronJobStatus(r)
      [] OTHER -> "error"

\* An owner of any other type is an error.
MetaStatus(r) ==
    CASE r.spec.kind = "Deployment" -> DeploymentStatus(r)
      [] r.spec.kind = "DaemonSet" -> DaemonSetStatus(r)
      [] r.spec.kind = "StatefulSet" -> StatefulSetStatus(r)
      [] r.spec.kind = "CronJob" -> CronJobStatus(r)
      [] OTHER -> "error"
=============================================================================
