------------------------------ MODULE Rollout ------------------------------
(***************************************************************************)
(* The life of a workload as the agent observes it: users edit and scale   *)
(* it, its kube controller replaces its pods and writes its status from    *)
(* time to time, and the agent computes RolloutStatus from the object it   *)
(* has, whose status may be older than its spec and than its pods.         *)
(* Only the computation is code of the agent; the workload around it is    *)
(* modelled from the fields that computation reads.                        *)
(***************************************************************************)
EXTENDS RolloutStatus, Functions, FiniteSetsExt

CONSTANTS
    Observed,       \* kinds of workload
    Templates,      \* pod templates
    Startable,      \* templates whose pods can become ready
    Reusable,       \* kinds whose template may return to an older one
    Partitions,     \* partitions of a rolling update
    Strategies,     \* values of spec.rolling
    MaxReplicas,    \* bound: wanted pods
    MaxEdits,       \* bound: changes of the spec, or of the nodes
    MaxBreaks,      \* bound: ready pods that fail
    NoTemplate      \* the revision of a stateful set without a status

ASSUME RolloutAssumption ==
    /\ Observed \subseteq Kinds \ {"CronJob"} /\ Reusable \subseteq Kinds
    /\ Startable \subseteq Templates /\ Partitions \subseteq Nat
    /\ Strategies \subseteq BOOLEAN
    /\ MaxReplicas \in Nat /\ MaxEdits \in Nat /\ MaxBreaks \in Nat
    /\ IsFiniteSet(Templates) /\ NoTemplate \notin Templates

VARIABLES
    spec,       \* the spec of the object
    status,     \* the status of the object
    pods,       \* pods[t]: pods of template t
    ready,      \* ready[t]: those that are ready
    used,       \* templates the spec has had (history)
    seen,       \* pods, ready and template of the last status write (history)
    edits,      \* changes so far
    breaks      \* pods that failed so far

podVars == <<pods, ready, breaks>>
statusVars == <<status, seen>>
specVars == <<spec, used, edits>>
vars == <<specVars, statusVars, podVars>>

Counts == [Templates -> Nat]
SpecType ==
    [kind : Observed, replicas : Nat, rolling : BOOLEAN, partition : Nat,
     template : Templates, generation : Nat]
StatusType ==
    [observed : Nat, replicas : Nat, desired : Nat, updated : Nat,
     ready : Nat, timedOut : BOOLEAN,
     current : Templates \cup {NoTemplate}, update : Templates \cup {NoTemplate}]

\* What the agent computes from the object it has.
Status == MetaStatus([spec |-> spec, status |-> status])

TypeOK ==
    /\ spec \in SpecType
    /\ status \in StatusType
    /\ pods \in Counts /\ ready \in Counts
    /\ \A t \in Templates : ready[t] <= pods[t]
    /\ used \subseteq Templates /\ spec.template \in used
    /\ seen \in [template : Templates, pods : Counts, ready : Counts]
    /\ status.observed <= spec.generation
    /\ Status \in EnvironmentStatus
    /\ edits \in 0..MaxEdits /\ breaks \in 0..MaxBreaks

Total(f) == FoldFunction(+, 0, f)

\* A workload has just been created.
Init ==
    /\ spec \in [kind : Observed, replicas : 0..MaxReplicas, rolling : Strategies,
                 partition : Partitions, template : Templates, generation : {1}]
    /\ status = [observed |-> 0, replicas |-> 0, desired |-> 0, updated |-> 0,
                 ready |-> 0, timedOut |-> FALSE,
                 current |-> NoTemplate, update |-> NoTemplate]
    /\ pods = [t \in Templates |-> 0]
    /\ ready = [t \in Templates |-> 0]
    /\ used = {spec.template}
    /\ seen = [template |-> spec.template, pods |-> pods, ready |-> ready]
    /\ edits = 0
    /\ breaks = 0
-----------------------------------------------------------------------------
(* Users and nodes *)

\* A new template, or the roll-back to an older one.
Edit(t) ==
    /\ edits < MaxEdits
    /\ t # spec.template
    /\ t \in used => spec.kind \in Reusable
    /\ spec' = [spec EXCEPT !.template = t, !.generation = @ + 1]
    /\ used' = used \cup {t}
    /\ edits' = edits + 1
    /\ UNCHANGED <<statusVars, podVars>>

Scale(n) ==
    /\ edits < MaxEdits
    /\ spec.kind # "DaemonSet"
    /\ n # spec.replicas
    /\ spec' = [spec EXCEPT !.replicas = n, !.generation = @ + 1]
    /\ edits' = edits + 1
    /\ UNCHANGED <<used, statusVars, podVars>>

\* A daemon set follows the nodes, without a change of its spec.
AddNode ==
    /\ edits < MaxEdits
    /\ spec.kind = "DaemonSet"
    /\ spec.replicas < MaxReplicas
    /\ spec' = [spec EXCEPT !.replicas = @ + 1]
    /\ edits' = edits + 1
    /\ UNCHANGED <<used, statusVars, podVars>>

\* A pod of template t stops; a ready one only if need be.
Stopped(t) ==
    /\ pods' = [pods EXCEPT ![t] = @ - 1]
    /\ \E r \in {ready[t], ready[t] - 1} :
        /\ r \in 0..(pods[t] - 1)
        /\ ready' = [ready EXCEPT ![t] = r]

\* A node and the pod it runs go away.
RemoveNode(t) ==
    /\ edits < MaxEdits
    /\ spec.kind = "DaemonSet"
    /\ pods[t] > 0
    /\ Stopped(t)
    /\ spec' = [spec EXCEPT !.replicas = @ - 1]
    /\ edits' = edits + 1
    /\ UNCHANGED <<used, statusVars, breaks>>
-----------------------------------------------------------------------------
(* The kube controller of the workload *)

Outgoing == Total(pods) - pods[spec.template]

\* A stateful set has its revisions before its pods.  Under a partition only
\* the pods above it get the last template, the others the current revision.
RevisionAllows(t) ==
    spec.kind = "StatefulSet" =>
        \/ t = status.current /\ (t = spec.template \/ spec.partition > 0)
        \/ /\ t = spec.template /\ status.current # NoTemplate
           /\ pods[t] < spec.replicas - spec.partition

\* A missing pod is started; a deployment starts one more while it replaces
\* old pods.
StartPod(t) ==
    /\ RevisionAllows(t)
    /\ t # spec.template => spec.kind = "StatefulSet"
    /\ \/ Total(pods) < spec.replicas
       \/ /\ spec.kind = "Deployment"
          /\ Outgoing > 0 /\ Total(pods) = spec.replicas
    /\ pods' = [pods EXCEPT ![t] = @ + 1]
    /\ UNCHANGED <<ready, breaks, specVars, statusVars>>

\* A pod of an older template, or one too many, is stopped.
StopPod(t) ==
    /\ pods[t] > 0
    /\ \/ t # spec.template /\ (spec.kind = "StatefulSet" => Outgoing > spec.partition)
       \/ Total(pods) > spec.replicas
    /\ Stopped(t)
    /\ UNCHANGED <<breaks, specVars, statusVars>>

PodReady(t) ==
    /\ t \in Startable
    /\ ready[t] < pods[t]
    /\ ready' = [ready EXCEPT ![t] = @ + 1]
    /\ UNCHANGED <<pods, breaks, specVars, statusVars>>

PodFails(t) ==
    /\ breaks < MaxBreaks
    /\ ready[t] > 0
    /\ ready' = [ready EXCEPT ![t] = @ - 1]
    /\ breaks' = breaks + 1
    /\ UNCHANGED <<pods, specVars, statusVars>>

Complete == Outgoing = 0 /\ ready[spec.template] >= spec.replicas

\* The deadline of a deployment passes without progress; only progress or a
\* new generation clears the condition.
Late(late) ==
    /\ late => spec.kind = "Deployment" /\ ~Complete
    /\ ~late /\ status.timedOut =>
        Complete \/ status.observed # spec.generation
                 \/ seen.pods # pods \/ seen.ready # ready

\* Every pod of a stateful set is of the last template and ready: it becomes
\* the current revision.
CurrentRevision ==
    IF \/ status.current = NoTemplate
       \/ Outgoing = 0 /\ ready[spec.template] = Total(pods)
    THEN spec.template ELSE status.current

\* The status is written for the spec and the pods of this moment.
WriteStatus(late) ==
    /\ Late(late)
    /\ status' = [observed |-> spec.generation,
                  replicas |-> Total(pods), desired |-> spec.replicas,
                  updated |-> pods[spec.template], ready |-> Total(ready),
                  timedOut |-> late,
                  current |-> CurrentRevision, update |-> spec.template]
    /\ seen' = [template |-> spec.template, pods |-> pods, ready |-> ready]
    /\ UNCHANGED <<specVars, podVars>>
-----------------------------------------------------------------------------
Next ==
    \/ \E t \in Templates : Edit(t) \/ RemoveNode(t)
    \/ \E n \in 0..MaxReplicas : Scale(n)
    \/ AddNode
    \/ \E t \in Templates :
        StartPod(t) \/ StopPod(t) \/ PodReady(t) \/ PodFails(t)
    \/ \E late \in BOOLEAN : WriteStatus(late)

Spec == Init /\ [][Next]_vars

\* Kube controllers reconcile: pods are started, stopped and become ready, and
\* the status follows.
Fairness ==
    /\ \A t \in Templates :
        WF_vars(StartPod(t)) /\ WF_vars(StopPod(t)) /\ WF_vars(PodReady(t))
    /\ WF_vars(\E late \in BOOLEAN : WriteStatus(late))
    /\ WF_vars(WriteStatus(TRUE))

FairSpec == Spec /\ Fairness
-----------------------------------------------------------------------------
(* Properties *)

Wanted == IF spec.kind = "DaemonSet" THEN status.desired ELSE spec.replicas

\* Up (meta.go, the last return of each function): when the status was written
\* every pod ran the template the spec has now, and all wanted ones served,
\* although the code compares totals that mix pods of several templates.
UpMeansRolledOut ==
    Status = "Up" =>
        /\ seen.template = spec.template
        /\ \A t \in Templates \ {spec.template} : seen.pods[t] = 0
        /\ seen.ready[spec.template] >= Wanted

\* Failed (meta.go:238): the deadline that passed is the one of the spec the
\* object has now, and its rollout was still incomplete.
FailedMeansStuck ==
    Status = "Failed" =>
        /\ seen.template = spec.template
        /\ \/ seen.ready[spec.template] < spec.replicas
           \/ Total(seen.pods) > seen.pods[spec.template]

\* A workload left alone, whose pods can start, ends up Up, or Down when it is
\* scaled to zero.
StatusSettles ==
    (/\ spec.rolling \/ spec.kind = "Deployment"
     /\ spec.partition = 0 \/ spec.kind # "StatefulSet")
      => <>[](spec.template \in Startable =>
                Status = IF spec.replicas = 0 THEN "Down" ELSE "Up")

\* DOCKERHUB.md:285, "failed: deployment failed (eg: deployment has been
\* updated, but pod are not able to start)": a deployment whose pods cannot
\* start ends up Failed.  Stateful and daemon sets have no progress deadline.
StuckDeploymentFails ==
    spec.kind = "Deployment" =>
        <>[](spec.template \notin Startable /\ spec.replicas > 0 => Status = "Failed")
=============================================================================
