----------------------------- MODULE PodReading ----------------------------
(***************************************************************************)
(* What a worker reads for one pod, in the order of Controller.sync and    *)
(* Controller.findOwner (controller.go), while the cluster changes: the    *)
(* pod and its handlers, the pod again, the Job or ReplicaSet that         *)
(* controls it, the owner by name, the namespace; then what each handler   *)
(* makes of it (Extraction).                                               *)
(*                                                                         *)
(* objects is what the informers, and for the namespace the API server,    *)
(* show under a kind and a name.  They follow the cluster one by one and   *)
(* in no order, so any object may change, go or come back at any time.     *)
(***************************************************************************)
EXTENDS Selectors, Extraction

CONSTANTS
    PodSlot, NamespaceSlot, \* the pod and its namespace
    Slots,                  \* kinds and names of the objects
    Variants,               \* Variants[s]: what may be seen under s
    InitialObjects,         \* what the informers show at first
    Listeners,              \* the configured listeners, in order
    MultiListener,          \* all matching handlers run, or the first
    StatusMapping,          \* the configured references, by status
    MaxChanges,             \* bound: changes during a sync
    NoObject,               \* nothing has that kind and name
    NoController,           \* GetControllerOf: no controller
    NoRef                   \* the worker follows no reference

\* The controllers of a pod that lead to an owner, and the kind they lead to.
Intermediate == [Job |-> "CronJob", ReplicaSet |-> "Deployment"]
Direct == {"StatefulSet", "DaemonSet"}

\* What may be seen at all.
Things == {NoObject} \cup UNION {Variants[s] : s \in Slots}

ASSUME PodReadingAssumption ==
    /\ PodSlot \in Slots /\ NamespaceSlot \in Slots
    /\ DOMAIN Variants = Slots /\ InitialObjects \in [Slots -> Things]
    /\ \A s \in Slots :
        NoObject \notin Variants[s] /\ InitialObjects[s] \in Variants[s] \cup {NoObject}
    /\ InitialObjects[NamespaceSlot] # NoObject
    /\ NoRef \notin Slots
    /\ Listeners \in Seq(Range(Listeners))
    /\ \A i \in DOMAIN Listeners : IsListener(Listeners[i])
    /\ Variants[NamespaceSlot] \subseteq Namespace
    /\ \A s \in Slots : s[1] \in Direct \cup Range(Intermediate) => Variants[s] \subseteq Owner
    /\ DOMAIN StatusMapping \in {{}, Mapped}
    /\ Error \notin Range(StatusMapping)
    /\ \A names, deployNames \in SUBSET Attributes :
        Error \notin Payload(Range(StatusMapping), names, deployNames)
    /\ MultiListener \in BOOLEAN
    /\ MaxChanges \in Nat

VARIABLES
    objects,  \* what is shown under each kind and name
    changes,  \* changes since the sync began
    pc,       \* control point of the worker
    todo,     \* the positions of the listeners left to run, the least first
    ref,      \* the reference findOwner follows
    owner,    \* the object findOwner returned
    ns,       \* the namespace sync read
    shown     \* shown[s]: what s has shown since the sync began (history)

workerVars == <<pc, todo, ref, owner, ns>>
vars == <<objects, changes, workerVars, shown>>

Objects(s) == {NoObject} \cup Variants[s]

TypeOK ==
    /\ objects \in [Slots -> Things] /\ shown \in [Slots -> SUBSET Things]
    /\ \A s \in Slots : objects[s] \in shown[s] /\ shown[s] \subseteq Objects(s)
    /\ objects[NamespaceSlot] # NoObject
    /\ changes \in 0..MaxChanges
    /\ pc \in {"idle", "pod", "intermediate", "owner", "namespace", "handle"}
    /\ todo \subseteq DOMAIN Listeners /\ (pc # "idle" => todo # {})
    /\ pc = "intermediate" => ref[1] \in DOMAIN Intermediate
    /\ pc \in {"namespace", "handle"} => ref \in Slots /\ owner \in Variants[ref]
    /\ pc = "handle" => ns \in Variants[NamespaceSlot]

Init ==
    /\ objects = InitialObjects
    /\ changes = 0
    /\ pc = "idle"
    /\ todo = {}
    /\ ref = NoRef
    /\ owner = NoObject
    /\ ns = NoObject
    /\ shown = [s \in Slots |-> {objects[s]}]

\* What a lister or the API server returns: nothing under a name not in Slots.
Shown(s) == IF s \in Slots THEN objects[s] ELSE NoObject

\* sync returns; the worker forgets what it read.
Finish ==
    /\ pc' = "idle"
    /\ todo' = {}
    /\ ref' = NoRef
    /\ owner' = NoObject
    /\ ns' = NoObject
    /\ changes' = 0
    /\ shown' = [s \in Slots |-> {objects[s]}]
    /\ UNCHANGED objects
-----------------------------------------------------------------------------
\* An object appears, changes, or goes.  Namespaces are not removed under
\* their pods.
Change(s, o) ==
    /\ changes < MaxChanges
    /\ o # objects[s]
    /\ s = NamespaceSlot => o # NoObject
    /\ changes' = changes + 1
    /\ objects' = [objects EXCEPT ![s] = o]
    /\ shown' = [shown EXCEPT ![s] = @ \cup {o}]
    /\ UNCHANGED workerVars

ToRun(matching) ==
    IF MultiListener \/ matching = {} THEN matching ELSE {Min(matching)}

\* sync reads the pod and picks its handlers; what happened before is over.
StartSync ==
    /\ pc = "idle"
    /\ Shown(PodSlot) # NoObject
    /\ todo' = ToRun(HandlersFor(Listeners, Shown(PodSlot)))
    /\ todo' # {}
    /\ pc' = "pod"
    /\ changes' = 0
    /\ shown' = [s \in Slots |-> {objects[s]}]
    /\ UNCHANGED <<objects, ref, owner, ns>>

HasController(s) == Shown(s) # NoObject /\ Shown(s).controller # NoController
PodHasOwner ==
    HasController(PodSlot) /\ Shown(PodSlot).controller[1] \in DOMAIN Intermediate \cup Direct

\* findOwner reads the pod again and looks at the kind of its controller.
ReadPod ==
    /\ pc = "pod"
    /\ PodHasOwner
    /\ ref' = Shown(PodSlot).controller
    /\ pc' = IF ref'[1] \in Direct THEN "owner" ELSE "intermediate"
    /\ UNCHANGED <<objects, changes, todo, owner, ns, shown>>

\* The controller of the Job or of the ReplicaSet: only its name is used, its
\* kind is taken to be CronJob or Deployment.
ReadIntermediate ==
    /\ pc = "intermediate"
    /\ HasController(ref)
    /\ ref' = <<Intermediate[ref[1]], Shown(ref).controller[2]>>
    /\ pc' = "owner"
    /\ UNCHANGED <<objects, changes, todo, owner, ns, shown>>

\* Mutated form: the error of the lister is not looked at.
ReadOwnerUnchecked ==
    /\ pc = "owner"
    /\ owner' = Shown(ref)
    /\ pc' = "namespace"
    /\ UNCHANGED <<objects, changes, todo, ref, ns, shown>>

\* The owner itself.
ReadOwner ==
    /\ pc = "owner"
    /\ Shown(ref) # NoObject
    /\ owner' = Shown(ref)
    /\ pc' = "namespace"
    /\ UNCHANGED <<objects, changes, todo, ref, ns, shown>>

\* Not found, no controller, or a controller of another kind: sync returns nil.
NoOwner ==
    /\ \/ pc = "pod" /\ ~PodHasOwner
       \/ pc = "intermediate" /\ ~HasController(ref)
       \/ pc = "owner" /\ Shown(ref) = NoObject
    /\ Finish

\* sync gets the namespace from the API server.
GetNamespace ==
    /\ pc = "namespace"
    /\ ns' = Shown(NamespaceSlot)
    /\ pc' = "handle"
    /\ UNCHANGED <<objects, changes, todo, ref, owner, shown>>

\* It cannot be read: sync returns the error.
NamespaceError == pc = "namespace" /\ Finish

\* The listener whose handler runs.
Current == Listeners[Min(todo)]

\* One handler runs to its comparison with the cache.
Handle ==
    /\ pc = "handle"
    /\ \/ todo = {Min(todo)} /\ Finish
       \/ /\ todo # {Min(todo)}
          /\ todo' = todo \ {Min(todo)}
          /\ UNCHANGED <<objects, changes, pc, ref, owner, ns, shown>>
-----------------------------------------------------------------------------
SyncNext ==
    \/ StartSync \/ ReadPod \/ ReadIntermediate \/ ReadOwner \/ NoOwner
    \/ GetNamespace \/ NamespaceError \/ Handle

Next ==
    \/ \E s \in Slots : \E o \in Objects(s) : Change(s, o)
    \/ SyncNext

Spec == Init /\ [][Next]_vars
-----------------------------------------------------------------------------
(* Properties *)

\* The controller c led to the owner r, by what was shown during the sync.  A
\* controller of a Job or a ReplicaSet that is neither a CronJob nor a
\* Deployment leads to the CronJob or Deployment of its name, if there is one.
LedTo(c, r) ==
    \/ c[1] \in Direct /\ r = c
    \/ /\ c[1] \in DOMAIN Intermediate /\ c \in Slots
       /\ \E o \in shown[c] \ {NoObject} :
            /\ o.controller # NoController
            /\ r = <<Intermediate[c[1]], o.controller[2]>>

\* Five reads make one payload, and the cluster may change between any two.
\* The payload is still of the time of the sync: the pod matched its listener,
\* led to the owner, and owner and namespace looked as they were read at some
\* time since the sync began; not all at once, and the pod that matched may
\* not be the one that led to the owner (controller.go:301-340, 349).
PayloadIsOfItsTime ==
    pc = "handle" =>
        /\ \E pod \in shown[PodSlot] \ {NoObject} : Match(Current, pod)
        /\ \E pod \in shown[PodSlot] \ {NoObject} :
            pod.controller # NoController /\ LedTo(pod.controller, ref)
        /\ owner \in shown[ref]
        /\ ns \in shown[NamespaceSlot]

\* A listener that says nothing of what to send.
Unconfigured(l) ==
    /\ {l.app, l.cat, l.env, l.url, l.version} = {NoTemplate}
    /\ l.attributes = << >> /\ l.deployAttributes = << >>

PayloadOf(o) == Extract(Current, StatusMapping, o, ns)

Fit(attributes) ==
    \A a \in DOMAIN attributes : Len(attributes[a]) <= MaxAttributeValueSize

WellFormed(p) ==
    p # Error =>
        /\ << >> \notin {p.app, p.cat, p.env}
        /\ Fit(p.attributes)
        /\ p.deployment # NoDeployment => Fit(p.deployment.attributes)

\* What is sent can identify an environment and fits: no name is empty, no
\* value of an attribute, wherever it comes from, is longer than
\* MaxAttributeValueSize, not even once its cut character has been replaced
\* (handler.go:354-356, 479-481, utils.go:120-125).
WellFormedPayload == pc = "handle" => WellFormed(PayloadOf(owner))

\* The first k characters of an image, before the tag or the digest, where the
\* pattern can take nothing for a registry: they have a path, or no dot.
IsBase(s, k) ==
    /\ k \in 0..Len(s) /\ (k < Len(s) => Class[s[k + 1]] \in {":", "other"})
    /\ \/ \E i \in 1..k : Class[s[i]] = "/"
       \/ \A i \in 1..k : Class[s[i]] # "."

SameBase(s, q) ==
    \E k \in 0..Len(s) : IsBase(s, k) /\ IsBase(q, k) /\ SubSeq(s, 1, k) = SubSeq(q, 1, k)

\* o and owner differ only in what a new version of the same program changes.
NewVersion(o) ==
    /\ o.image # NoContainer /\ owner.image # NoContainer
    /\ o = [owner EXCEPT !.image = o.image, !.status = o.status,
                         !.label["version"] = o.label["version"],
                         !.annotation["version"] = o.annotation["version"],
                         !.deploy = o.deploy]
    /\ SameBase(owner.image, o.image)

\* A part of a template that changes with the version of a program.
NamesVersion(part) ==
    \/ part.fn = "mainImageTag"
    \/ part.fn \in {"label", "annotation"} /\ part.arg = "version"

\* Of what identifies and describes an environment, the listener configures
\* nothing that changes with the version.
KeepsEnvironment(l) ==
    LET Keeps(t) == \A i \in DOMAIN t : ~NamesVersion(t[i])
    IN  /\ \A field \in {"app", "cat", "env", "url"} : l[field] # NoTemplate => Keeps(l[field])
        /\ \A i \in DOMAIN l.attributes : Keeps(l.attributes[i].value)

SameEnvironment(p, q) ==
    p # Error /\ q # Error =>
        \A part \in {"app", "cat", "env", "url", "attributes"} : p[part] = q[part]

\* A new version is pushed to the environment of the old one, and carries the
\* attributes and the url of that environment, unless the listener itself asks
\* for the version there: otherwise every deployment would leave an environment
\* behind.  Wherever the pattern of utils.go:46 splits the image, it must then
\* split the next tag of it in the same place; of an image like shop.web:12,
\* whose registry the pattern takes to be shop.web:1, it does not
\* (handler.go:207-224, 360-371).
NewVersionSameEnvironment ==
    pc = "handle" /\ KeepsEnvironment(Current) =>
        \A o \in Variants[ref] \ {owner} :
            NewVersion(o) => SameEnvironment(PayloadOf(owner), PayloadOf(o))

\* A listener without templates needs nothing but the owner's first image: it
\* fails exactly when the image must give the application and gives no name,
\* or must give the version and cannot be parsed, even if the application is
\* labelled (handler.go:360-390, utils.go:45-56).
DefaultsNeedOnlyTheImage ==
    pc = "handle" /\ Unconfigured(Current) =>
        LET Labelled(key) == owner.label[key] # << >> \/ owner.annotation[key] # << >>
        IN  PayloadOf(owner) = Error <=>
                \/ ~Labelled("app") /\ MainImage(owner, "name") \in {<< >>, Error}
                \/ /\ ~Current.ignoreDeployment /\ ~Labelled("version")
                   /\ MainImage(owner, "tag") = Error
=============================================================================
