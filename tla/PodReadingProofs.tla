-------------------------- MODULE PodReadingProofs --------------------------
(***************************************************************************)
(* Proofs about PodReading, for any objects, listeners and number of       *)
(* changes.                                                                *)
(***************************************************************************)
EXTENDS PodReading, ExtractionProofs

LEMMA ToRunType ==
  ASSUME NEW matching \in SUBSET DOMAIN Listeners
  PROVE  ToRun(matching) \subseteq matching
<1>1. matching \in SUBSET Nat
  BY PodReadingAssumption
<1>2. matching # {} => Min(matching) \in matching
  BY <1>1, Least
<1>. QED  BY <1>2 DEF ToRun

LEMMA CurrentIsLeft ==
  ASSUME TypeOK, pc # "idle"
  PROVE  Min(todo) \in todo
BY PodReadingAssumption, Least DEF TypeOK

LEMMA FinishType ==
  ASSUME TypeOK, Finish
  PROVE  TypeOK'
<1>. USE PodReadingAssumption
<1>1. \A s \in Slots : objects[s] \in Things /\ objects[s] \in Objects(s)
  BY DEF TypeOK
<1>2. shown' \in [Slots -> SUBSET Things] /\ \A s \in Slots : shown'[s] = {objects[s]}
  BY <1>1 DEF Finish
<1>. QED  BY <1>1, <1>2 DEF Finish, TypeOK

LEMMA TypeStep ==
  ASSUME TypeOK, [Next]_vars
  PROVE  TypeOK'
<1>. USE PodReadingAssumption
<1>1. ASSUME NEW s \in Slots, NEW o \in Objects(s), Change(s, o)
      PROVE  TypeOK'
  <2>1. o \in Things
    BY DEF Objects, Things
  <2>2. /\ objects' \in [Slots -> Things] /\ shown' \in [Slots -> SUBSET Things]
        /\ objects'[s] = o /\ shown'[s] = shown[s] \cup {o}
        /\ \A x \in Slots \ {s} : objects'[x] = objects[x] /\ shown'[x] = shown[x]
    BY <1>1, <2>1 DEF Change, TypeOK
  <2>3. \A x \in Slots : objects'[x] \in shown'[x] /\ shown'[x] \subseteq Objects(x)
    BY <2>2 DEF TypeOK
  <2>4. changes' \in 0..MaxChanges
    BY <1>1 DEF Change, TypeOK
  <2>5. objects'[NamespaceSlot] # NoObject
    BY <1>1, <2>2 DEF Change, TypeOK
  <2>. QED  BY <1>1, <2>2, <2>3, <2>4, <2>5 DEF Change, TypeOK, workerVars
<1>2. CASE StartSync
  <2>1. todo' \subseteq DOMAIN Listeners
    BY <1>2, ToRunType DEF StartSync, HandlersFor
  <2>2. \A s \in Slots : objects[s] \in Things /\ objects[s] \in Objects(s)
    BY DEF TypeOK
  <2>3. shown' \in [Slots -> SUBSET Things] /\ \A s \in Slots : shown'[s] = {objects[s]}
    BY <1>2, <2>2 DEF StartSync
  <2>. QED  BY <1>2, <2>1, <2>2, <2>3 DEF StartSync, TypeOK
<1>3. CASE ReadPod
  <2>1. ref'[1] \in DOMAIN Intermediate \cup Direct
    BY <1>3 DEF ReadPod, PodHasOwner
  <2>2. pc' \in {"owner", "intermediate"} /\ (pc' = "intermediate" => ref'[1] \in DOMAIN Intermediate)
    BY <1>3, <2>1 DEF ReadPod
  <2>. QED  BY <1>3, <2>2 DEF ReadPod, TypeOK
<1>4. CASE ReadIntermediate
  BY <1>4 DEF ReadIntermediate, TypeOK
<1>5. CASE ReadOwner
  <2>1. ref \in Slots /\ owner' = objects[ref] /\ objects[ref] # NoObject
    BY <1>5 DEF ReadOwner, Shown
  <2>2. owner' \in Variants[ref]
    BY <2>1 DEF TypeOK, Objects
  <2>. QED  BY <1>5, <2>1, <2>2 DEF ReadOwner, TypeOK
<1>6. CASE NoOwner \/ NamespaceError
  BY <1>6, FinishType DEF NoOwner, NamespaceError
<1>7. CASE GetNamespace
  <2>1. ns' \in Variants[NamespaceSlot]
    BY <1>7 DEF GetNamespace, Shown, TypeOK, Objects
  <2>. QED  BY <1>7, <2>1 DEF GetNamespace, TypeOK
<1>8. CASE Handle
  <2>1. Min(todo) \in todo
    BY <1>8, CurrentIsLeft DEF Handle
  <2>2. CASE todo # {Min(todo)} /\ todo' = todo \ {Min(todo)}
             /\ UNCHANGED <<objects, changes, pc, ref, owner, ns, shown>>
    BY <2>1, <2>2 DEF TypeOK
  <2>. QED  BY <1>8, <2>2, FinishType DEF Handle
<1>9. CASE UNCHANGED vars
  BY <1>9 DEF vars, workerVars, TypeOK
<1>. QED
  BY <1>1, <1>2, <1>3, <1>4, <1>5, <1>6, <1>7, <1>8, <1>9 DEF Next, SyncNext

LEMMA TypeInit == Init => TypeOK
<1>. SUFFICES ASSUME Init PROVE TypeOK
  OBVIOUS
<1>. USE PodReadingAssumption
<1>1. \A s \in Slots : objects[s] \in Things /\ objects[s] \in Objects(s)
  BY DEF Init, Objects
<1>2. shown \in [Slots -> SUBSET Things] /\ \A s \in Slots : shown[s] = {objects[s]}
  BY <1>1 DEF Init
<1>. QED  BY <1>1, <1>2 DEF Init, TypeOK

\* The objects that are seen, the handlers that are left and the owner that was
\* read keep their types, whatever changes in between.
THEOREM TypeCorrect == Spec => []TypeOK
BY TypeInit, TypeStep, PTL DEF Spec
-----------------------------------------------------------------------------
(* What a payload is made of is of the time of the sync *)

\* A pod that was seen matched every listener that is left.
Matched ==
    pc # "idle" =>
        \E pod \in shown[PodSlot] \ {NoObject} :
            \A i \in todo : Match(Listeners[i], pod)

\* A pod that was seen has the controller that findOwner reads next.
Following ==
    pc = "intermediate" =>
        \E pod \in shown[PodSlot] \ {NoObject} :
            pod.controller # NoController /\ pod.controller = ref

\* A pod that was seen led to the owner.
Led ==
    pc \in {"owner", "namespace", "handle"} =>
        \E pod \in shown[PodSlot] \ {NoObject} :
            pod.controller # NoController /\ LedTo(pod.controller, ref)

Seen ==
    /\ pc \in {"namespace", "handle"} => owner \in shown[ref]
    /\ pc = "handle" => ns \in shown[NamespaceSlot]

TimeInv == TypeOK /\ Matched /\ Following /\ Led /\ Seen

\* What was shown stays shown, so a payload under way stays of its time.
LEMMA ShownGrows ==
  ASSUME TimeInv, TypeOK', pc' = pc, todo' \subseteq todo, UNCHANGED <<ref, owner, ns>>,
         \A s \in Slots : shown[s] \subseteq shown'[s]
  PROVE  TimeInv'
<1>. USE PodReadingAssumption
<1>1. Matched'
  BY DEF TimeInv, Matched
<1>2. Following'
  BY DEF TimeInv, Following
<1>3. Led'
  <2>1. ASSUME NEW c, LedTo(c, ref)
        PROVE  LedTo(c, ref)'
    BY <2>1 DEF LedTo
  <2>. QED  BY <2>1 DEF TimeInv, Led
<1>4. Seen'
  BY DEF TimeInv, Seen, TypeOK
<1>. QED  BY <1>1, <1>2, <1>3, <1>4 DEF TimeInv

LEMMA TimeStep ==
  ASSUME TimeInv, [Next]_vars
  PROVE  TimeInv'
<1>. USE PodReadingAssumption
<1>. TypeOK /\ TypeOK'
  BY TypeStep DEF TimeInv
<1>1. ASSUME Finish
      PROVE  TimeInv'
  BY <1>1 DEF Finish, TimeInv, Matched, Following, Led, Seen
<1>2. ASSUME NEW s \in Slots, NEW o \in Objects(s), Change(s, o)
      PROVE  TimeInv'
  <2>1. \A x \in Slots : shown[x] \subseteq shown'[x]
    BY <1>2 DEF Change, TypeOK
  <2>. QED  BY <1>2, <2>1, ShownGrows DEF Change, workerVars
<1>3. CASE StartSync
  <2>1. todo' \subseteq HandlersFor(Listeners, Shown(PodSlot))
    BY <1>3, ToRunType DEF StartSync, HandlersFor
  <2>2. Shown(PodSlot) \in shown'[PodSlot] \ {NoObject}
    BY <1>3 DEF StartSync, Shown
  <2>3. Matched'
    BY <2>1, <2>2 DEF Matched, HandlersFor
  <2>. QED  BY <1>3, <2>3 DEF StartSync, TimeInv, Following, Led, Seen
<1>4. CASE ReadPod
  <2>1. /\ Shown(PodSlot) \in shown[PodSlot] \ {NoObject}
        /\ Shown(PodSlot).controller # NoController /\ ref' = Shown(PodSlot).controller
    BY <1>4 DEF ReadPod, PodHasOwner, HasController, Shown, TypeOK
  <2>2. Following'
    BY <1>4, <2>1 DEF ReadPod, Following
  <2>3. pc' = "owner" => LedTo(ref, ref)'
    BY <1>4 DEF ReadPod, LedTo
  <2>4. Led'
    BY <1>4, <2>1, <2>3 DEF ReadPod, Led, LedTo
  <2>. QED  BY <1>4, <2>2, <2>4 DEF ReadPod, TimeInv, Matched, Seen
<1>5. CASE ReadIntermediate
  <2>1. ref \in Slots /\ Shown(ref) \in shown[ref] \ {NoObject}
        /\ Shown(ref).controller # NoController
    BY <1>5 DEF ReadIntermediate, HasController, Shown, TypeOK
  <2>2. ref[1] \in DOMAIN Intermediate
        /\ ref' = <<Intermediate[ref[1]], Shown(ref).controller[2]>>
    BY <1>5 DEF ReadIntermediate, TypeOK
  <2>3. \A c : c = ref => LedTo(c, ref')
    BY <2>1, <2>2 DEF LedTo
  <2>4. Led'
    BY <1>5, <2>3 DEF ReadIntermediate, TimeInv, Following, Led, LedTo
  <2>. QED  BY <1>5, <2>4 DEF ReadIntermediate, TimeInv, Matched, Following, Seen
<1>6. CASE ReadOwner
  <2>1. ref \in Slots /\ owner' \in shown[ref]
    BY <1>6 DEF ReadOwner, Shown, TypeOK
  <2>. QED  BY <1>6, <2>1 DEF ReadOwner, TimeInv, Matched, Following, Led, LedTo, Seen
<1>7. CASE GetNamespace
  <2>1. ns' \in shown[NamespaceSlot]
    BY <1>7 DEF GetNamespace, Shown, TypeOK
  <2>. QED  BY <1>7, <2>1 DEF GetNamespace, TimeInv, Matched, Following, Led, LedTo, Seen
<1>8. CASE NoOwner \/ NamespaceError
  BY <1>1, <1>8 DEF NoOwner, NamespaceError
<1>9. CASE Handle
  <2>1. CASE Finish
    BY <1>1, <2>1
  <2>2. CASE todo' = todo \ {Min(todo)}
             /\ UNCHANGED <<objects, changes, pc, ref, owner, ns, shown>>
    BY <2>2, ShownGrows
  <2>. QED  BY <1>9, <2>1, <2>2 DEF Handle
<1>10. CASE UNCHANGED vars
  BY <1>10, ShownGrows DEF vars, workerVars
<1>. QED
  BY <1>2, <1>3, <1>4, <1>5, <1>6, <1>7, <1>8, <1>9, <1>10 DEF Next, SyncNext

\* However the cluster changes between the reads of a sync, what it pushes was
\* there during the sync, and a pod of that time leads to it.
THEOREM PayloadsAreOfTheirTime == Spec => []PayloadIsOfItsTime
<1>1. Init => TimeInv
  BY TypeInit DEF Init, TimeInv, Matched, Following, Led, Seen
<1>2. TimeInv /\ [Next]_vars => TimeInv'
  BY TimeStep
<1>3. TimeInv => PayloadIsOfItsTime
  <2>. SUFFICES ASSUME TimeInv, pc = "handle"
                PROVE  /\ \E pod \in shown[PodSlot] \ {NoObject} : Match(Current, pod)
                       /\ \E pod \in shown[PodSlot] \ {NoObject} :
                            pod.controller # NoController /\ LedTo(pod.controller, ref)
                       /\ owner \in shown[ref]
                       /\ ns \in shown[NamespaceSlot]
    BY DEF PayloadIsOfItsTime
  <2>1. Min(todo) \in todo
    BY CurrentIsLeft DEF TimeInv
  <2>. QED  BY <2>1 DEF TimeInv, Matched, Led, Seen, Current
<1>. QED  BY <1>1, <1>2, <1>3, PTL DEF Spec
-----------------------------------------------------------------------------
(* What is pushed is well formed *)

\* The owner is an object of one of the five kinds whose listers findOwner asks.
OwnerKind ==
    pc \in {"owner", "namespace", "handle"} => ref[1] \in Direct \cup Range(Intermediate)

KindInv == TypeOK /\ OwnerKind

LEMMA KindStep ==
  ASSUME KindInv, [Next]_vars
  PROVE  KindInv'
<1>. TypeOK /\ TypeOK'
  BY TypeStep DEF KindInv
<1>1. CASE StartSync \/ NoOwner \/ NamespaceError
  BY <1>1 DEF StartSync, NoOwner, NamespaceError, Finish, KindInv, OwnerKind
<1>2. CASE ReadPod
  BY <1>2 DEF ReadPod, KindInv, OwnerKind
<1>3. CASE ReadIntermediate
  <2>1. ref[1] \in DOMAIN Intermediate
    BY <1>3 DEF ReadIntermediate, TypeOK
  <2>2. ref'[1] = Intermediate[ref[1]]
    BY <1>3 DEF ReadIntermediate
  <2>. QED  BY <1>3, <2>1, <2>2 DEF ReadIntermediate, KindInv, OwnerKind, Range
<1>4. CASE ReadOwner \/ GetNamespace
  BY <1>4 DEF ReadOwner, GetNamespace, KindInv, OwnerKind
<1>5. CASE Handle
  BY <1>5 DEF Handle, Finish, KindInv, OwnerKind
<1>6. CASE UNCHANGED workerVars
  BY <1>6 DEF workerVars, KindInv, OwnerKind
<1>. QED
  BY <1>1, <1>2, <1>3, <1>4, <1>5, <1>6 DEF Next, SyncNext, Change, vars

\* Whatever templates, annotations and texts there are, a payload names its
\* environment and its attributes fit.
THEOREM PayloadsAreWellFormed == Spec => []WellFormedPayload
<1>1. Init => KindInv
  BY TypeInit DEF Init, KindInv, OwnerKind
<1>2. KindInv /\ [Next]_vars => KindInv'
  BY KindStep
<1>3. KindInv => WellFormedPayload
  <2>. SUFFICES ASSUME KindInv, pc = "handle", PayloadOf(owner) # Error
                PROVE  WellFormed(PayloadOf(owner))
    BY DEF WellFormedPayload, WellFormed
  <2>1. owner \in Owner
    BY PodReadingAssumption DEF KindInv, OwnerKind, TypeOK
  <2>2. ns \in Namespace
    BY PodReadingAssumption DEF KindInv, TypeOK
  <2>3. Min(todo) \in DOMAIN Listeners
    BY CurrentIsLeft DEF KindInv, TypeOK
  <2>4. AreAttributes(Current.attributes) /\ AreAttributes(Current.deployAttributes)
    BY <2>3, PodReadingAssumption DEF Current, IsListener
  <2>. DEFINE p == PayloadOf(owner)
  <2>5. p = Extract(Current, StatusMapping, owner, ns) /\ p # Error
    BY DEF PayloadOf
  <2>. HIDE DEF p
  <2>6. /\ << >> \notin {p.app, p.cat, p.env}
        /\ \A a \in DOMAIN p.attributes : Len(p.attributes[a]) <= MaxAttributeValueSize
        /\ p.deployment # NoDeployment =>
              \A a \in DOMAIN p.deployment.attributes :
                 Len(p.deployment.attributes[a]) <= MaxAttributeValueSize
    BY <2>1, <2>2, <2>4, <2>5, ExtractFits
  <2>7. WellFormed(p)
    BY <2>6 DEF WellFormed, Fit
  <2>. QED  BY <2>7 DEF p
<1>. QED  BY <1>1, <1>2, <1>3, PTL DEF Spec

LEMMA KindAlways == Spec => []KindInv
<1>1. Init => KindInv
  BY TypeInit DEF Init, KindInv, OwnerKind
<1>2. KindInv /\ [Next]_vars => KindInv'
  BY KindStep
<1>. QED  BY <1>1, <1>2, PTL DEF Spec

\* What Handle is given.
LEMMA HandleInputs ==
  ASSUME KindInv, pc = "handle"
  PROVE  /\ IsListener(Current) /\ owner \in Owner /\ ns \in Namespace
         /\ Variants[ref] \subseteq Owner
         /\ PayloadsAreNot(Error, StatusMapping)
<1>1. ref \in Slots /\ owner \in Variants[ref] /\ ref[1] \in Direct \cup Range(Intermediate)
  BY DEF KindInv, OwnerKind, TypeOK
<1>2. Variants[ref] \subseteq Owner
  BY <1>1, PodReadingAssumption
<1>3. ns \in Namespace
  BY PodReadingAssumption DEF KindInv, TypeOK
<1>4. Min(todo) \in DOMAIN Listeners
  BY CurrentIsLeft DEF KindInv, TypeOK
<1>5. IsListener(Current)
  BY <1>4, PodReadingAssumption DEF Current
<1>6. PayloadsAreNot(Error, StatusMapping)
  BY PodReadingAssumption DEF PayloadsAreNot
<1>. QED  BY <1>1, <1>2, <1>3, <1>5, <1>6

\* Of any owner, a listener without templates needs only the first image.
THEOREM DefaultsNeedOnlyTheImageAlways == Spec => []DefaultsNeedOnlyTheImage
<1>1. KindInv => DefaultsNeedOnlyTheImage
  <2>. SUFFICES ASSUME KindInv, pc = "handle", Unconfigured(Current)
                PROVE  LET Labelled(key) == owner.label[key] # << >> \/ owner.annotation[key] # << >>
                       IN  PayloadOf(owner) = Error <=>
                            \/ ~Labelled("app") /\ MainImage(owner, "name") \in {<< >>, Error}
                            \/ /\ ~Current.ignoreDeployment /\ ~Labelled("version")
                               /\ MainImage(owner, "tag") = Error
    BY DEF DefaultsNeedOnlyTheImage
  <2>1. /\ IsListener(Current) /\ owner \in Owner /\ ns \in Namespace
        /\ PayloadsAreNot(Error, StatusMapping)
    BY HandleInputs
  <2>2. /\ Current.app = NoTemplate /\ Current.cat = NoTemplate /\ Current.env = NoTemplate
        /\ Current.url = NoTemplate /\ Current.version = NoTemplate
        /\ Current.attributes = << >> /\ Current.deployAttributes = << >>
    BY DEF Unconfigured
  <2>. QED  BY <2>1, <2>2, DefaultsFail DEF PayloadOf
<1>. QED  BY <1>1, KindAlways, PTL
-----------------------------------------------------------------------------
(* A new version stays in its environment *)

\* Of an image with a path before its tag, or without a dot there, the pattern
\* finds the name it finds without the tag: no repository reaches past a slash,
\* and none begins before its first dot.
LEMMA NameIsOfBase ==
  ASSUME NEW s \in Image, NEW k, IsBase(s, k), NEW base, base = SubSeq(s, 1, k)
  PROVE  /\ NameStarts(s) = NameStarts(base)
         /\ NameStarts(s) # {} => parseContainerImage(s).name = parseContainerImage(base).name
<1>1. /\ Len(s) \in Nat /\ k \in Nat /\ k <= Len(s)
      /\ base \in Image /\ Len(base) = k /\ \A i \in 1..k : base[i] = s[i]
  BY DEF IsBase, Image
<1>2. k < Len(s) => /\ ~InName(s[k + 1]) /\ ~InWord(s[k + 1]) /\ Class[s[k + 1]] # "."
  BY DEF IsBase, InName, InWord
<1>3. ASSUME NEW n \in 1..k
      PROVE  IsRepository(s, n) <=> IsRepository(base, n)
  <2>. DEFINE Port(t, h) == /\ n > h + 1 /\ Class[t[h + 1]] = ":"
                            /\ \A i \in (h + 2)..n : Class[t[i]] = "digit"
  <2>1. ASSUME NEW h \in 1..n
        PROVE  (IsHost(s, h) <=> IsHost(base, h)) /\ (Port(s, h) <=> Port(base, h))
    <3>1. \A i \in 1..h : base[i] = s[i]
      BY <1>1
    <3>2. \A i \in 1..h : i \in 2..(h - 1) => base[i - 1] = s[i - 1]
      BY <1>1
    <3>3. IsHost(s, h) <=> IsHost(base, h)
      BY <3>1, <3>2 DEF IsHost
    <3>4. \A i \in (h + 2)..n : base[i] = s[i]
      BY <1>1
    <3>5. n > h + 1 => base[h + 1] = s[h + 1]
      BY <1>1
    <3>. QED  BY <3>3, <3>4, <3>5
  <2>2. \A t : IsRepository(t, n) <=> \E h \in 1..n : (n = h \/ Port(t, h)) /\ IsHost(t, h)
    BY DEF IsRepository
  <2>. HIDE DEF Port
  <2>. QED  BY <2>1, <2>2
<1>4. ASSUME NEW b \in NameStarts(s)
      PROVE  b <= k
  <2>. SUFFICES ASSUME b > k PROVE FALSE
    BY <1>1 DEF NameStarts
  <2>1. b \in 1..Len(s) /\ InName(s[b]) /\ (b = 1 \/ IsRepository(s, b - 1))
    BY DEF NameStarts
  <2>2. b # k + 1 /\ k < Len(s)
    BY <1>1, <1>2, <2>1
  <2>3. b - 1 \in Nat /\ b - 1 >= k + 1 /\ IsRepository(s, b - 1)
    BY <1>1, <2>1, <2>2
  <2>4. PICK h \in 1..(b - 1) :
          /\ \/ b - 1 = h
             \/ /\ b - 1 > h + 1 /\ Class[s[h + 1]] = ":"
                /\ \A i \in (h + 2)..(b - 1) : Class[s[i]] = "digit"
          /\ IsHost(s, h)
    BY <2>3 DEF IsRepository
  <2>5. \A i \in 1..h : InWord(s[i]) \/ Class[s[i]] = "."
    BY <2>4 DEF IsHost
  <2>6. CASE \E i \in 1..k : Class[s[i]] = "/"
    <3>1. PICK i \in 1..k : Class[s[i]] = "/"
      BY <2>6
    <3>2. i > h
      BY <1>1, <2>4, <2>5, <3>1 DEF InWord
    <3>3. i \in (h + 1)..(b - 1) /\ i < b - 1
      BY <1>1, <2>3, <2>4, <3>2
    <3>4. Class[s[h + 1]] = ":" /\ \A j \in (h + 2)..(b - 1) : Class[s[j]] = "digit"
      BY <2>4, <3>3
    <3>5. i # h + 1
      BY <3>1, <3>4
    <3>6. i \in (h + 2)..(b - 1)
      BY <2>4, <3>3, <3>5
    <3>. QED  BY <3>1, <3>4, <3>6
  <2>7. CASE \A i \in 1..k : Class[s[i]] # "."
    <3>1. PICK d \in 1..h : Class[s[d]] = "."
      BY <2>4 DEF IsHost
    <3>2. d > k
      BY <1>1, <2>4, <2>7, <3>1
    <3>3. k + 1 \in 1..h
      BY <1>1, <2>4, <3>1, <3>2
    <3>. QED  BY <1>2, <2>2, <2>5, <3>3
  <2>. QED  BY <2>6, <2>7 DEF IsBase
<1>5. NameStarts(s) = NameStarts(base)
  <2>1. ASSUME NEW b \in 1..k
        PROVE  b \in NameStarts(s) <=> b \in NameStarts(base)
    <3>1. b # 1 => b - 1 \in 1..k
      BY <1>1
    <3>2. b \in 1..Len(s) /\ b \in 1..Len(base) /\ base[b] = s[b]
      BY <1>1
    <3>. QED  BY <1>3, <3>1, <3>2 DEF NameStarts
  <2>2. \A b \in NameStarts(s) : b \in 1..k
    BY <1>1, <1>4 DEF NameStarts
  <2>3. \A b \in NameStarts(base) : b \in 1..k
    BY <1>1 DEF NameStarts
  <2>. QED  BY <2>1, <2>2, <2>3
<1>6. ASSUME NameStarts(s) # {}
      PROVE  parseContainerImage(s).name = parseContainerImage(base).name
  <2>1. /\ Begin(s) = Begin(base) /\ Begin(s) \in 1..k
        /\ First(base) \in 1..k /\ Max(NameEnds(base)) \in First(base)..k
        /\ parseContainerImage(s).name = SubSeq(s, First(s), Max(NameEnds(s)))
        /\ parseContainerImage(base).name = SubSeq(base, First(base), Max(NameEnds(base)))
    BY <1>1, <1>5, <1>6, NameIs DEF Begin
  <2>2. First(s) = First(base)
    <3>1. Begin(s) < k => base[Begin(s) + 1] = s[Begin(s) + 1]
      BY <1>1, <2>1
    <3>2. Begin(s) = k => ~(Begin(s) < Len(s) /\ InName(s[Begin(s) + 1]))
      BY <1>1, <1>2
    <3>3. base[Begin(s)] = s[Begin(s)]
      BY <1>1, <2>1
    <3>. QED  BY <1>1, <2>1, <3>1, <3>2, <3>3 DEF First
  <2>. DEFINE f == First(base)
  <2>3. NameEnds(s) = NameEnds(base)
    <3>1. NameEnds(base) \subseteq NameEnds(s)
      <4>. SUFFICES ASSUME NEW i \in NameEnds(base) PROVE i \in NameEnds(s)
        OBVIOUS
      <4>1. i \in f..k /\ \A j \in f..i : InName(base[j])
        BY <1>1 DEF NameEnds
      <4>2. \A j \in f..i : base[j] = s[j]
        BY <1>1, <2>1, <4>1
      <4>. QED  BY <1>1, <2>1, <2>2, <4>1, <4>2 DEF NameEnds
    <3>2. NameEnds(s) \subseteq NameEnds(base)
      <4>. SUFFICES ASSUME NEW i \in NameEnds(s) PROVE i \in NameEnds(base)
        OBVIOUS
      <4>1. i \in f..Len(s) /\ \A j \in f..i : InName(s[j])
        BY <2>2 DEF NameEnds
      <4>2. i <= k
        <5>. SUFFICES ASSUME i > k PROVE FALSE
          BY <1>1, <2>1, <4>1
        <5>1. k + 1 \in f..i /\ k < Len(s)
          BY <1>1, <2>1, <4>1
        <5>. QED  BY <1>2, <4>1, <5>1
      <4>3. \A j \in f..i : base[j] = s[j]
        BY <1>1, <2>1, <4>1, <4>2
      <4>. QED  BY <1>1, <2>1, <4>1, <4>2, <4>3 DEF NameEnds
    <3>. QED  BY <3>1, <3>2
  <2>. DEFINE l == Max(NameEnds(base))
  <2>. HIDE DEF f, l
  <2>4. f \in 1..k /\ l \in f..k
    BY <2>1 DEF f, l
  <2>5. SubSeq(s, f, l) = SubSeq(base, f, l)
    <3>1. \A i \in 1..(l - f + 1) : base[f + i - 1] = s[f + i - 1]
      BY <1>1, <2>4
    <3>2. /\ SubSeq(s, f, l) = [i \in 1..(l - f + 1) |-> s[f + i - 1]]
          /\ SubSeq(base, f, l) = [i \in 1..(l - f + 1) |-> base[f + i - 1]]
      BY <1>1, <2>4 DEF Image
    <3>. QED  BY <3>1, <3>2
  <2>. QED  BY <2>1, <2>2, <2>3, <2>5 DEF f, l
<1>. QED  BY <1>5, <1>6

\* What the versions o and q of a program have in common.
SameProgram(o, q) ==
    /\ q.name = o.name /\ q.env = o.env /\ q.path = o.path
    /\ MainImage(q, "name") = MainImage(o, "name")
    /\ \A key \in Keys \ {"version"} :
        q.label[key] = o.label[key] /\ q.annotation[key] = o.annotation[key]

KeepsAll(t) == \A i \in DOMAIN t : ~NamesVersion(t[i])

LEMMA NewVersionIsSame ==
  ASSUME owner \in Owner, NEW o \in Owner, NewVersion(o)
  PROVE  SameProgram(owner, o)
<1>1. /\ owner.image # NoContainer /\ o.image # NoContainer
      /\ owner.image \in Image /\ o.image \in Image
      /\ SameBase(owner.image, o.image)
  BY DEF NewVersion, Owner
<1>2. o = [owner EXCEPT !.image = o.image, !.status = o.status,
                        !.label["version"] = o.label["version"],
                        !.annotation["version"] = o.annotation["version"],
                        !.deploy = o.deploy]
  BY DEF NewVersion, Zenon
<1>3. /\ o.name = owner.name /\ o.env = owner.env /\ o.path = owner.path
      /\ o.label = [owner.label EXCEPT !["version"] = o.label["version"]]
      /\ o.annotation = [owner.annotation EXCEPT !["version"] = o.annotation["version"]]
  BY <1>2 DEF Owner
<1>4. PICK k : /\ IsBase(owner.image, k) /\ IsBase(o.image, k)
               /\ SubSeq(owner.image, 1, k) = SubSeq(o.image, 1, k)
  BY <1>1 DEF SameBase
<1>5. MainImage(o, "name") = MainImage(owner, "name")
  <2>1. /\ NameStarts(o.image) = NameStarts(owner.image)
        /\ NameStarts(o.image) # {} =>
              parseContainerImage(o.image).name = parseContainerImage(owner.image).name
    <3>. DEFINE base == SubSeq(owner.image, 1, k)
    <3>1. /\ NameStarts(owner.image) = NameStarts(base)
          /\ NameStarts(owner.image) # {} =>
                parseContainerImage(owner.image).name = parseContainerImage(base).name
      BY <1>1, <1>4, NameIsOfBase
    <3>2. base = SubSeq(o.image, 1, k)
      BY <1>4
    <3>. HIDE DEF base
    <3>3. /\ NameStarts(o.image) = NameStarts(base)
          /\ NameStarts(o.image) # {} =>
                parseContainerImage(o.image).name = parseContainerImage(base).name
      BY <1>1, <1>4, <3>2, NameIsOfBase
    <3>. QED  BY <3>1, <3>3
  <2>. QED  BY <1>1, <2>1 DEF MainImage
<1>6. owner.label \in [Keys -> Text] /\ owner.annotation \in [Keys -> Text]
  BY DEF Owner, Map
<1>7. ASSUME NEW key \in Keys \ {"version"}
      PROVE  o.label[key] = owner.label[key] /\ o.annotation[key] = owner.annotation[key]
  BY <1>3, <1>6
<1>. QED  BY <1>3, <1>5, <1>7 DEF SameProgram

LEMMA CallSame ==
  ASSUME NEW o, NEW q, SameProgram(o, q), NEW part, IsPart(part), ~NamesVersion(part),
         NEW n, NEW key, IsKey(key), key # "version", NEW ctx
  PROVE  Call(part, q, n, key, ctx) = Call(part, o, n, key, ctx)
<1>1. CASE part.fn = "text"
  BY <1>1 DEF Call
<1>2. CASE part.fn \in {"label", "annotation"}
  <2>1. part.arg \in Keys \ {"version"}
    BY <1>2 DEF IsPart, NamesVersion, OfKey
  <2>. QED  BY <1>2, <2>1 DEF Call, SameProgram
<1>3. CASE part.fn \in {"nsLabel", "nsAnnotation", "nsDefaultLabel", "nsDefaultAnnotation",
                        "nsName", "nsJsonPath", "context", "invalid"}
  BY <1>3 DEF Call
<1>4. CASE part.fn \in {"defaultLabel", "defaultAnnotation"}
  <2>1. key # NoDefault => key \in Keys \ {"version"}
    BY DEF IsKey
  <2>. QED  BY <1>4, <2>1 DEF Call, SameProgram
<1>5. CASE part.fn \in {"name", "mainImageName", "jsonPath"}
  BY <1>5 DEF Call, SameProgram
<1>6. part.fn # "mainImageTag"
  BY DEF NamesVersion
<1>. QED  BY <1>1, <1>2, <1>3, <1>4, <1>5, <1>6 DEF IsPart, OfKey, OfPath, OfNothing

LEMMA RenderSame ==
  ASSUME NEW o, NEW q, SameProgram(o, q), NEW t, IsTemplate(t), KeepsAll(t),
         NEW n, NEW key, IsKey(key), key # "version", NEW ctx
  PROVE  Render(t, q, n, key, ctx) = Render(t, o, n, key, ctx)
<1>1. \A i \in DOMAIN t : Call(t[i], q, n, key, ctx) = Call(t[i], o, n, key, ctx)
  BY CallSame DEF IsTemplate, KeepsAll
<1>. QED  BY <1>1 DEF Render

LEMMA DefaultsSame ==
  ASSUME NEW o, NEW q, SameProgram(o, q), NEW chain \in Seq(OfNothing \ {"mainImageTag"}),
         NEW n, NEW key, IsKey(key), key # "version"
  PROVE  Defaults(chain, q, n, key) = Defaults(chain, o, n, key)
<1>1. ASSUME NEW i \in DOMAIN chain
      PROVE  /\ Render(Fn(chain[i]), q, n, key, NoContext)
                  = Render(Fn(chain[i]), o, n, key, NoContext)
  <2>. DEFINE part == [fn |-> chain[i], arg |-> ""]
  <2>1. chain[i] \in OfNothing \ {"mainImageTag"}
    OBVIOUS
  <2>2. IsPart(part) /\ ~NamesVersion(part)
    BY <2>1 DEF IsPart, NamesVersion, OfKey, OfPath, OfNothing
  <2>3. Fn(chain[i]) = <<part>>
    BY DEF Fn
  <2>. HIDE DEF part
  <2>4. IsTemplate(<<part>>) /\ KeepsAll(<<part>>)
    BY <2>2 DEF IsTemplate, KeepsAll, Range
  <2>. QED  BY <2>3, <2>4, RenderSame
<1>. QED  BY <1>1 DEF Defaults

LEMMA ValueSame ==
  ASSUME NEW o, NEW q, SameProgram(o, q), NEW t, MayBeTemplate(t),
         t # NoTemplate => KeepsAll(t), NEW chain \in Seq(OfNothing \ {"mainImageTag"}),
         NEW n, NEW key, IsKey(key), key # "version", NEW ctx
  PROVE  Value(t, chain, q, n, key, ctx) = Value(t, chain, o, n, key, ctx)
<1>1. Defaults(chain, q, n, key) = Defaults(chain, o, n, key)
  BY DefaultsSame
<1>2. t # NoTemplate => Render(t, q, n, key, ctx) = Render(t, o, n, key, ctx)
  BY RenderSame DEF MayBeTemplate
<1>. QED  BY <1>1, <1>2 DEF Value

\* The parts of a payload that identify and describe an environment.
LEMMA PartsSame ==
  ASSUME NEW o, NEW q, SameProgram(o, q), NEW l, IsListener(l), KeepsEnvironment(l), NEW n
  PROVE  /\ Application(l, q, n) = Application(l, o, n)
         /\ Category(l, q, n) = Category(l, o, n)
         /\ EnvironmentName(l, q, n) = EnvironmentName(l, o, n)
         /\ EnvironmentUrl(l, q, n) = EnvironmentUrl(l, o, n)
         /\ EnvironmentAttributes(l, q, n) = EnvironmentAttributes(l, o, n)
<1>. DEFINE Others == OfNothing \ {"mainImageTag"}
<1>1. /\ OwnerChain("mainImageName") \in Seq(Others) /\ NamespaceChain("nsName") \in Seq(Others)
      /\ NamespaceChain("name") \in Seq(Others) /\ UrlChain \in Seq(Others)
  BY DEF OfNothing, OwnerChain, NamespaceChain, UrlChain
<1>2. \A key \in {"app", "cat", "environment", "url", NoDefault} : IsKey(key) /\ key # "version"
  BY ExtractionAssumption DEF IsKey
<1>3. /\ MayBeTemplate(l.app) /\ MayBeTemplate(l.cat) /\ MayBeTemplate(l.env)
      /\ MayBeTemplate(l.url)
  BY DEF IsListener
<1>4. /\ l.app # NoTemplate => KeepsAll(l.app)
      /\ l.cat # NoTemplate => KeepsAll(l.cat)
      /\ l.env # NoTemplate => KeepsAll(l.env)
      /\ l.url # NoTemplate => KeepsAll(l.url)
      /\ \A i \in DOMAIN l.attributes : KeepsAll(l.attributes[i].value)
  BY DEF KeepsEnvironment, KeepsAll
<1>. HIDE DEF Others
<1>5. ASSUME NEW t, MayBeTemplate(t), t # NoTemplate => KeepsAll(t), NEW chain \in Seq(Others),
             NEW key \in {"app", "cat", "environment", "url"}
      PROVE  \A ctx : Value(t, chain, q, n, key, ctx) = Value(t, chain, o, n, key, ctx)
  BY <1>2, <1>5, ValueSame DEF Others
<1>6. /\ Application(l, q, n) = Application(l, o, n)
      /\ Category(l, q, n) = Category(l, o, n)
  BY <1>1, <1>3, <1>4, <1>5 DEF Application, Category
<1>7. /\ EnvironmentName(l, q, n) = EnvironmentName(l, o, n)
      /\ EnvironmentUrl(l, q, n) = EnvironmentUrl(l, o, n)
  <2>1. Context(l, q, n) = Context(l, o, n)
    BY <1>6 DEF Context
  <2>. QED  BY <1>1, <1>3, <1>4, <1>5, <2>1 DEF EnvironmentName, EnvironmentUrl
<1>8. EnvironmentAttributes(l, q, n) = EnvironmentAttributes(l, o, n)
  <2>. DEFINE Rendered(i, x) == Render(l.attributes[i].value, x, n, NoDefault, NoContext)
  <2>1. \A i \in DOMAIN l.attributes : Rendered(i, q) = Rendered(i, o)
    BY <1>2, <1>4, RenderSame DEF IsListener, AreAttributes
  <2>2. AttributesFail(l.attributes, q, n) <=> AttributesFail(l.attributes, o, n)
    BY <2>1 DEF AttributesFail
  <2>3. ASSUME NEW a \in Attributes
        PROVE  LET own == {i \in DOMAIN l.attributes : l.attributes[i].name = a}
               IN  own # {} => Rendered(Max(own), q) = Rendered(Max(own), o)
    <3>. DEFINE own == {i \in DOMAIN l.attributes : l.attributes[i].name = a}
    <3>1. DOMAIN l.attributes = 1..Len(l.attributes) /\ Len(l.attributes) \in Nat
      BY DEF IsListener, AreAttributes
    <3>2. own \in SUBSET (1..Len(l.attributes))
      BY <3>1
    <3>. HIDE DEF Rendered
    <3>3. own # {} => Max(own) \in own
      BY <3>1, <3>2, Greatest
    <3>. QED  BY <2>1, <3>3
  <2>4. AttributeTexts(l.attributes, q.env, n.env, q, n)
          = AttributeTexts(l.attributes, o.env, n.env, o, n)
    BY <2>3 DEF AttributeTexts, SameProgram
  <2>. QED  BY <2>2, <2>4 DEF EnvironmentAttributes, SameProgram
<1>. QED  BY <1>6, <1>7, <1>8

\* Whatever the templates, as long as they leave the version out of what
\* describes an environment, deploying a new version leaves none behind.
THEOREM NewVersionsKeepTheirEnvironment == Spec => []NewVersionSameEnvironment
<1>1. KindInv => NewVersionSameEnvironment
  <2>. SUFFICES ASSUME KindInv, pc = "handle", KeepsEnvironment(Current),
                       NEW o \in Variants[ref], NewVersion(o),
                       PayloadOf(owner) # Error, PayloadOf(o) # Error
                PROVE  \A part \in {"app", "cat", "env", "url", "attributes"} :
                         PayloadOf(owner)[part] = PayloadOf(o)[part]
    BY DEF NewVersionSameEnvironment, SameEnvironment
  <2>1. /\ IsListener(Current) /\ owner \in Owner /\ ns \in Namespace /\ o \in Owner
        /\ PayloadsAreNot(Error, StatusMapping)
    BY HandleInputs
  <2>2. SameProgram(owner, o)
    BY <2>1, NewVersionIsSame
  <2>3. /\ Application(Current, o, ns) = Application(Current, owner, ns)
        /\ Category(Current, o, ns) = Category(Current, owner, ns)
        /\ EnvironmentName(Current, o, ns) = EnvironmentName(Current, owner, ns)
        /\ EnvironmentUrl(Current, o, ns) = EnvironmentUrl(Current, owner, ns)
        /\ EnvironmentAttributes(Current, o, ns) = EnvironmentAttributes(Current, owner, ns)
    BY <2>1, <2>2, PartsSame
  <2>4. \A x \in Owner : PayloadOf(x) # Error =>
          /\ PayloadOf(x).app = Application(Current, x, ns)
          /\ PayloadOf(x).cat = Category(Current, x, ns)
          /\ PayloadOf(x).env = EnvironmentName(Current, x, ns)
          /\ PayloadOf(x).url = EnvironmentUrl(Current, x, ns)
          /\ PayloadOf(x).attributes = EnvironmentAttributes(Current, x, ns)
    BY <2>1, ExtractType DEF PayloadOf
  <2>. QED  BY <2>1, <2>3, <2>4
<1>. QED  BY <1>1, KindAlways, PTL
=============================================================================
