---------------------------- MODULE RolloutProofs ----------------------------
(***************************************************************************)
(* Proofs about Rollout, for any templates, replicas, partitions and       *)
(* number of edits.  The status compares totals over the templates, so     *)
(* they rest on what a total is: a fold over a finite set, whose facts go  *)
(* by the smallest counterexample.                                         *)
(***************************************************************************)
EXTENDS Rollout, TLAPS, WellFoundedInduction, FiniteSetTheorems

Pick(s) == CHOOSE x \in s : TRUE

Sums(f, g) ==
    g = [s \in SUBSET Templates |-> IF s = {} THEN 0 ELSE f[Pick(s)] + g[s \ {Pick(s)}]]

Weight(f) == CHOOSE g : Sums(f, g)

LEMMA TotalIsWeight ==
  ASSUME NEW f, DOMAIN f = Templates
  PROVE  Total(f) = Weight(f)[Templates]
BY DEF Total, FoldFunction, FoldFunctionOnSet, MapThenFoldSet, Weight, Sums, Pick

Below == OpToRel(<, Nat)

\* A set of natural numbers that is not empty has a least element.
LEMMA HasLeast ==
  ASSUME NEW S \in SUBSET Nat, S # {}
  PROVE  \E m \in S : \A j \in S : m <= j
<1>1. PICK m \in S : \A j \in S : ~(<<j, m>> \in Below)
  BY WFMin, NatLessThanWellFounded, Zenon DEF Below
<1>2. ASSUME NEW j \in S
      PROVE  m <= j
  <2>1. m \in Nat /\ j \in Nat /\ ~(<<j, m>> \in Below)
    BY <1>1
  <2>2. <<j, m>> \in Below <=> j < m
    BY <2>1 DEF Below, OpToRel
  <2>. QED  BY <2>1, <2>2
<1>. QED  BY <1>2

\* So has a set of sets of templates: one with the fewest elements.
LEMMA HasSmallest ==
  ASSUME NEW B \in SUBSET SUBSET Templates, B # {}
  PROVE  \E s \in B : \A u \in B : Cardinality(s) <= Cardinality(u)
<1>. DEFINE N == {Cardinality(s) : s \in B}
<1>1. \A s \in B : Cardinality(s) \in Nat
  BY RolloutAssumption, FS_Subset, FS_CardinalityType
<1>2. N \in SUBSET Nat /\ N # {}
  BY <1>1
<1>3. PICK m \in N : \A j \in N : m <= j
  BY <1>2, HasLeast
<1>. QED  BY <1>3

\* A template less is a smaller set.
LEMMA Smaller ==
  ASSUME NEW s \in SUBSET Templates, NEW x \in s
  PROVE  /\ s \ {x} \in SUBSET Templates
         /\ Cardinality(s) \in Nat /\ Cardinality(s \ {x}) \in Nat
         /\ Cardinality(s \ {x}) = Cardinality(s) - 1
BY RolloutAssumption, FS_Subset, FS_CardinalityType, FS_RemoveElement

LEMMA Picked ==
  ASSUME NEW s, s # {}
  PROVE  Pick(s) \in s
BY DEF Pick

Small(k) == {s \in SUBSET Templates : Cardinality(s) <= k}

SumsUpTo(f, k, g) ==
    g = [s \in Small(k) |-> IF s = {} THEN 0 ELSE f[Pick(s)] + g[s \ {Pick(s)}]]

\* The recursion of the fold defines a function.
LEMMA SumsExist ==
  ASSUME NEW f
  PROVE  \E g : Sums(f, g)
<1>1. ASSUME NEW k \in Nat
      PROVE  \E g : SumsUpTo(f, k, g)
  <2>. DEFINE Bad == {i \in Nat : ~\E g : SumsUpTo(f, i, g)}
  <2>. SUFFICES ASSUME k \in Bad PROVE FALSE
    OBVIOUS
  <2>1. PICK m \in Bad : \A j \in Bad : m <= j
    BY HasLeast
  <2>2. m \in Nat /\ (\A g : ~SumsUpTo(f, m, g))
        /\ \A j \in Nat : j < m => \E g : SumsUpTo(f, j, g)
    BY <2>1
  <2>3. CASE m = 0
    <3>1. ASSUME NEW s \in Small(0)
          PROVE  s = {}
      BY RolloutAssumption, FS_Subset, FS_CardinalityType, FS_EmptySet DEF Small
    <3>2. SumsUpTo(f, 0, [s \in Small(0) |-> 0])
      BY <3>1 DEF SumsUpTo
    <3>. QED  BY <2>2, <2>3, <3>2
  <2>4. CASE m # 0
    <3>1. PICK h : SumsUpTo(f, m - 1, h)
      BY <2>2, <2>4
    <3>. DEFINE g == [s \in Small(m) |->
                        IF Cardinality(s) <= m - 1 THEN h[s]
                        ELSE IF s = {} THEN 0 ELSE f[Pick(s)] + h[s \ {Pick(s)}]]
    <3>2. ASSUME NEW s \in Small(m), s # {}
          PROVE  /\ s \ {Pick(s)} \in Small(m - 1)
                 /\ g[s \ {Pick(s)}] = h[s \ {Pick(s)}]
      <4>1. s \in SUBSET Templates /\ Cardinality(s) <= m /\ Pick(s) \in s
        BY <3>2, Picked DEF Small
      <4>2. /\ s \ {Pick(s)} \in SUBSET Templates
            /\ Cardinality(s) \in Nat
            /\ Cardinality(s \ {Pick(s)}) = Cardinality(s) - 1
        BY <4>1, Smaller
      <4>3. Cardinality(s \ {Pick(s)}) <= m - 1 /\ Cardinality(s \ {Pick(s)}) <= m
        BY <2>2, <4>1, <4>2
      <4>. QED  BY <4>2, <4>3 DEF Small
    <3>3. ASSUME NEW s \in Small(m)
          PROVE  g[s] = IF s = {} THEN 0 ELSE f[Pick(s)] + g[s \ {Pick(s)}]
      <4>1. CASE Cardinality(s) <= m - 1
        <5>1. s \in Small(m - 1) /\ g[s] = h[s]
          BY <4>1 DEF Small
        <5>2. h[s] = IF s = {} THEN 0 ELSE f[Pick(s)] + h[s \ {Pick(s)}]
          BY <3>1, <5>1 DEF SumsUpTo
        <5>. QED  BY <3>2, <5>1, <5>2
      <4>2. CASE ~(Cardinality(s) <= m - 1)
        BY <3>2, <4>2
      <4>. QED  BY <4>1, <4>2
    <3>. HIDE DEF g
    <3>4. g = [s \in Small(m) |-> IF s = {} THEN 0 ELSE f[Pick(s)] + g[s \ {Pick(s)}]]
      <4>1. g = [s \in Small(m) |-> g[s]]
        BY DEF g
      <4>. QED  BY <3>3, <4>1
    <3>. QED  BY <2>2, <3>4 DEF SumsUpTo
  <2>. QED  BY <2>3, <2>4
<1>2. Cardinality(Templates) \in Nat /\ Small(Cardinality(Templates)) = SUBSET Templates
  BY RolloutAssumption, FS_Subset, FS_CardinalityType DEF Small
<1>. QED  BY <1>1, <1>2 DEF SumsUpTo, Sums

LEMMA WeightIs ==
  ASSUME NEW f, NEW s \in SUBSET Templates
  PROVE  Weight(f)[s] = IF s = {} THEN 0 ELSE f[Pick(s)] + Weight(f)[s \ {Pick(s)}]
<1>1. Sums(f, Weight(f))
  BY SumsExist DEF Weight
<1>. QED  BY <1>1 DEF Sums

LEMMA WeightType ==
  ASSUME NEW f \in Counts, NEW s \in SUBSET Templates
  PROVE  Weight(f)[s] \in Nat
<1>. DEFINE Bad == {u \in SUBSET Templates : Weight(f)[u] \notin Nat}
<1>. SUFFICES ASSUME Bad # {} PROVE FALSE
  OBVIOUS
<1>1. PICK u \in Bad : \A v \in Bad : Cardinality(u) <= Cardinality(v)
  BY HasSmallest
<1>2. u # {}
  BY <1>1, WeightIs
<1>3. Pick(u) \in u /\ u \in SUBSET Templates
  BY <1>2, Picked
<1>4. u \ {Pick(u)} \in SUBSET Templates /\ u \ {Pick(u)} \notin Bad
  BY <1>1, <1>3, Smaller
<1>5. Weight(f)[u \ {Pick(u)}] \in Nat /\ f[Pick(u)] \in Nat
  BY <1>3, <1>4 DEF Counts
<1>6. Weight(f)[u] = f[Pick(u)] + Weight(f)[u \ {Pick(u)}]
  BY <1>2, WeightIs
<1>. QED  BY <1>5, <1>6

\* Any template may be taken first.
LEMMA WeightSplits ==
  ASSUME NEW f \in Counts, NEW s \in SUBSET Templates, NEW x \in s
  PROVE  Weight(f)[s] = f[x] + Weight(f)[s \ {x}]
<1>. DEFINE Splits(u, y) == Weight(f)[u] = f[y] + Weight(f)[u \ {y}]
            Bad == {u \in SUBSET Templates : \E y \in u : ~Splits(u, y)}
<1>. SUFFICES ASSUME Bad # {} PROVE FALSE
  OBVIOUS
<1>1. PICK u \in Bad : \A v \in Bad : Cardinality(u) <= Cardinality(v)
  BY HasSmallest
<1>2. PICK y \in u : ~Splits(u, y)
  BY <1>1
<1>. DEFINE p == Pick(u)
<1>3. p \in u /\ u \in SUBSET Templates /\ Splits(u, p)
  BY <1>2, Picked, WeightIs
<1>. HIDE DEF p
<1>4. y # p
  BY <1>2, <1>3
<1>5. /\ u \ {p} \in SUBSET Templates /\ u \ {p} \notin Bad
      /\ u \ {y} \in SUBSET Templates /\ u \ {y} \notin Bad
  <2>1. ASSUME NEW z \in u
        PROVE  u \ {z} \in SUBSET Templates /\ u \ {z} \notin Bad
    <3>1. /\ Cardinality(u) \in Nat /\ Cardinality(u \ {z}) \in Nat
          /\ Cardinality(u \ {z}) = Cardinality(u) - 1
      BY <1>3, Smaller
    <3>2. ~(Cardinality(u) <= Cardinality(u \ {z}))
      BY <3>1
    <3>. HIDE DEF Bad
    <3>3. u \ {z} \notin Bad
      BY <1>1, <3>2
    <3>. QED  BY <1>3, <3>3
  <2>. QED  BY <1>2, <1>3, <2>1
<1>6. Splits(u \ {p}, y) /\ Splits(u \ {y}, p)
  BY <1>2, <1>3, <1>4, <1>5
<1>. DEFINE rest == Weight(f)[(u \ {p}) \ {y}]
<1>7. (u \ {p}) \ {y} = (u \ {y}) \ {p}
  OBVIOUS
<1>8. /\ Weight(f)[u] = f[p] + Weight(f)[u \ {p}]
      /\ Weight(f)[u \ {p}] = f[y] + rest
      /\ Weight(f)[u \ {y}] = f[p] + rest
  BY <1>3, <1>6, <1>7
<1>9. f[p] \in Nat /\ f[y] \in Nat /\ rest \in Nat
  BY <1>3, <1>5, WeightType DEF Counts
<1>10. Weight(f)[u] # f[y] + Weight(f)[u \ {y}]
  BY <1>2
<1>. HIDE DEF rest
<1>. QED  BY <1>8, <1>9, <1>10

LEMMA WeightCompares ==
  ASSUME NEW f \in Counts, NEW h \in Counts, NEW s \in SUBSET Templates,
         \A t \in s : f[t] <= h[t]
  PROVE  Weight(f)[s] <= Weight(h)[s]
<1>. DEFINE Bad == {u \in SUBSET s : ~(Weight(f)[u] <= Weight(h)[u])}
<1>. SUFFICES ASSUME Bad # {} PROVE FALSE
  OBVIOUS
<1>1. PICK u \in Bad : \A v \in Bad : Cardinality(u) <= Cardinality(v)
  <2>1. Bad \in SUBSET SUBSET Templates
    OBVIOUS
  <2>. QED  BY <2>1, HasSmallest
<1>2. u # {}
  BY <1>1, WeightIs
<1>. DEFINE p == Pick(u)
<1>3. p \in u /\ u \in SUBSET Templates
  BY <1>2, Picked
<1>. HIDE DEF p
<1>4. u \ {p} \in SUBSET Templates /\ u \ {p} \in SUBSET s /\ u \ {p} \notin Bad
  BY <1>1, <1>3, Smaller
<1>. DEFINE a == Weight(f)[u \ {p}]
            b == Weight(h)[u \ {p}]
<1>5. a <= b /\ a \in Nat /\ b \in Nat
  BY <1>4, WeightType
<1>6. f[p] \in Nat /\ h[p] \in Nat /\ f[p] <= h[p]
  BY <1>3 DEF Counts
<1>7. Weight(f)[u] = f[p] + a /\ Weight(h)[u] = h[p] + b
  BY <1>3, WeightSplits
<1>8. ~(Weight(f)[u] <= Weight(h)[u])
  BY <1>1
<1>. HIDE DEF a, b
<1>. QED  BY <1>5, <1>6, <1>7, <1>8

LEMMA WeightOfNothing ==
  ASSUME NEW f \in Counts, NEW s \in SUBSET Templates, \A t \in s : f[t] = 0
  PROVE  Weight(f)[s] = 0
<1>. DEFINE Bad == {u \in SUBSET s : Weight(f)[u] # 0}
<1>. SUFFICES ASSUME Bad # {} PROVE FALSE
  OBVIOUS
<1>1. PICK u \in Bad : \A v \in Bad : Cardinality(u) <= Cardinality(v)
  <2>1. Bad \in SUBSET SUBSET Templates
    OBVIOUS
  <2>. QED  BY <2>1, HasSmallest
<1>2. u # {}
  BY <1>1, WeightIs
<1>. DEFINE p == Pick(u)
<1>3. p \in u /\ u \in SUBSET Templates
  BY <1>2, Picked
<1>. HIDE DEF p
<1>4. u \ {p} \in SUBSET s /\ u \ {p} \notin Bad
  BY <1>1, <1>3, Smaller
<1>5. Weight(f)[u] = f[p] + Weight(f)[u \ {p}]
  BY <1>3, WeightSplits
<1>6. f[p] = 0 /\ Weight(f)[u \ {p}] = 0
  BY <1>3, <1>4
<1>. QED  BY <1>1, <1>5, <1>6
-----------------------------------------------------------------------------
(* Totals *)

LEMMA TotalType ==
  ASSUME NEW f \in Counts
  PROVE  Total(f) \in Nat
BY TotalIsWeight, WeightType DEF Counts

\* The pods of one template and the others.
LEMMA TotalSplits ==
  ASSUME NEW f \in Counts, NEW t \in Templates
  PROVE  /\ Total(f) = f[t] + Weight(f)[Templates \ {t}]
         /\ f[t] \in Nat /\ Weight(f)[Templates \ {t}] \in Nat
BY TotalIsWeight, WeightSplits, WeightType DEF Counts

LEMMA TotalBounds ==
  ASSUME NEW f \in Counts, NEW t \in Templates
  PROVE  f[t] <= Total(f) /\ f[t] \in Nat /\ Total(f) \in Nat
<1>. DEFINE a == Weight(f)[Templates \ {t}]
<1>1. Total(f) = f[t] + a /\ f[t] \in Nat /\ a \in Nat
  BY TotalSplits
<1>. HIDE DEF a
<1>. QED  BY <1>1

LEMMA TotalExcept ==
  ASSUME NEW f \in Counts, NEW t \in Templates, NEW n \in Nat
  PROVE  Total([f EXCEPT ![t] = n]) = Total(f) - f[t] + n
<1>. DEFINE h == [f EXCEPT ![t] = n]
            others == Templates \ {t}
            a == Weight(f)[others]
            b == Weight(h)[others]
<1>1. h \in Counts /\ h[t] = n /\ \A u \in others : h[u] = f[u] /\ f[u] \in Nat
  BY DEF Counts
<1>. HIDE DEF h
<1>2. \A u \in others : h[u] <= f[u] /\ f[u] <= h[u]
  BY <1>1
<1>3. a <= b /\ b <= a
  BY <1>1, <1>2, WeightCompares
<1>4. Total(f) = f[t] + a /\ f[t] \in Nat /\ a \in Nat
  BY TotalSplits
<1>5. Total(h) = n + b /\ b \in Nat
  BY <1>1, TotalSplits
<1>. HIDE DEF a, b
<1>6. Total(h) = Total(f) - f[t] + n
  BY <1>3, <1>4, <1>5
<1>. QED  BY <1>6 DEF h

LEMMA TotalCompares ==
  ASSUME NEW f \in Counts, NEW h \in Counts, \A t \in Templates : f[t] <= h[t]
  PROVE  Total(f) <= Total(h)
BY TotalIsWeight, WeightCompares DEF Counts

\* All pods are of one template exactly if there is none of another.
LEMMA TotalOfOne ==
  ASSUME NEW f \in Counts, NEW t \in Templates
  PROVE  Total(f) <= f[t] <=> \A u \in Templates \ {t} : f[u] = 0
<1>. DEFINE others == Templates \ {t}
            a == Weight(f)[others]
<1>1. Total(f) = f[t] + a /\ f[t] \in Nat /\ a \in Nat
  BY TotalSplits
<1>2. ASSUME \A u \in others : f[u] = 0
      PROVE  Total(f) <= f[t]
  <2>1. a = 0
    BY <1>2, WeightOfNothing
  <2>. HIDE DEF a
  <2>. QED  BY <1>1, <2>1
<1>3. ASSUME Total(f) <= f[t], NEW u \in others
      PROVE  f[u] = 0
  <2>. DEFINE b == Weight(f)[others \ {u}]
  <2>1. a = f[u] + b
    BY WeightSplits
  <2>2. f[u] \in Nat /\ b \in Nat
    BY WeightType DEF Counts
  <2>. HIDE DEF a, b
  <2>. QED  BY <1>1, <1>3, <2>1, <2>2
<1>. QED  BY <1>2, <1>3
-----------------------------------------------------------------------------
(* The inductive invariant *)

\* The status counts what was seen when it was written.
Snapshot ==
    /\ \A t \in Templates : seen.ready[t] <= seen.pods[t]
    /\ status.replicas = Total(seen.pods)
    /\ status.updated = seen.pods[seen.template]
    /\ status.ready = Total(seen.ready)
    /\ status.observed # 0 => status.update = seen.template

\* A status of the last generation is of the template and the replicas of the
\* spec.
Fresh ==
    /\ spec.generation > 0
    /\ status.observed = spec.generation =>
        /\ seen.template = spec.template
        /\ spec.kind # "DaemonSet" => status.desired = spec.replicas

\* A deadline passed with the pods that were seen.
Deadline ==
    status.timedOut =>
        /\ spec.kind = "Deployment"
        /\ \/ seen.ready[seen.template] < status.desired
           \/ Total(seen.pods) > seen.pods[seen.template]

\* A daemon set has at most one pod on each node.
Nodes ==
    spec.kind = "DaemonSet" =>
        /\ Total(pods) <= spec.replicas
        /\ Total(seen.pods) <= status.desired

OnlyOf(t, counts) == \A u \in Templates \ {t} : counts[u] = 0

\* While a stateful set updates, its current revision is a template it had;
\* once that is the last one, no pod of another is left.
Revisions ==
    spec.kind = "StatefulSet" =>
        /\ status.current \in used \cup {NoTemplate}
        /\ status.current = NoTemplate => \A t \in Templates : pods[t] = 0
        /\ status.current = spec.template => OnlyOf(spec.template, pods)
        /\ status.current = status.update => OnlyOf(seen.template, seen.pods)

Inv == TypeOK /\ Snapshot /\ Fresh /\ Deadline /\ Nodes

\* What the conjuncts of TypeOK say of the counts.
LEMMA CountsType ==
  ASSUME TypeOK
  PROVE  /\ pods \in Counts /\ ready \in Counts
         /\ seen.pods \in Counts /\ seen.ready \in Counts
         /\ Total(pods) \in Nat /\ Total(ready) \in Nat
         /\ Total(seen.pods) \in Nat /\ Total(seen.ready) \in Nat
         /\ \A t \in Templates : /\ pods[t] \in Nat /\ ready[t] \in Nat
                                 /\ seen.pods[t] \in Nat /\ seen.ready[t] \in Nat
         /\ spec.template \in Templates /\ seen.template \in Templates
<1>1. /\ pods \in Counts /\ ready \in Counts
      /\ seen.pods \in Counts /\ seen.ready \in Counts
      /\ spec.template \in Templates /\ seen.template \in Templates
  BY DEF TypeOK, SpecType
<1>2. \A f \in Counts, t \in Templates : f[t] \in Nat
  BY DEF Counts
<1>. QED  BY <1>1, <1>2, TotalType

\* What is computed is one of the five statuses.
LEMMA OneOfFive ==
  ASSUME NEW sp, NEW st, sp.kind \in Observed
  PROVE  MetaStatus([spec |-> sp, status |-> st]) \in EnvironmentStatus
<1>. DEFINE d == [spec |-> sp, status |-> st]
<1>1. d.spec.kind \in {"Deployment", "DaemonSet", "StatefulSet"}
  BY RolloutAssumption DEF Kinds
<1>. HIDE DEF d
<1>2. DeploymentStatus(d) \in EnvironmentStatus
  BY DEF DeploymentStatus, EnvironmentStatus
<1>3. DaemonSetStatus(d) \in EnvironmentStatus
  BY DEF DaemonSetStatus, EnvironmentStatus
<1>4. StatefulSetStatus(d) \in EnvironmentStatus
  BY DEF StatefulSetStatus, EnvironmentStatus
<1>5. MetaStatus(d) \in EnvironmentStatus
  BY <1>1, <1>2, <1>3, <1>4 DEF MetaStatus
<1>. QED  BY <1>5 DEF d

\* A pod that stops leaves the counts in order.
LEMMA StoppedType ==
  ASSUME TypeOK, NEW t \in Templates, pods[t] > 0, Stopped(t)
  PROVE  /\ pods' \in Counts /\ ready' \in Counts
         /\ \A u \in Templates : ready'[u] <= pods'[u] /\ pods'[u] <= pods[u]
         /\ Total(pods') = Total(pods) - 1
<1>1. /\ pods \in Counts /\ ready \in Counts
      /\ \A u \in Templates : pods[u] \in Nat /\ ready[u] \in Nat /\ ready[u] <= pods[u]
  BY CountsType DEF TypeOK
<1>2. PICK r \in {ready[t], ready[t] - 1} :
        r \in 0..(pods[t] - 1) /\ ready' = [ready EXCEPT ![t] = r]
  BY DEF Stopped
<1>3. pods' = [pods EXCEPT ![t] = pods[t] - 1] /\ pods[t] - 1 \in Nat
  BY <1>1 DEF Stopped
<1>4. r \in Nat /\ r <= pods[t] - 1
  BY <1>1, <1>2
<1>5. pods' \in Counts /\ ready' \in Counts
  BY <1>1, <1>2, <1>3, <1>4 DEF Counts
<1>6. ASSUME NEW u \in Templates
      PROVE  ready'[u] <= pods'[u] /\ pods'[u] <= pods[u]
  BY <1>1, <1>2, <1>3, <1>4 DEF Counts
<1>7. Total(pods') = Total(pods) - 1
  <2>1. Total(pods') = Total(pods) - pods[t] + (pods[t] - 1)
    BY <1>1, <1>3, TotalExcept
  <2>2. Total(pods) \in Nat /\ pods[t] \in Nat
    BY <1>1, TotalType
  <2>. QED  BY <2>1, <2>2
<1>. QED  BY <1>5, <1>6, <1>7

LEMMA StartedType ==
  ASSUME TypeOK, NEW t \in Templates, pods' = [pods EXCEPT ![t] = @ + 1]
  PROVE  /\ pods' \in Counts
         /\ \A u \in Templates : ready[u] <= pods'[u]
         /\ \A u \in Templates \ {t} : pods'[u] = pods[u]
         /\ Total(pods') = Total(pods) + 1
<1>1. /\ pods \in Counts
      /\ \A u \in Templates : pods[u] \in Nat /\ ready[u] \in Nat /\ ready[u] <= pods[u]
  BY CountsType DEF TypeOK
<1>2. pods' = [pods EXCEPT ![t] = pods[t] + 1] /\ pods[t] + 1 \in Nat
  BY <1>1
<1>3. pods' \in Counts
  BY <1>1, <1>2 DEF Counts
<1>4. Total(pods') = Total(pods) + 1
  <2>1. Total([pods EXCEPT ![t] = pods[t] + 1]) = Total(pods) - pods[t] + (pods[t] + 1)
    BY <1>1, <1>2, TotalExcept
  <2>2. Total(pods) \in Nat /\ pods[t] \in Nat
    BY <1>1, TotalType
  <2>. QED  BY <1>2, <2>1, <2>2
<1>5. \A u \in Templates : pods'[u] = IF u = t THEN pods[t] + 1 ELSE pods[u]
  BY <1>1, <1>2 DEF Counts
<1>6. \A u \in Templates : ready[u] <= pods'[u]
  BY <1>1, <1>5
<1>. QED  BY <1>3, <1>4, <1>5, <1>6

\* What is written is what is seen.
LEMMA Written ==
  ASSUME TypeOK, NEW late \in BOOLEAN, WriteStatus(late)
  PROVE  /\ status' \in StatusType
         /\ status'.observed = spec.generation /\ status'.replicas = Total(pods)
         /\ status'.desired = spec.replicas /\ status'.updated = pods[spec.template]
         /\ status'.ready = Total(ready) /\ status'.timedOut = late
         /\ status'.current = CurrentRevision /\ status'.update = spec.template
         /\ seen' \in [template : Templates, pods : Counts, ready : Counts]
         /\ seen'.template = spec.template /\ seen'.pods = pods /\ seen'.ready = ready
<1>1. CurrentRevision \in Templates \cup {NoTemplate}
  BY CountsType DEF CurrentRevision, TypeOK, StatusType
<1>2. spec.generation \in Nat /\ spec.replicas \in Nat
  BY DEF TypeOK, SpecType
<1>. QED  BY <1>1, <1>2, CountsType DEF WriteStatus, StatusType
-----------------------------------------------------------------------------
(* Every step keeps it *)

LEMMA KindStays ==
  ASSUME TypeOK, [Next]_vars
  PROVE  /\ spec'.kind = spec.kind
         /\ \/ UNCHANGED statusVars
            \/ \E late \in BOOLEAN : WriteStatus(late)
<1>1. spec'.kind = spec.kind
  BY DEF Next, TypeOK, SpecType, Edit, Scale, AddNode, RemoveNode, StartPod, StopPod,
         PodReady, PodFails, WriteStatus, specVars, vars
<1>2. \/ UNCHANGED statusVars
      \/ \E late \in BOOLEAN : WriteStatus(late)
  BY DEF Next, Edit, Scale, AddNode, RemoveNode, StartPod, StopPod,
         PodReady, PodFails, vars
<1>. QED  BY <1>1, <1>2

LEMMA TypeStep ==
  ASSUME TypeOK, Nodes, [Next]_vars
  PROVE  TypeOK'
<1>. USE RolloutAssumption
<1>1. spec'.kind = spec.kind /\ spec.kind \in Observed
  BY KindStays DEF TypeOK, SpecType
<1>2. Status' \in EnvironmentStatus
  BY <1>1, OneOfFive DEF Status
<1>3. /\ pods \in Counts /\ ready \in Counts
      /\ \A t \in Templates : ready[t] <= pods[t] /\ ready[t] \in Nat /\ pods[t] \in Nat
  BY CountsType DEF TypeOK
<1>4. /\ spec.generation \in Nat /\ status.observed \in Nat /\ spec.replicas \in Nat
      /\ status.observed <= spec.generation
  BY DEF TypeOK, SpecType, StatusType
<1>5. ASSUME NEW t \in Templates, Edit(t)
      PROVE  TypeOK'
  <2>1. spec' \in SpecType /\ spec'.template = t /\ spec'.generation = spec.generation + 1
    <3>1. spec.generation + 1 \in Nat /\ spec \in SpecType
      BY <1>4 DEF TypeOK
    <3>2. spec' = [spec EXCEPT !.template = t, !.generation = spec.generation + 1]
      BY <1>5 DEF Edit
    <3>. HIDE RolloutAssumption
    <3>. QED  BY <3>1, <3>2 DEF SpecType
  <2>2. status.observed <= spec.generation + 1
    BY <1>4
  <2>. QED  BY <1>2, <1>5, <2>1, <2>2 DEF Edit, TypeOK, statusVars, podVars
<1>6. ASSUME NEW n \in 0..MaxReplicas, Scale(n)
      PROVE  TypeOK'
  <2>1. /\ spec' \in SpecType /\ spec'.template = spec.template
        /\ spec'.generation = spec.generation + 1
    <3>1. spec.generation + 1 \in Nat /\ spec \in SpecType /\ n \in Nat
      BY <1>4 DEF TypeOK
    <3>2. spec' = [spec EXCEPT !.replicas = n, !.generation = spec.generation + 1]
      BY <1>6 DEF Scale
    <3>. HIDE RolloutAssumption
    <3>. QED  BY <3>1, <3>2 DEF SpecType
  <2>2. status.observed <= spec.generation + 1
    BY <1>4
  <2>. QED  BY <1>2, <1>6, <2>1, <2>2 DEF Scale, TypeOK, statusVars, podVars
<1>7. CASE AddNode
  <2>1. /\ spec' \in SpecType /\ spec'.template = spec.template
        /\ spec'.generation = spec.generation
    BY <1>7 DEF AddNode, TypeOK, SpecType
  <2>. QED  BY <1>2, <1>7, <2>1 DEF AddNode, TypeOK, statusVars, podVars
<1>8. ASSUME NEW t \in Templates, RemoveNode(t)
      PROVE  TypeOK'
  <2>1. spec.replicas - 1 \in Nat
    <3>1. pods[t] <= Total(pods)
      BY <1>3, TotalBounds
    <3>2. Total(pods) <= spec.replicas /\ pods[t] > 0 /\ Total(pods) \in Nat
      BY <1>3, <1>8, TotalType DEF RemoveNode, Nodes
    <3>. QED  BY <1>3, <1>4, <3>1, <3>2
  <2>2. /\ spec' \in SpecType /\ spec'.template = spec.template
        /\ spec'.generation = spec.generation
    BY <1>8, <2>1 DEF RemoveNode, TypeOK, SpecType
  <2>3. /\ pods' \in Counts /\ ready' \in Counts
        /\ \A u \in Templates : ready'[u] <= pods'[u]
    BY <1>8, StoppedType DEF RemoveNode
  <2>. QED  BY <1>2, <1>8, <2>2, <2>3 DEF RemoveNode, TypeOK, statusVars
<1>9. ASSUME NEW t \in Templates, StartPod(t)
      PROVE  TypeOK'
  <2>1. pods' \in Counts /\ \A u \in Templates : ready[u] <= pods'[u]
    BY <1>9, StartedType DEF StartPod
  <2>. QED  BY <1>2, <1>9, <2>1 DEF StartPod, TypeOK, statusVars, specVars
<1>10. ASSUME NEW t \in Templates, StopPod(t)
       PROVE  TypeOK'
  <2>1. /\ pods' \in Counts /\ ready' \in Counts
        /\ \A u \in Templates : ready'[u] <= pods'[u]
    BY <1>10, StoppedType DEF StopPod
  <2>. QED  BY <1>2, <1>10, <2>1 DEF StopPod, TypeOK, statusVars, specVars
<1>11. ASSUME NEW t \in Templates, PodReady(t) \/ PodFails(t)
       PROVE  TypeOK'
  <2>1. ready' \in Counts /\ \A u \in Templates : ready'[u] <= pods[u]
    <3>1. CASE PodReady(t)
      BY <1>3, <3>1 DEF PodReady, Counts
    <3>2. CASE PodFails(t)
      BY <1>3, <3>2 DEF PodFails, Counts
    <3>. QED  BY <1>11, <3>1, <3>2
  <2>2. breaks' \in 0..MaxBreaks /\ UNCHANGED <<pods, specVars, statusVars>>
    BY <1>11 DEF PodReady, PodFails, TypeOK
  <2>. QED  BY <1>2, <2>1, <2>2 DEF TypeOK, statusVars, specVars
<1>12. ASSUME NEW late \in BOOLEAN, WriteStatus(late)
       PROVE  TypeOK'
  <2>1. /\ status' \in StatusType /\ status'.observed <= spec.generation
        /\ seen' \in [template : Templates, pods : Counts, ready : Counts]
    BY <1>4, <1>12, Written
  <2>2. UNCHANGED <<specVars, podVars>>
    BY <1>12 DEF WriteStatus
  <2>. QED  BY <1>2, <2>1, <2>2 DEF TypeOK, specVars, podVars
<1>13. CASE UNCHANGED vars
  BY <1>2, <1>13 DEF vars, specVars, statusVars, podVars, TypeOK
<1>. QED
  BY <1>5, <1>6, <1>7, <1>8, <1>9, <1>10, <1>11, <1>12, <1>13 DEF Next

LEMMA SnapshotStep ==
  ASSUME TypeOK, Snapshot, [Next]_vars
  PROVE  Snapshot'
<1>1. CASE UNCHANGED statusVars
  BY <1>1 DEF Snapshot, statusVars
<1>2. ASSUME NEW late \in BOOLEAN, WriteStatus(late)
      PROVE  Snapshot'
  <2>1. \A t \in Templates : ready[t] <= pods[t]
    BY DEF TypeOK
  <2>. QED  BY <1>2, <2>1, Written DEF Snapshot
<1>. QED  BY <1>1, <1>2, KindStays

LEMMA FreshStep ==
  ASSUME TypeOK, Fresh, [Next]_vars
  PROVE  Fresh'
<1>1. /\ spec.generation \in Nat /\ status.observed \in Nat /\ spec \in SpecType
      /\ status.observed <= spec.generation
  BY DEF TypeOK, SpecType, StatusType
<1>2. ASSUME UNCHANGED statusVars, spec'.generation = spec.generation + 1
      PROVE  Fresh'
  <2>1. status.observed # spec.generation + 1 /\ spec.generation + 1 > 0
    BY <1>1
  <2>. QED  BY <1>2, <2>1 DEF Fresh, statusVars
<1>3. ASSUME UNCHANGED statusVars, spec'.generation = spec.generation,
             spec'.kind = spec.kind, spec'.template = spec.template,
             spec.kind # "DaemonSet" => spec'.replicas = spec.replicas
      PROVE  Fresh'
  BY <1>3 DEF Fresh, statusVars
<1>4. ASSUME NEW t \in Templates, Edit(t)
      PROVE  Fresh'
  BY <1>1, <1>2, <1>4 DEF Edit, SpecType
<1>5. ASSUME NEW n \in 0..MaxReplicas, Scale(n)
      PROVE  Fresh'
  BY <1>1, <1>2, <1>5 DEF Scale, SpecType
<1>6. CASE AddNode
  BY <1>1, <1>3, <1>6 DEF AddNode, SpecType
<1>7. ASSUME NEW t \in Templates, RemoveNode(t)
      PROVE  Fresh'
  BY <1>1, <1>3, <1>7 DEF RemoveNode, SpecType
<1>8. ASSUME UNCHANGED <<specVars, statusVars>>
      PROVE  Fresh'
  BY <1>3, <1>8 DEF specVars
<1>9. ASSUME NEW late \in BOOLEAN, WriteStatus(late)
      PROVE  Fresh'
  <2>1. spec' = spec
    BY <1>9 DEF WriteStatus, specVars
  <2>. QED  BY <1>9, <2>1, Written DEF Fresh
<1>. QED
  BY <1>4, <1>5, <1>6, <1>7, <1>8, <1>9
  DEF Next, StartPod, StopPod, PodReady, PodFails, vars

LEMMA DeadlineStep ==
  ASSUME TypeOK, Deadline, [Next]_vars
  PROVE  Deadline'
<1>1. spec'.kind = spec.kind
  BY KindStays
<1>2. CASE UNCHANGED statusVars
  BY <1>1, <1>2 DEF Deadline, statusVars
<1>3. ASSUME WriteStatus(FALSE)
      PROVE  Deadline'
  BY <1>3, Written DEF Deadline
<1>4. ASSUME WriteStatus(TRUE)
      PROVE  Deadline'
  <2>1. spec.kind = "Deployment" /\ ~Complete
    BY <1>4 DEF WriteStatus, Late
  <2>2. ready[spec.template] < spec.replicas \/ Total(pods) > pods[spec.template]
    <3>1. /\ pods[spec.template] <= Total(pods) /\ Total(pods) \in Nat
          /\ pods[spec.template] \in Nat
      BY CountsType, TotalBounds
    <3>2. ready[spec.template] \in Nat /\ spec.replicas \in Nat
      BY CountsType DEF TypeOK, SpecType
    <3>. QED  BY <2>1, <3>1, <3>2 DEF Complete, Outgoing
  <2>. QED  BY <1>1, <1>4, <2>1, <2>2, Written DEF Deadline
<1>. QED  BY <1>2, <1>3, <1>4, KindStays

LEMMA NodesStep ==
  ASSUME TypeOK, Nodes, [Next]_vars
  PROVE  Nodes'
<1>. SUFFICES ASSUME spec.kind = "DaemonSet"
              PROVE  /\ Total(pods') <= spec'.replicas
                     /\ Total(seen'.pods) <= status'.desired
  BY KindStays DEF Nodes
<1>1. /\ Total(pods) <= spec.replicas /\ Total(seen.pods) <= status.desired
      /\ Total(pods) \in Nat /\ spec.replicas \in Nat /\ spec \in SpecType
  BY CountsType DEF Nodes, TypeOK, SpecType
<1>2. Total(seen'.pods) <= status'.desired
  <2>1. CASE UNCHANGED statusVars
    BY <1>1, <2>1 DEF statusVars
  <2>2. ASSUME NEW late \in BOOLEAN, WriteStatus(late)
        PROVE  Total(seen'.pods) <= status'.desired
    BY <1>1, <2>2, Written
  <2>. QED  BY <2>1, <2>2, KindStays
<1>3. ASSUME NEW t \in Templates, Edit(t)
      PROVE  Total(pods') <= spec'.replicas
  BY <1>1, <1>3 DEF Edit, SpecType, podVars
<1>4. ASSUME AddNode
      PROVE  Total(pods') <= spec'.replicas
  <2>1. spec'.replicas = spec.replicas + 1 /\ pods' = pods
    BY <1>1, <1>4 DEF AddNode, SpecType, podVars
  <2>. QED  BY <1>1, <2>1
<1>5. ASSUME NEW t \in Templates, RemoveNode(t)
      PROVE  Total(pods') <= spec'.replicas
  <2>1. Total(pods') = Total(pods) - 1
    BY <1>5, StoppedType DEF RemoveNode
  <2>2. spec'.replicas = spec.replicas - 1
    BY <1>1, <1>5 DEF RemoveNode, SpecType
  <2>. QED  BY <1>1, <2>1, <2>2
<1>6. ASSUME NEW t \in Templates, StartPod(t)
      PROVE  Total(pods') <= spec'.replicas
  <2>1. Total(pods) < spec.replicas /\ Total(pods') = Total(pods) + 1 /\ spec' = spec
    BY <1>6, StartedType DEF StartPod, specVars
  <2>. QED  BY <1>1, <2>1
<1>7. ASSUME NEW t \in Templates, StopPod(t)
      PROVE  Total(pods') <= spec'.replicas
  <2>1. Total(pods') = Total(pods) - 1 /\ spec' = spec
    BY <1>7, StoppedType DEF StopPod, specVars
  <2>. QED  BY <1>1, <2>1
<1>8. ASSUME UNCHANGED <<pods, specVars>>
      PROVE  Total(pods') <= spec'.replicas
  BY <1>1, <1>8 DEF specVars
<1>9. Total(pods') <= spec'.replicas
  BY <1>3, <1>4, <1>5, <1>6, <1>7, <1>8
  DEF Next, Scale, PodReady, PodFails, WriteStatus, podVars, vars
<1>. QED  BY <1>2, <1>9

LEMMA InvInit == Init => Inv
<1>. SUFFICES ASSUME Init PROVE Inv
  OBVIOUS
<1>. USE RolloutAssumption
<1>1. /\ spec \in SpecType /\ spec.generation = 1 /\ spec.kind \in Observed
      /\ spec.template \in Templates
  <2>1. spec \in [kind : Observed, replicas : 0..MaxReplicas, rolling : Strategies,
                  partition : Partitions, template : Templates, generation : {1}]
    BY DEF Init
  <2>2. /\ 0..MaxReplicas \subseteq Nat /\ {1} \subseteq Nat
        /\ Strategies \subseteq BOOLEAN /\ Partitions \subseteq Nat
    OBVIOUS
  <2>3. spec \in SpecType
    BY <2>1, <2>2 DEF SpecType
  <2>. QED  BY <2>1, <2>3
<1>2. /\ pods \in Counts /\ ready \in Counts
      /\ \A t \in Templates : pods[t] = 0 /\ ready[t] = 0
  BY DEF Init, Counts
<1>3. Total(pods) = 0 /\ Total(ready) = 0
  <2>1. \A f \in Counts : (\A t \in Templates : f[t] = 0) => Total(f) = 0
    BY TotalIsWeight, WeightOfNothing DEF Counts
  <2>. QED  BY <1>2, <2>1
<1>4. /\ seen = [template |-> spec.template, pods |-> pods, ready |-> ready]
      /\ status = [observed |-> 0, replicas |-> 0, desired |-> 0, updated |-> 0,
                   ready |-> 0, timedOut |-> FALSE,
                   current |-> NoTemplate, update |-> NoTemplate]
      /\ used = {spec.template} /\ edits = 0 /\ breaks = 0
  BY DEF Init
<1>5. TypeOK
  <2>1. Status \in EnvironmentStatus
    BY <1>1, OneOfFive DEF Status
  <2>2. status \in StatusType
    BY <1>4 DEF StatusType
  <2>3. seen \in [template : Templates, pods : Counts, ready : Counts]
    BY <1>1, <1>2, <1>4
  <2>4. \A t \in Templates : ready[t] <= pods[t]
    BY <1>2
  <2>5. status.observed <= spec.generation /\ edits \in 0..MaxEdits /\ breaks \in 0..MaxBreaks
    BY <1>1, <1>4
  <2>. QED  BY <1>1, <1>2, <1>4, <2>1, <2>2, <2>3, <2>4, <2>5 DEF TypeOK
<1>6. Snapshot
  BY <1>1, <1>2, <1>3, <1>4 DEF Snapshot
<1>7. Fresh /\ Deadline /\ Nodes
  <2>1. Fresh
    BY <1>1, <1>4 DEF Fresh
  <2>2. Deadline
    BY <1>4 DEF Deadline
  <2>3. Nodes
    <3>1. spec.replicas \in Nat /\ seen.pods = pods /\ status.desired = 0
      BY <1>1, <1>4 DEF SpecType
    <3>. QED  BY <1>3, <3>1 DEF Nodes
  <2>. QED  BY <2>1, <2>2, <2>3
<1>. QED  BY <1>5, <1>6, <1>7 DEF Inv

LEMMA InvStep == Inv /\ [Next]_vars => Inv'
BY TypeStep, SnapshotStep, FreshStep, DeadlineStep, NodesStep DEF Inv

\* Whatever is edited, scaled, started and stopped, the counts keep their types
\* and the agent computes one of the five statuses.
THEOREM TypeCorrect == Spec => []TypeOK
<1>1. Inv => TypeOK
  BY DEF Inv
<1>. QED  BY <1>1, InvInit, InvStep, PTL DEF Spec
-----------------------------------------------------------------------------
(* Failed *)

LEMMA FailedIsTimedOut ==
  ASSUME Status = "Failed", spec.kind \in Observed
  PROVE  spec.kind = "Deployment" /\ status.timedOut /\ ~(status.observed < spec.generation)
<1>. DEFINE d == [spec |-> spec, status |-> status]
<1>1. spec.kind \in {"Deployment", "DaemonSet", "StatefulSet"}
  BY RolloutAssumption DEF Kinds
<1>2. MetaStatus(d) = "Failed"
  BY DEF Status
<1>3. DaemonSetStatus(d) # "Failed"
  BY DEF DaemonSetStatus
<1>4. StatefulSetStatus(d) # "Failed"
  BY DEF StatefulSetStatus
<1>5. spec.kind = "Deployment" /\ DeploymentStatus(d) = "Failed"
  BY <1>1, <1>2, <1>3, <1>4 DEF MetaStatus
<1>6. d.status.timedOut /\ ~Outdated(d)
  BY <1>5 DEF DeploymentStatus
<1>. QED  BY <1>5, <1>6 DEF Outdated

\* Failed is never said of an older spec, nor of a rollout that was complete
\* when the status was written.
THEOREM FailedIsTrue == Spec => []FailedMeansStuck
<1>1. Inv => FailedMeansStuck
  <2>. SUFFICES ASSUME Inv, Status = "Failed"
                PROVE  /\ seen.template = spec.template
                       /\ \/ seen.ready[spec.template] < spec.replicas
                          \/ Total(seen.pods) > seen.pods[spec.template]
    BY DEF FailedMeansStuck
  <2>1. /\ spec.kind = "Deployment" /\ status.timedOut
        /\ ~(status.observed < spec.generation)
    BY FailedIsTimedOut DEF Inv, TypeOK, SpecType
  <2>2. status.observed = spec.generation
    BY <2>1 DEF Inv, TypeOK, SpecType, StatusType
  <2>3. seen.template = spec.template /\ status.desired = spec.replicas
    BY <2>1, <2>2 DEF Inv, Fresh
  <2>. QED  BY <2>1, <2>3 DEF Inv, Deadline
<1>. QED  BY <1>1, InvInit, InvStep, PTL DEF Spec
-----------------------------------------------------------------------------
(* Up *)

LEMMA UpIs ==
  ASSUME Status = "Up", spec.kind \in Observed
  PROVE  /\ ~(status.observed < spec.generation)
         /\ spec.kind = "Deployment" =>
              /\ ~(status.updated < spec.replicas) /\ ~(status.updated < status.replicas)
              /\ ~(status.ready < status.updated)
         /\ spec.kind = "DaemonSet" =>
              ~(status.updated < status.desired) /\ ~(status.ready < status.desired)
         /\ spec.kind = "StatefulSet" =>
              ~(status.ready < spec.replicas) /\ status.update = status.current
         /\ spec.kind \in {"Deployment", "DaemonSet", "StatefulSet"}
<1>. DEFINE d == [spec |-> spec, status |-> status]
<1>1. spec.kind \in {"Deployment", "DaemonSet", "StatefulSet"}
  BY RolloutAssumption DEF Kinds
<1>2. MetaStatus(d) = "Up"
  BY DEF Status
<1>3. CASE spec.kind = "Deployment"
  <2>1. DeploymentStatus(d) = "Up"
    BY <1>2, <1>3 DEF MetaStatus
  <2>. QED  BY <1>3, <2>1 DEF DeploymentStatus, Outdated
<1>4. CASE spec.kind = "DaemonSet"
  <2>1. DaemonSetStatus(d) = "Up"
    BY <1>2, <1>4 DEF MetaStatus
  <2>. QED  BY <1>4, <2>1 DEF DaemonSetStatus, Outdated
<1>5. CASE spec.kind = "StatefulSet"
  <2>1. StatefulSetStatus(d) = "Up"
    BY <1>2, <1>5 DEF MetaStatus
  <2>. QED  BY <1>5, <2>1 DEF StatefulSetStatus, Outdated
<1>. QED  BY <1>1, <1>3, <1>4, <1>5

\* Where no pod of another template is left, the current revision may be the
\* last one.
LEMMA RevisionIsOfAll ==
  ASSUME TypeOK, Revisions, spec.kind = "StatefulSet", CurrentRevision = spec.template
  PROVE  OnlyOf(spec.template, pods)
<1>1. CASE status.current = NoTemplate
  BY <1>1 DEF Revisions, OnlyOf
<1>2. CASE Outgoing = 0
  <2>1. /\ Total(pods) \in Nat /\ pods[spec.template] \in Nat
        /\ pods \in Counts /\ spec.template \in Templates
    BY CountsType
  <2>2. Total(pods) <= pods[spec.template]
    BY <1>2, <2>1 DEF Outgoing
  <2>. QED  BY <2>1, <2>2, TotalOfOne DEF OnlyOf
<1>3. CASE status.current = spec.template
  BY <1>3 DEF Revisions
<1>. QED  BY <1>1, <1>2, <1>3 DEF CurrentRevision

LEMMA RevisionsStep ==
  ASSUME TypeOK, Revisions, [Next]_vars, "StatefulSet" \notin Reusable
  PROVE  Revisions'
<1>. SUFFICES ASSUME spec.kind = "StatefulSet"
              PROVE  Revisions'
  BY KindStays DEF Revisions
<1>. USE RolloutAssumption
<1>1. /\ spec \in SpecType /\ pods \in Counts /\ used \subseteq Templates
      /\ spec.template \in used
      /\ \A t \in Templates : pods[t] \in Nat
  BY CountsType DEF TypeOK
<1>2. ASSUME NEW t \in Templates, Edit(t)
      PROVE  Revisions'
  <2>1. spec'.template = t /\ t \notin used /\ used' = used \cup {t}
    BY <1>1, <1>2 DEF Edit, SpecType
  <2>2. status.current # t
    BY <2>1 DEF Revisions
  <2>. QED  BY <1>2, <2>1, <2>2 DEF Edit, Revisions, OnlyOf, statusVars, podVars
<1>3. ASSUME UNCHANGED <<statusVars, used, pods>>, spec'.template = spec.template
      PROVE  Revisions'
  BY <1>3 DEF Revisions, OnlyOf, statusVars
<1>4. ASSUME NEW n \in 0..MaxReplicas, Scale(n)
      PROVE  Revisions'
  BY <1>1, <1>3, <1>4 DEF Scale, SpecType, podVars
<1>5. ASSUME NEW t \in Templates, StartPod(t)
      PROVE  Revisions'
  <2>1. UNCHANGED <<spec, used, status, seen>>
    BY <1>5 DEF StartPod, specVars, statusVars
  <2>2. status.current # NoTemplate
    BY <1>5 DEF StartPod, RevisionAllows
  <2>3. status.current = spec.template => t = spec.template
    BY <1>5 DEF StartPod, RevisionAllows
  <2>4. \A u \in Templates \ {t} : pods'[u] = pods[u]
    BY <1>5, StartedType DEF StartPod
  <2>. QED  BY <2>1, <2>2, <2>3, <2>4 DEF Revisions, OnlyOf
<1>6. ASSUME NEW t \in Templates, StopPod(t)
      PROVE  Revisions'
  <2>1. UNCHANGED <<spec, used, status, seen>>
    BY <1>6 DEF StopPod, specVars, statusVars
  <2>2. pods' \in Counts /\ \A u \in Templates : pods'[u] <= pods[u]
    BY <1>6, StoppedType DEF StopPod
  <2>3. \A u \in Templates : pods[u] = 0 => pods'[u] = 0
    <3>1. \A u \in Templates : pods'[u] \in Nat
      BY <2>2 DEF Counts
    <3>. QED  BY <1>1, <2>2, <3>1
  <2>. QED  BY <2>1, <2>3 DEF Revisions, OnlyOf
<1>7. ASSUME NEW t \in Templates, PodReady(t) \/ PodFails(t)
      PROVE  Revisions'
  BY <1>3, <1>7 DEF PodReady, PodFails, specVars
<1>8. ASSUME NEW late \in BOOLEAN, WriteStatus(late)
      PROVE  Revisions'
  <2>1. UNCHANGED <<spec, used, pods>>
    BY <1>8 DEF WriteStatus, specVars, podVars
  <2>2. /\ status'.current = CurrentRevision /\ status'.update = spec.template
        /\ seen'.template = spec.template /\ seen'.pods = pods
    BY <1>8, Written
  <2>3. CurrentRevision \in used
    BY <1>1 DEF CurrentRevision, Revisions
  <2>4. CurrentRevision = spec.template => OnlyOf(spec.template, pods)
    BY RevisionIsOfAll
  <2>5. CurrentRevision # NoTemplate
    BY <1>1, <2>3
  <2>. QED  BY <2>1, <2>2, <2>3, <2>4, <2>5 DEF Revisions, OnlyOf
<1>9. CASE UNCHANGED vars
  <2>1. UNCHANGED <<spec, used, pods, statusVars>>
    BY <1>9 DEF vars, specVars, podVars
  <2>. QED  BY <1>3, <2>1
<1>10. ~AddNode /\ \A t \in Templates : ~RemoveNode(t)
  BY DEF AddNode, RemoveNode
<1>. QED
  BY <1>2, <1>4, <1>5, <1>6, <1>7, <1>8, <1>9, <1>10 DEF Next

\* Up is only said when every pod ran the template the spec has now and enough
\* of them served; of stateful sets, if they are never rolled back: a partition
\* and a roll-back make the comparison of the revisions meaningless
\* (meta.go:295-303).
THEOREM UpIsTrue ==
  ASSUME "StatefulSet" \notin Reusable
  PROVE  Spec => []UpMeansRolledOut
<1>1. Init => Inv /\ Revisions
  <2>. SUFFICES ASSUME Init PROVE Revisions
    BY InvInit
  <2>. QED  BY DEF Init, Revisions, OnlyOf
<1>2. Inv /\ Revisions /\ [Next]_vars => Inv' /\ Revisions'
  <2>. SUFFICES ASSUME Inv, Revisions, [Next]_vars PROVE Inv' /\ Revisions'
    OBVIOUS
  <2>. QED  BY InvStep, RevisionsStep DEF Inv
<1>3. Inv /\ Revisions => UpMeansRolledOut
  <2>. SUFFICES ASSUME Inv, Revisions, Status = "Up"
                PROVE  /\ seen.template = spec.template
                       /\ OnlyOf(spec.template, seen.pods)
                       /\ seen.ready[spec.template] >= Wanted
    BY DEF UpMeansRolledOut, OnlyOf
  <2>. DEFINE t == spec.template
  <2>1. /\ spec.kind \in Observed /\ spec.generation \in Nat /\ spec.replicas \in Nat
        /\ status.observed \in Nat /\ status.observed <= spec.generation
        /\ status.desired \in Nat
    BY DEF Inv, TypeOK, SpecType, StatusType
  <2>2. status.observed = spec.generation
    BY <2>1, UpIs
  <2>3. seen.template = t
    BY <2>2 DEF Inv, Fresh
  <2>4. /\ status.replicas = Total(seen.pods) /\ status.updated = seen.pods[t]
        /\ status.ready = Total(seen.ready)
    BY <2>3 DEF Inv, Snapshot
  <2>5. /\ seen.pods \in Counts /\ seen.ready \in Counts /\ t \in Templates
        /\ Total(seen.pods) \in Nat /\ Total(seen.ready) \in Nat
        /\ \A u \in Templates : seen.pods[u] \in Nat /\ seen.ready[u] \in Nat
        /\ \A u \in Templates : seen.ready[u] <= seen.pods[u]
    BY CountsType DEF Inv, Snapshot
  <2>6. OnlyOf(t, seen.pods)
    <3>1. CASE spec.kind = "Deployment"
      <4>1. Total(seen.pods) <= seen.pods[t]
        BY <2>1, <2>4, <2>5, <3>1, UpIs
      <4>. QED  BY <2>5, <4>1, TotalOfOne DEF OnlyOf
    <3>2. CASE spec.kind = "DaemonSet"
      <4>1. Total(seen.pods) <= status.desired
        BY <3>2 DEF Inv, Nodes
      <4>2. Total(seen.pods) <= seen.pods[t]
        BY <2>1, <2>4, <2>5, <3>2, <4>1, UpIs
      <4>. QED  BY <2>5, <4>2, TotalOfOne DEF OnlyOf
    <3>3. CASE spec.kind = "StatefulSet"
      BY <2>1, <2>3, <3>3, UpIs DEF Revisions
    <3>. QED  BY <2>1, <3>1, <3>2, <3>3, UpIs
  <2>7. Total(seen.ready) <= seen.ready[t]
    <3>1. \A u \in Templates \ {t} : seen.ready[u] = 0
      BY <2>5, <2>6 DEF OnlyOf
    <3>. QED  BY <2>5, <3>1, TotalOfOne
  <2>8. seen.ready[t] >= Wanted
    <3>1. CASE spec.kind = "Deployment"
      BY <2>1, <2>4, <2>5, <2>7, <3>1, UpIs DEF Wanted
    <3>2. CASE spec.kind = "DaemonSet"
      BY <2>1, <2>4, <2>5, <2>7, <3>2, UpIs DEF Wanted
    <3>3. CASE spec.kind = "StatefulSet"
      BY <2>1, <2>4, <2>5, <2>7, <3>3, UpIs DEF Wanted
    <3>. QED  BY <2>1, <3>1, <3>2, <3>3, UpIs
  <2>. QED  BY <2>3, <2>6, <2>8
<1>. QED  BY <1>1, <1>2, <1>3, PTL DEF Spec
=============================================================================
