------------------------- MODULE GoliveCacheProofs -------------------------
(***************************************************************************)
(* Proofs about GoliveCache, for any number of workers, selectors and      *)
(* payloads.  The inductive invariant is TypeOK /\ DecisionStands: mutual  *)
(* exclusion alone does not give DecisionStands, one must also know that   *)
(* the only steps which can run between a caller's Check and its Set       *)
(* (Delete and Expire, which ignore the mutex) empty entries and never     *)
(* install a payload.                                                      *)
(***************************************************************************)
EXTENDS GoliveCache, TLAPS

Inv == TypeOK /\ DecisionStands

\* The state of the cache, its mutex and its callers keeps its type.
THEOREM TypeCorrect == Spec => []TypeOK
<1>. USE GoliveCacheAssumption DEF TypeOK, ControlPoints
<1>1. Init => TypeOK
  BY DEF Init
<1>2. TypeOK /\ [Next]_vars => TypeOK'
  <2>. SUFFICES ASSUME TypeOK, [Next]_vars
                PROVE  TypeOK'
    OBVIOUS
  <2>1. ASSUME NEW c \in Callers, NEW k \in Keys, NEW v \in Payloads,
               Invoke(c, k, v)
        PROVE  TypeOK'
    BY <2>1 DEF Invoke, Goto
  <2>2. ASSUME NEW c \in Callers, Step(c)
        PROVE  TypeOK'
    BY <2>2 DEF Step, Lock, Check, Set, Unlock, Delete, Finish, Goto
  <2>3. ASSUME NEW k \in Keys, Expire(k)
        PROVE  TypeOK'
    BY <2>3 DEF Expire
  <2>4. CASE UNCHANGED vars
    BY <2>4 DEF vars
  <2>. QED  BY <2>1, <2>2, <2>3, <2>4 DEF Next
<1>. QED  BY <1>1, <1>2, PTL DEF Spec

\* No step of any worker, and no expiry, disturbs the decision a worker took
\* under the mutex.
LEMMA DecisionStandsStep ==
  ASSUME Inv, [Next]_vars
  PROVE  DecisionStands'
<1>. USE GoliveCacheAssumption DEF Inv, TypeOK, ControlPoints, DecisionStands
<1>1. ASSUME NEW c \in Callers, NEW k \in Keys, NEW v \in Payloads,
             Invoke(c, k, v)
      PROVE  DecisionStands'
  BY <1>1 DEF Invoke, Goto
<1>2. ASSUME NEW c \in Callers, Lock(c)
      PROVE  DecisionStands'
  BY <1>2 DEF Lock, Goto
<1>3. ASSUME NEW c \in Callers, Check(c)
      PROVE  DecisionStands'
  BY <1>3 DEF Check, Goto
<1>4. ASSUME NEW c \in Callers, Set(c)
      PROVE  DecisionStands'
  BY <1>4 DEF Set, Goto
<1>5. ASSUME NEW c \in Callers, Unlock(c)
      PROVE  DecisionStands'
  BY <1>5 DEF Unlock, Goto
<1>6. ASSUME NEW c \in Callers, Delete(c)
      PROVE  DecisionStands'
  BY <1>6 DEF Delete, Goto
<1>7. ASSUME NEW c \in Callers, Finish(c)
      PROVE  DecisionStands'
  BY <1>7 DEF Finish, Goto
<1>8. ASSUME NEW k \in Keys, Expire(k)
      PROVE  DecisionStands'
  BY <1>8 DEF Expire
<1>9. CASE UNCHANGED vars
  BY <1>9 DEF vars
<1>. QED
  BY <1>1, <1>2, <1>3, <1>4, <1>5, <1>6, <1>7, <1>8, <1>9 DEF Next, Step

LEMMA Invariance == Spec => []Inv
<1>1. Init => DecisionStands
  BY GoliveCacheAssumption DEF Init, DecisionStands
<1>2. Inv /\ [Next]_vars => DecisionStands'
  BY DecisionStandsStep
<1>. QED  BY <1>1, <1>2, TypeCorrect, PTL DEF Spec, Inv

\* A worker that decided to write holds the mutex and its decision is still
\* justified when it writes.
THEOREM DecisionsStand == Spec => []DecisionStands
BY Invariance, PTL DEF Inv

-----------------------------------------------------------------------------
(* The refinement: the Check of an up-to-date payload and the Set of an    *)
(* outdated one are the points where the atomic operation takes effect.    *)

LEMMA RefinementStep ==
  ASSUME Inv, Inv', [Next]_vars
  PROVE  [Atomic!AbsNext]_(Atomic!absVars)
<1>. USE GoliveCacheAssumption
     DEF Inv, TypeOK, ControlPoints, DecisionStands, AbstractStatus,
         Atomic!absVars
<1>1. ASSUME NEW c \in Callers, NEW k \in Keys, NEW v \in Payloads,
             Invoke(c, k, v)
      PROVE  Atomic!AbsInvoke(c, k, v)
  BY <1>1 DEF Invoke, Goto, Atomic!AbsInvoke
<1>2. ASSUME NEW c \in Callers, Lock(c)
      PROVE  UNCHANGED Atomic!absVars
  BY <1>2 DEF Lock, Goto
<1>3. ASSUME NEW c \in Callers, Check(c)
      PROVE  Atomic!AbsUpToDate(c) \/ UNCHANGED Atomic!absVars
  <2>1. CASE entry[key[c]] = value[c]
    <3>1. AbstractStatus' = [AbstractStatus EXCEPT ![c] = "upToDate"]
      BY <1>3, <2>1 DEF Check, Goto
    <3>. QED  BY <1>3, <2>1, <3>1 DEF Check, Atomic!AbsUpToDate
  <2>2. CASE entry[key[c]] # value[c]
    BY <1>3, <2>2 DEF Check, Goto
  <2>. QED  BY <2>1, <2>2
<1>4. ASSUME NEW c \in Callers, Set(c)
      PROVE  Atomic!AbsUpdate(c)
  <2>1. AbstractStatus' = [AbstractStatus EXCEPT ![c] = "updated"]
    BY <1>4 DEF Set, Goto
  <2>. QED  BY <1>4, <2>1 DEF Set, Atomic!AbsUpdate
<1>5. ASSUME NEW c \in Callers, Unlock(c)
      PROVE  UNCHANGED Atomic!absVars
  BY <1>5 DEF Unlock, Goto
<1>6. ASSUME NEW c \in Callers, Delete(c)
      PROVE  Atomic!AbsDelete(c)
  <2>1. AbstractStatus' = [AbstractStatus EXCEPT ![c] = "idle"]
    BY <1>6 DEF Delete, Goto
  <2>. QED  BY <1>6, <2>1 DEF Delete, Atomic!AbsDelete
<1>7. ASSUME NEW c \in Callers, Finish(c)
      PROVE  Atomic!AbsFinish(c)
  BY <1>7 DEF Finish, Goto, Atomic!AbsFinish
<1>8. ASSUME NEW k \in Keys, Expire(k)
      PROVE  Atomic!AbsExpire(k)
  BY <1>8 DEF Expire, Atomic!AbsExpire
<1>9. CASE UNCHANGED vars
  BY <1>9 DEF vars
<1>. QED
  BY <1>1, <1>2, <1>3, <1>4, <1>5, <1>6, <1>7, <1>8, <1>9
     DEF Next, Step, Atomic!AbsNext

\* cache.go's locking makes SetIfOutdated atomic: every behaviour of the
\* lock-level model is one of the atomic compare-and-set cache.
THEOREM CacheIsAtomic == Spec => ImplementsUpToDateCache
<1>1. Init => Atomic!AbsInit
  BY DEF Init, Atomic!AbsInit, AbstractStatus
<1>2. Inv /\ Inv' /\ [Next]_vars => [Atomic!AbsNext]_(Atomic!absVars)
  BY RefinementStep
<1>. QED
  BY <1>1, <1>2, Invariance, PTL DEF Spec, Atomic!AbsSpec, ImplementsUpToDateCache
=============================================================================
