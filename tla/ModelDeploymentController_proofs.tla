------------------ MODULE ModelDeploymentController_proofs ------------------
(***************************************************************************)
(* Proofs about ModelDeploymentController, for all specs and bounds.       *)
(***************************************************************************)
EXTENDS ModelDeploymentController, TLAPS

\* A cache that is not behind holds the object that the API server holds.  One
\* that is behind by silent changes only has not seen an owned child since.
CacheInv ==
    /\ behind["cr"] \in {"nothing", "event"}
    /\ behind["cr"] = "nothing" => crCache = cr
    /\ \A k \in Kinds :
          /\ behind[k] = "nothing" => childCache[k] = child[k]
          /\ behind[k] = "change" => ~Owned(child[k]) /\ ~Owned(childCache[k])

\* What a call of Reconcile() knows at each step.
RecInv ==
    /\ rec.current => cr # None /\ rec.cr = cr
    /\ rec.pc # "idle" => rec.cr # None
    /\ rec.pc = "InvalidSpec" => rec.cr.spec \in Invalid
    /\ rec.pc \notin {"idle", "InvalidSpec"} => rec.cr.spec \notin Invalid
    /\ rec.pc \in {"service", "observed"} => rec.deployment # None

\* Something is on its way that makes the reconciler look again.
Wake == dirty \/ \E k \in Kinds \cup {"cr"} : behind[k] = "event"

\* If nothing is, a call that is running has seen the last of everything that
\* it has looked at, and if none is running there is nothing to do.
SeenTheLast ==
    /\ rec.pc = "idle" => cr = None \/ cr.deleting \/ Converged
    /\ rec.pc \in {"deployment", "service", "observed", "InvalidSpec"}
          => cr # None /\ rec.cr = cr
    /\ rec.pc \in {"service", "observed"}
          => AsWanted("deployment") /\ child["deployment"] = rec.deployment
    /\ rec.pc = "observed" => AsWanted("service")

WakeInv == Wake \/ SeenTheLast

Inv == TypeOK /\ CacheInv /\ RecInv
-----------------------------------------------------------------------------
(* Helpers                                                                 *)

\* What mutateDeployment() and mutateService() make of a valid spec is a child.
LEMMA MutatedType ==
    ASSUME TypeOK, RecInv, NEW k \in Kinds, rec.pc \notin {"idle", "InvalidSpec"},
           k = "deployment" => rec.cr.spec \notin Unfit,
           NEW c \in Child \cup {None}
    PROVE  Mutated(k, c) \in Child
<1>1. rec.cr \in ModelDeployment  BY DEF TypeOK, RecInv
<1>2. rec.cr.uid \in Other..MaxEdits
  BY <1>1, ControllerAssumption DEF ModelDeployment, Other
<1>3. DesiredSpec(k) \in (Specs \ (Invalid \cup Unfit)) \cup {ServiceSpec, Drifted}
  BY <1>1 DEF DesiredSpec, RecInv, ModelDeployment, Kinds
<1> QED  BY <1>2, <1>3 DEF Mutated, Child, Rollouts

\* It is never nothing.
LEMMA MutatedIsSome ==
    ASSUME TypeOK, RecInv, NEW k \in Kinds, rec.pc # "idle", NEW c \in Child \cup {None}
    PROVE  Mutated(k, c) # None
<1>1. rec.cr \in ModelDeployment  BY DEF TypeOK, RecInv
<1>2. rec.cr.uid \in Int /\ DesiredSpec(k) \in Specs \cup {ServiceSpec, Drifted}
  BY <1>1, ControllerAssumption DEF ModelDeployment, DesiredSpec
<1>3. Mutated(k, c) \in [owner: Int, spec: Specs \cup {ServiceSpec, Drifted}, rollout: Rollouts]
  BY <1>2 DEF Mutated, Child, Rollouts
<1> QED  BY <1>3, NoneIsNoChild

\* The status that UpdateStatus writes is a status.
LEMMA StatusType ==
    ASSUME TypeOK, RecInv, rec.pc \in {"observed", "InvalidSpec"} \/ Failing
    PROVE  DesiredStatus \in Status
<1>1. rec.cr \in ModelDeployment  BY DEF TypeOK, RecInv, Failing
<1>2. /\ rec.cr.generation \in 0..MaxEdits
      /\ rec.cr.status \in Status
      /\ rec.cr.spec \in Specs
  BY <1>1 DEF ModelDeployment
<1>3. CASE rec.pc = "observed"
  <2>1. rec.deployment \in Child  BY <1>3 DEF TypeOK, RecInv
  <2> QED  BY <1>2, <1>3, <2>1 DEF DesiredStatus, updateObservedStatus, Status, Child
<1>4. CASE rec.pc # "observed"
  BY <1>2, <1>4 DEF DesiredStatus, FailureStatus, Status, Failing
<1> QED  BY <1>3, <1>4

\* A write of a child keeps the informer's invariant.
LEMMA WriteChildKeeps ==
    ASSUME TypeOK, CacheInv, NEW k \in Kinds, NEW c \in Child \cup {None},
           WriteChild(k, c), UNCHANGED <<cr, crCache, childCache>>
    PROVE  /\ child' \in [Kinds -> Child \cup {None}]
           /\ behind' \in [Kinds \cup {"cr"} -> {"nothing", "change", "event"}]
           /\ CacheInv'
           /\ behind'[k] # "nothing"
           /\ Owned(child[k]) \/ Owned(c) => behind'[k] = "event"
           /\ \A j \in Kinds \cup {"cr"} : behind[j] = "event" => behind'[j] = "event"
<1> USE DEF WriteChild
<1>1. /\ child' \in [Kinds -> Child \cup {None}]
      /\ behind' \in [Kinds \cup {"cr"} -> {"nothing", "change", "event"}]
  BY DEF TypeOK
<1>2. behind'[k] = IF Owned(child[k]) \/ Owned(c) THEN "event"
                   ELSE IF behind[k] = "event" THEN "event" ELSE "change"
  BY DEF TypeOK
<1>3. /\ child'[k] = c
      /\ \A j \in Kinds : j # k => child'[j] = child[j]
      /\ \A j \in Kinds \cup {"cr"} : j # k => behind'[j] = behind[j]
  BY DEF TypeOK
<1>4. ASSUME behind'[k] = "change" PROVE ~Owned(child'[k]) /\ ~Owned(childCache'[k])
  BY <1>2, <1>3, <1>4 DEF CacheInv, TypeOK, Owned
<1>5. "cr" # k /\ "cr" \in Kinds \cup {"cr"}  BY DEF Kinds
<1>6. \A j \in Kinds : /\ behind'[j] = "nothing" => childCache'[j] = child'[j]
                       /\ behind'[j] = "change" => ~Owned(child'[j]) /\ ~Owned(childCache'[j])
  BY <1>2, <1>3, <1>4 DEF CacheInv, Owned
<1> QED  BY <1>1, <1>2, <1>3, <1>5, <1>6 DEF CacheInv

\* So does a write of the ModelDeployment.
LEMMA WriteCrKeeps ==
    ASSUME TypeOK, CacheInv, NEW c, WriteCr(c), UNCHANGED <<child, crCache, childCache>>
    PROVE  /\ behind' \in [Kinds \cup {"cr"} -> {"nothing", "change", "event"}]
           /\ behind'["cr"] = "event"
           /\ CacheInv'
<1>1. /\ behind' \in [Kinds \cup {"cr"} -> {"nothing", "change", "event"}]
      /\ behind'["cr"] = "event"
      /\ \A k \in Kinds : behind'[k] = behind[k]
  BY DEF WriteCr, TypeOK, Kinds
<1> QED  BY <1>1 DEF CacheInv, Owned
-----------------------------------------------------------------------------
(* Type correctness and what caches and calls know                         *)

\* Init establishes the invariant.
LEMMA InitInv == Init => Inv
<1> SUFFICES ASSUME Init PROVE Inv  OBVIOUS
<1> USE ControllerAssumption DEF Init, Idle
<1>1. TypeOK
  <2>1. 0 \in 0..MaxEdits /\ 0 \in 0..MaxFaults  OBVIOUS
  <2>2. /\ child \in [Kinds -> Child \cup {None}] /\ childCache \in [Kinds -> Child \cup {None}]
        /\ behind \in [Kinds \cup {"cr"} -> {"nothing", "change", "event"}]
    OBVIOUS
  <2>3. rec \in [pc: {"idle", "deployment", "service", "observed", "InvalidSpec",
                     "DeploymentReconcileFailed", "ServiceReconcileFailed"},
                cr: ModelDeployment \cup {None}, current: BOOLEAN,
                deployment: Child \cup {None}]
    OBVIOUS
  <2> QED  BY <2>1, <2>2, <2>3 DEF TypeOK
<1>2. CacheInv  BY DEF CacheInv, Kinds
<1>3. RecInv  BY DEF RecInv
<1> QED  BY <1>1, <1>2, <1>3 DEF Inv

\* The steps of Reconcile() keep it.
LEMMA ReconcileInv == Inv /\ Reconcile => Inv'
<1> SUFFICES ASSUME Inv, Reconcile PROVE Inv'  OBVIOUS
<1> USE DEF Inv
<1>1. CASE Begin
  <2>1. TypeOK'  BY <1>1 DEF Begin, TypeOK, Idle
  <2>2. CacheInv'  BY <1>1 DEF Begin, CacheInv, Owned
  <2>3. RecInv'  BY <1>1 DEF Begin, RecInv, CacheInv, Idle
  <2> QED  BY <2>1, <2>2, <2>3
<1>2. CASE UpdateStatus
  <2>1. DesiredStatus \in Status  BY <1>2, StatusType DEF UpdateStatus
  <2>2. rec' = Idle /\ dirty' \in BOOLEAN  BY <1>2 DEF UpdateStatus, Return, TypeOK
  <2>3. RecInv'  BY <2>2 DEF RecInv, Idle
  <2>4. CASE UNCHANGED <<cr, behind>>
    BY <1>2, <2>2, <2>3, <2>4 DEF UpdateStatus, TypeOK, CacheInv, Idle, Owned
  <2>5. CASE UpToDate /\ WriteCr([cr EXCEPT !.status = DesiredStatus])
    <3>1. cr' \in ModelDeployment
      BY <2>1, <2>5 DEF WriteCr, UpToDate, RecInv, TypeOK, ModelDeployment
    <3>2. /\ behind' \in [Kinds \cup {"cr"} -> {"nothing", "change", "event"}]
          /\ CacheInv'
      BY <1>2, <2>5, WriteCrKeeps DEF UpdateStatus
    <3> QED  BY <1>2, <2>2, <2>3, <3>1, <3>2 DEF UpdateStatus, TypeOK, Idle
  <2> QED  BY <1>2, <2>4, <2>5 DEF UpdateStatus
<1>3. ASSUME NEW k \in Kinds, CreateOrUpdate(k) PROVE Inv'
  <2> DEFINE wanted == Mutated(k, childCache[k])
  <2>0. rec.pc = k /\ k \in {"deployment", "service"}  BY <1>3 DEF CreateOrUpdate, Kinds
  <2>1. UNCHANGED <<cr, crCache, childCache, dirty, edits, faults>>
    BY <1>3 DEF CreateOrUpdate
  <2>2. CASE Failed(k) /\ UNCHANGED <<child, behind>>
    BY <2>0, <2>1, <2>2 DEF Failed, Goto, TypeOK, CacheInv, RecInv, Owned
  <2>3. ASSUME wanted \in Child, Reconciled(k)
        PROVE  /\ rec' \in [pc: {"idle", "deployment", "service", "observed", "InvalidSpec",
                     "DeploymentReconcileFailed", "ServiceReconcileFailed"},
                cr: ModelDeployment \cup {None}, current: BOOLEAN,
                deployment: Child \cup {None}]
               /\ RecInv'
    <3>1. wanted # None  BY <2>0, MutatedIsSome DEF TypeOK
    <3> QED  BY <2>0, <2>1, <2>3, <3>1 DEF Reconciled, TypeOK, RecInv
  <2>4. CASE childCache[k] = wanted /\ Reconciled(k) /\ UNCHANGED <<child, behind>>
    <3>1. wanted \in Child  BY <2>0, <2>4, MutatedIsSome DEF TypeOK
    <3>2. CacheInv'  BY <2>1, <2>4 DEF CacheInv, Owned
    <3> QED  BY <2>1, <2>3, <2>4, <3>1, <3>2 DEF TypeOK
  <2>5. CASE Accepted(k) /\ WriteChild(k, wanted) /\ Reconciled(k)
    <3>1. wanted \in Child
      BY <2>0, <2>5, MutatedType DEF Accepted, TypeOK
    <3>2. /\ child' \in [Kinds -> Child \cup {None}]
          /\ behind' \in [Kinds \cup {"cr"} -> {"nothing", "change", "event"}]
          /\ CacheInv'
      BY <2>1, <2>5, <3>1, WriteChildKeeps
    <3> QED  BY <2>1, <2>3, <2>5, <3>1, <3>2 DEF TypeOK
  <2> QED  BY <1>3, <2>2, <2>4, <2>5 DEF CreateOrUpdate
<1> QED  BY <1>1, <1>2, <1>3 DEF Reconcile

\* So do failed calls, watch events and restarts.
LEMMA DeliveryInv ==
    ASSUME Inv,
           \/ UpdateStatusFails
           \/ \E k \in Kinds : CreateOrUpdateFails(k)
           \/ \E k \in Kinds \cup {"cr"} : Sync(k)
           \/ Restart
    PROVE  Inv'
<1> USE DEF Inv
<1>0. ASSUME Fault PROVE faults' \in 0..MaxFaults
  BY <1>0, ControllerAssumption DEF Fault, TypeOK
<1>1. CASE UpdateStatusFails
  <2>1. DesiredStatus \in Status  BY <1>1, StatusType DEF UpdateStatusFails
  <2>2. /\ rec' = Idle /\ dirty' \in BOOLEAN /\ faults' \in 0..MaxFaults
        /\ UNCHANGED <<child, crCache, childCache, edits>>
    BY <1>0, <1>1 DEF UpdateStatusFails, Return, TypeOK
  <2>3. RecInv'  BY <2>2 DEF RecInv, Idle
  <2>4. CASE UNCHANGED <<cr, behind>>
    BY <2>2, <2>3, <2>4 DEF TypeOK, CacheInv, Idle, Owned
  <2>5. CASE UpToDate /\ WriteCr([cr EXCEPT !.status = DesiredStatus])
    <3>1. cr' \in ModelDeployment
      BY <2>1, <2>5 DEF WriteCr, UpToDate, RecInv, TypeOK, ModelDeployment
    <3>2. /\ behind' \in [Kinds \cup {"cr"} -> {"nothing", "change", "event"}]
          /\ CacheInv'
      BY <2>2, <2>5, WriteCrKeeps
    <3> QED  BY <2>2, <2>3, <3>1, <3>2 DEF TypeOK, Idle
  <2> QED  BY <1>1, <2>4, <2>5 DEF UpdateStatusFails
<1>2. ASSUME NEW k \in Kinds, CreateOrUpdateFails(k) PROVE Inv'
  <2> DEFINE wanted == Mutated(k, childCache[k])
  <2>0. rec.pc = k /\ k \in {"deployment", "service"}
    BY <1>2 DEF CreateOrUpdateFails, Kinds
  <2>1. Failed(k) /\ faults' \in 0..MaxFaults /\ UNCHANGED <<cr, crCache, childCache, dirty, edits>>
    BY <1>0, <1>2 DEF CreateOrUpdateFails
  <2>2. /\ rec' \in [pc: {"idle", "deployment", "service", "observed", "InvalidSpec",
                     "DeploymentReconcileFailed", "ServiceReconcileFailed"},
                cr: ModelDeployment \cup {None}, current: BOOLEAN,
                deployment: Child \cup {None}]
        /\ RecInv'
    BY <2>0, <2>1 DEF Failed, Goto, TypeOK, RecInv
  <2>3. CASE UNCHANGED <<child, behind>>
    BY <2>1, <2>2, <2>3 DEF TypeOK, CacheInv, Owned
  <2>4. CASE Accepted(k) /\ WriteChild(k, wanted)
    <3>1. wanted \in Child
      BY <2>0, <2>4, MutatedType DEF Accepted, TypeOK
    <3>2. /\ child' \in [Kinds -> Child \cup {None}]
          /\ behind' \in [Kinds \cup {"cr"} -> {"nothing", "change", "event"}]
          /\ CacheInv'
      BY <2>1, <2>4, <3>1, WriteChildKeeps
    <3> QED  BY <2>1, <2>2, <3>2 DEF TypeOK
  <2> QED  BY <1>2, <2>3, <2>4 DEF CreateOrUpdateFails
<1>3. ASSUME NEW k \in Kinds \cup {"cr"}, Sync(k) PROVE Inv'
  <2>1. TypeOK'  BY <1>3 DEF Sync, TypeOK
  <2>2. CacheInv'
    <3>1. /\ behind'[k] = "nothing"
          /\ \A j \in Kinds \cup {"cr"} : j # k => behind'[j] = behind[j]
          /\ UNCHANGED <<cr, child>>
      BY <1>3 DEF Sync, TypeOK
    <3>2. CASE k = "cr"
      BY <1>3, <3>1, <3>2 DEF Sync, CacheInv, Kinds, Owned
    <3>3. CASE k \in Kinds
      <4>1. /\ crCache' = crCache
            /\ childCache'[k] = child[k]
            /\ \A j \in Kinds : j # k => childCache'[j] = childCache[j]
        BY <1>3, <3>3 DEF Sync, TypeOK, Kinds
      <4>2. "cr" # k  BY <3>3 DEF Kinds
      <4> QED  BY <3>1, <3>3, <4>1, <4>2 DEF CacheInv, Owned
    <3> QED  BY <3>2, <3>3
  <2>3. RecInv'  BY <1>3 DEF Sync, RecInv
  <2> QED  BY <2>1, <2>2, <2>3
<1>4. CASE Restart
  <2>1. TypeOK'  BY <1>0, <1>4 DEF Restart, TypeOK, Idle
  <2>2. CacheInv'  BY <1>4 DEF Restart, CacheInv, TypeOK, Kinds
  <2>3. RecInv'  BY <1>4 DEF Restart, RecInv, Idle
  <2> QED  BY <2>1, <2>2, <2>3
<1> QED  BY <1>1, <1>2, <1>3, <1>4

\* So does everybody else.
LEMMA ClusterInv ==
    ASSUME Inv,
           \/ \E spec \in Specs : EditCr(spec)
           \/ DeleteCr
           \/ \E k \in Kinds : EditChild(k)
           \/ RolloutProceeds
           \/ RolloutGoesWrong
           \/ GarbageCollector
    PROVE  Inv'
<1> USE DEF Inv
<1> DEFINE Typed(b) == b \in [Kinds \cup {"cr"} -> {"nothing", "change", "event"}]
<1>0. ASSUME Edit PROVE edits' \in 1..MaxEdits /\ edits' \in 0..MaxEdits
  BY <1>0, ControllerAssumption DEF Edit, TypeOK
<1>1. ASSUME NEW c \in ModelDeployment \cup {None}, WriteCr(c),
             rec' = [rec EXCEPT !.current = FALSE], edits' \in 0..MaxEdits,
             UNCHANGED <<child, crCache, childCache, dirty, faults>>
      PROVE  Inv'
  <2>1. CacheInv' /\ Typed(behind')  BY <1>1, WriteCrKeeps
  <2>2. TypeOK'  BY <1>1, <2>1 DEF TypeOK, WriteCr
  <2>3. RecInv'  BY <1>1 DEF RecInv, TypeOK
  <2> QED  BY <2>1, <2>2, <2>3
<1>2. ASSUME NEW k \in Kinds, NEW c \in Child \cup {None}, WriteChild(k, c),
             edits' \in 0..MaxEdits, faults' \in 0..MaxFaults,
             UNCHANGED <<cr, crCache, childCache, dirty, rec>>
      PROVE  Inv'
  <2>1. CacheInv' /\ Typed(behind') /\ child' \in [Kinds -> Child \cup {None}]
    BY <1>2, WriteChildKeeps
  <2>2. TypeOK'  BY <1>2, <2>1 DEF TypeOK
  <2>3. RecInv'  BY <1>2 DEF RecInv
  <2> QED  BY <2>1, <2>2, <2>3
<1>3. ASSUME NEW spec \in Specs, EditCr(spec) PROVE Inv'
  <2> DEFINE new == [uid |-> edits', generation |-> edits', spec |-> spec,
                     deleting |-> FALSE, status |-> NoStatus]
             edited == [cr EXCEPT !.spec = spec, !.generation = edits']
  <2>1. edits' \in 1..MaxEdits /\ edits' \in 0..MaxEdits  BY <1>0, <1>3 DEF EditCr
  <2>2. NoStatus \in Status  BY ControllerAssumption DEF NoStatus, Status
  <2>3. new \in ModelDeployment  BY <2>1, <2>2 DEF ModelDeployment
  <2>4. cr # None => edited \in ModelDeployment
    BY <2>1 DEF ModelDeployment, TypeOK
  <2>5. CASE cr = None  BY <1>1, <1>3, <2>1, <2>3, <2>5 DEF EditCr
  <2>6. CASE cr # None  BY <1>1, <1>3, <2>1, <2>4, <2>6 DEF EditCr
  <2> QED  BY <2>5, <2>6
<1>4. CASE DeleteCr
  <2>1. edits' \in 0..MaxEdits  BY <1>0, <1>4 DEF DeleteCr
  <2>2. [cr EXCEPT !.deleting = TRUE] \in ModelDeployment
    BY <1>4 DEF DeleteCr, TypeOK, ModelDeployment
  <2> QED  BY <1>1, <1>4, <2>1, <2>2 DEF DeleteCr
<1>5. ASSUME NEW k \in Kinds, EditChild(k) PROVE Inv'
  <2>1. edits' \in 0..MaxEdits /\ faults' \in 0..MaxFaults
    BY <1>0, <1>5 DEF EditChild, TypeOK
  <2>2. \A owner \in {Nobody, Other} :
           [owner |-> owner, spec |-> Drifted, rollout |-> "unseen"] \in Child
    BY ControllerAssumption DEF Child, Rollouts, Nobody, Other
  <2>3. ASSUME Owned(child[k])
        PROVE  /\ [child[k] EXCEPT !.spec = Drifted, !.rollout = "unseen"] \in Child
               /\ [child[k] EXCEPT !.owner = Nobody] \in Child
    <3>1. child[k] \in Child  BY <2>3 DEF Owned, TypeOK
    <3>2. Nobody \in Other..MaxEdits  BY ControllerAssumption DEF Nobody, Other
    <3>3. [child[k] EXCEPT !.owner = Nobody] \in Child  BY <3>1, <3>2 DEF Child
    <3>4. [child[k] EXCEPT !.spec = Drifted, !.rollout = "unseen"] \in Child
      BY <3>1 DEF Child, Rollouts
    <3> QED  BY <3>3, <3>4
  <2>4. \E c \in Child \cup {None} : WriteChild(k, c)
    BY <1>5, <2>2, <2>3 DEF EditChild
  <2> QED  BY <1>2, <1>5, <2>1, <2>4 DEF EditChild
<1>6. ASSUME NEW from, NEW to \in Rollouts, Rollout(from, to), faults' \in 0..MaxFaults
      PROVE  Inv'
  <2>1. child["deployment"] \in Child  BY <1>6 DEF Rollout, Owned, TypeOK, Kinds
  <2>2. [child["deployment"] EXCEPT !.rollout = to] \in Child  BY <1>6, <2>1 DEF Child
  <2>3. edits' \in 0..MaxEdits  BY <1>6 DEF Rollout, TypeOK
  <2> QED  BY <1>2, <1>6, <2>2, <2>3 DEF Rollout, Kinds
<1>7. CASE RolloutProceeds
  <2>1. faults' \in 0..MaxFaults  BY <1>7 DEF RolloutProceeds, TypeOK
  <2> QED  BY <1>6, <1>7, <2>1 DEF RolloutProceeds, Rollouts
<1>8. CASE RolloutGoesWrong
  <2>1. faults' \in 0..MaxFaults
    BY <1>8, ControllerAssumption DEF RolloutGoesWrong, Fault, TypeOK
  <2> QED  BY <1>6, <1>8, <2>1 DEF RolloutGoesWrong, Rollouts
<1>9. ASSUME NEW k \in Kinds, Collect(k) PROVE Inv'
  <2>1. edits' \in 0..MaxEdits /\ faults' \in 0..MaxFaults  BY <1>9 DEF Collect, TypeOK
  <2> QED  BY <1>2, <1>9, <2>1 DEF Collect
<1>10. CASE CollectCr
  <2>1. edits' \in 0..MaxEdits  BY <1>10 DEF CollectCr, TypeOK
  <2> QED  BY <1>1, <1>10, <2>1 DEF CollectCr
<1> QED  BY <1>3, <1>4, <1>5, <1>7, <1>8, <1>9, <1>10 DEF GarbageCollector

\* Every step keeps the invariant.
LEMMA NextInv == Inv /\ [Next]_vars => Inv'
<1>1. Inv /\ Next => Inv'
  BY ReconcileInv, DeliveryInv, ClusterInv DEF Next
<1>2. Inv /\ UNCHANGED vars => Inv'
  BY DEF Inv, vars, TypeOK, CacheInv, RecInv, Owned
<1> QED  BY <1>1, <1>2

\* Every variable keeps its type, no child is made of a spec that
\* validateSpec() or the API server rejects, and caches and calls know what
\* CacheInv and RecInv say.
THEOREM TypeCorrect == Spec => [](TypeOK /\ CacheInv /\ RecInv)
<1>1. Spec => []Inv  BY InitInv, NextInv, PTL DEF Spec
<1> QED  BY <1>1 DEF Inv
-----------------------------------------------------------------------------
(* Ownership and the generation of a status                                *)

\* An object that ensureControllerOwnership() refuses stays as it is until a
\* user changes it.  The update needs a cache that is not behind, and then the
\* owner that was checked is the owner that the object has.
THEOREM ForeignIsUntouchedHolds == Spec => ForeignIsUntouched
<1>1. ASSUME Inv, [Next]_vars, NEW k \in Kinds, Foreign(k), edits' = edits
      PROVE  child'[k] = child[k]
  <2> USE DEF Inv
  <2>0. child[k] # None /\ ~Owned(child[k])  BY <1>1 DEF Foreign
  <2>1. ASSUME NEW j \in Kinds, NEW c, WriteChild(j, c), j # k PROVE child'[k] = child[k]
    BY <2>1 DEF WriteChild, TypeOK
  <2>2. ASSUME ensureControllerOwnership(childCache[k]), Accepted(k) PROVE FALSE
    BY <1>1, <2>0, <2>2 DEF ensureControllerOwnership, Accepted, CacheInv, Owned
  <2>3. ASSUME NEW j \in Kinds, CreateOrUpdate(j) PROVE child'[k] = child[k]
    BY <2>1, <2>2, <2>3 DEF CreateOrUpdate
  <2>4. ASSUME NEW j \in Kinds, CreateOrUpdateFails(j) PROVE child'[k] = child[k]
    BY <2>1, <2>2, <2>4 DEF CreateOrUpdateFails
  <2>5. ASSUME NEW j \in Kinds, Collect(j) PROVE child'[k] = child[k]
    BY <2>0, <2>1, <2>5 DEF Collect
  <2>6. ASSUME NEW from, NEW to, Rollout(from, to) PROVE child'[k] = child[k]
    BY <2>0, <2>1, <2>6 DEF Rollout, Kinds
  <2>7. ~Edit  BY <1>1 DEF Edit, TypeOK
  <2>8. CASE UNCHANGED child  BY <2>8
  <2> QED
    BY <1>1, <2>3, <2>4, <2>5, <2>6, <2>7, <2>8
    DEF Next, Reconcile, Begin, UpdateStatus, UpdateStatusFails, Sync, EditCr, DeleteCr,
        EditChild, RolloutProceeds, RolloutGoesWrong, GarbageCollector, CollectCr, Restart, vars
<1>2. Inv /\ [Next]_vars => [\A k \in Kinds : Foreign(k) /\ edits' = edits
                               => child'[k] = child[k]]_vars
  BY <1>1
<1> QED  BY <1>2, InitInv, NextInv, PTL DEF Spec, ForeignIsUntouched

\* Status().Update() of a copy that is still the last version writes a status
\* of this very object and generation; nothing else writes one.
THEOREM StatusIsOfThisGenerationHolds == Spec => StatusIsOfThisGeneration
<1> DEFINE Claim == cr # None /\ cr' # None /\ cr'.status # cr.status /\ cr'.uid = cr.uid
                      => cr'.status.observed = cr.generation /\ rec.cr.uid = cr.uid
<1>1. ASSUME Inv, [Next]_vars PROVE Claim
  <2> USE DEF Inv
  <2>1. ASSUME rec.pc \in {"observed", "InvalidSpec"} \/ Failing,
               UpToDate, WriteCr([cr EXCEPT !.status = DesiredStatus])
        PROVE  Claim
    <3>1. cr \in ModelDeployment /\ rec.cr = cr
      BY <1>1, <2>1 DEF UpToDate, RecInv, TypeOK
    <3>2. cr'.status = DesiredStatus  BY <2>1, <3>1 DEF WriteCr, ModelDeployment
    <3>3. DesiredStatus.observed = cr.generation
      BY <3>1 DEF DesiredStatus, updateObservedStatus, FailureStatus, ModelDeployment, Status
    <3> QED  BY <3>1, <3>2, <3>3
  <2>2. CASE UNCHANGED cr  BY <2>2
  <2>3. ASSUME NEW spec \in Specs, EditCr(spec) PROVE Claim
    BY <1>1, <2>3 DEF EditCr, WriteCr, TypeOK, ModelDeployment
  <2>4. CASE DeleteCr  BY <1>1, <2>4 DEF DeleteCr, WriteCr, TypeOK, ModelDeployment
  <2>5. CASE CollectCr  BY <2>5 DEF CollectCr, WriteCr
  <2>6. CASE UpdateStatus  BY <2>1, <2>2, <2>6 DEF UpdateStatus
  <2>7. CASE UpdateStatusFails  BY <2>1, <2>2, <2>7 DEF UpdateStatusFails
  <2> QED
    BY <1>1, <2>2, <2>3, <2>4, <2>5, <2>6, <2>7
    DEF Next, Reconcile, Begin, CreateOrUpdate, CreateOrUpdateFails, Sync, EditChild,
        RolloutProceeds, RolloutGoesWrong, Rollout, GarbageCollector, Collect, Restart, vars
<1>2. Inv /\ [Next]_vars => [Claim]_vars  BY <1>1
<1> QED  BY <1>2, InitInv, NextInv, PTL DEF Spec, StatusIsOfThisGeneration
-----------------------------------------------------------------------------
(* No wake-up is lost                                                      *)

\* A wanted child is an owned one.
LEMMA WantedIsOwned ==
    ASSUME TypeOK, NEW k \in Kinds, cr # None, AsWanted(k)
    PROVE  Owned(child[k])
BY DEF TypeOK, AsWanted, Owned, ModelDeployment, Nobody

\* A write of the ModelDeployment, or of a child that is or was owned, wakes
\* the reconciler up: For() and Owns().
LEMMA WritesWake ==
    ASSUME TypeOK, CacheInv
    PROVE  /\ \A c : WriteCr(c) => Wake'
           /\ \A k \in Kinds, c \in Child \cup {None} :
                 WriteChild(k, c) /\ (Owned(child[k]) \/ Owned(c)) => Wake'
<1>1. ASSUME NEW c, WriteCr(c) PROVE behind'["cr"] = "event"
  BY <1>1 DEF WriteCr, TypeOK
<1>2. ASSUME NEW k \in Kinds, NEW c \in Child \cup {None},
             WriteChild(k, c), Owned(child[k]) \/ Owned(c)
      PROVE  behind'[k] = "event"
  BY <1>2 DEF WriteChild, TypeOK
<1> QED  BY <1>1, <1>2 DEF Wake

\* What nobody owned was not what the reconciler relied on.
LEMMA SilentWrite ==
    ASSUME TypeOK, SeenTheLast, NEW k \in Kinds, NEW c \in Child \cup {None},
           WriteChild(k, c), ~Owned(child[k]), UNCHANGED <<cr, rec>>
    PROVE  SeenTheLast'
<1>1. ASSUME NEW j \in Kinds, cr # None, AsWanted(j)
      PROVE  child'[j] = child[j] /\ AsWanted(j)'
  <2>1. j # k  BY <1>1, WantedIsOwned
  <2>2. child'[j] = child[j]  BY <2>1 DEF WriteChild, TypeOK
  <2> QED  BY <1>1, <2>2 DEF AsWanted
<1>2. "deployment" \in Kinds /\ "service" \in Kinds  BY DEF Kinds
<1>3. ASSUME cr # None, Converged PROVE Converged'
  <2>1. CASE cr.spec \in Invalid  BY <1>3, <2>1 DEF Converged
  <2>2. CASE cr.spec \notin Invalid
    <3>1. (\A j \in Kinds : AsWanted(j)) /\ Truthful  BY <1>3, <2>2 DEF Converged
    <3>2. \A j \in Kinds : child'[j] = child[j] /\ AsWanted(j)'  BY <1>1, <1>3, <3>1
    <3>3. Truthful'  BY <1>2, <3>1, <3>2 DEF Truthful
    <3> QED  BY <1>3, <2>2, <3>2, <3>3 DEF Converged
  <2> QED  BY <2>1, <2>2
<1> QED  BY <1>1, <1>2, <1>3 DEF SeenTheLast

\* Begin reads the last ModelDeployment, or an event is still to come.
LEMMA BeginWakes == Inv /\ Begin => WakeInv'
<1> SUFFICES ASSUME Inv, Begin, ~Wake' PROVE SeenTheLast'  BY DEF WakeInv
<1>1. crCache = cr  BY DEF Wake, Begin, Inv, CacheInv
<1> QED  BY <1>1 DEF Begin, SeenTheLast, Idle, Inv

\* CreateOrUpdate finds the child as wanted, and the last of it, or wakes.
LEMMA CreateOrUpdateWakes ==
    ASSUME Inv, WakeInv, NEW k \in Kinds, CreateOrUpdate(k)
    PROVE  WakeInv'
<1> SUFFICES ASSUME ~Wake' PROVE SeenTheLast'  BY DEF WakeInv
<1> USE DEF Inv
<1> DEFINE wanted == Mutated(k, childCache[k])
<1>0. /\ rec.pc = k /\ k \in {"deployment", "service"}
      /\ rec.cr \in ModelDeployment
      /\ UNCHANGED <<cr, dirty>>
  BY DEF CreateOrUpdate, Kinds, RecInv, TypeOK
<1>1. Owned(wanted)
  <2>1. wanted # None  BY <1>0, MutatedIsSome DEF TypeOK
  <2>2. wanted.owner = rec.cr.uid  BY DEF Mutated
  <2> QED  BY <1>0, <2>1, <2>2 DEF Owned, ModelDeployment, Nobody
<1>2. CASE Failed(k)
  BY <1>0, <1>2 DEF Failed, Goto, SeenTheLast, TypeOK
<1>3. CASE Accepted(k) /\ WriteChild(k, wanted) /\ Reconciled(k)
  <2>1. wanted \in Child  BY <1>0, <1>3, MutatedType DEF Accepted, TypeOK
  <2> QED  BY <1>1, <1>3, <2>1, WritesWake
<1>4. CASE childCache[k] = wanted /\ Reconciled(k) /\ UNCHANGED <<child, behind>>
  <2>1. ~Wake  BY <1>0, <1>4 DEF Wake
  <2>2. SeenTheLast  BY <2>1 DEF WakeInv
  <2>3. cr # None /\ rec.cr = cr  BY <1>0, <2>2 DEF SeenTheLast
  <2>4. behind[k] = "nothing"
    BY <1>1, <1>4, <2>1 DEF Wake, CacheInv, TypeOK
  <2>5. child[k] = wanted  BY <1>4, <2>4 DEF CacheInv
  <2>6. AsWanted(k)
    <3>1. wanted.owner = cr.uid /\ wanted.spec = DesiredSpec(k)  BY <2>3 DEF Mutated
    <3>2. wanted # None  BY <1>1 DEF Owned
    <3> HIDE DEF wanted
    <3> QED  BY <2>3, <2>5, <3>1, <3>2 DEF AsWanted, DesiredSpec
  <2>7. AsWanted(k)' /\ cr' = cr /\ child' = child /\ rec'.cr = cr
    BY <1>0, <1>4, <2>3, <2>6 DEF AsWanted, Reconciled, TypeOK
  <2>8. CASE k = "deployment"
    <3>1. rec'.pc = "service" /\ rec'.deployment = wanted
      BY <1>4, <2>8 DEF Reconciled, TypeOK
    <3> QED  BY <2>3, <2>5, <2>7, <2>8, <3>1 DEF SeenTheLast
  <2>9. CASE k = "service"
    <3>1. rec'.pc = "observed" /\ rec'.deployment = rec.deployment
      BY <1>4, <2>9 DEF Reconciled, TypeOK
    <3>2. AsWanted("deployment") /\ child["deployment"] = rec.deployment
      BY <1>0, <2>2, <2>9 DEF SeenTheLast
    <3>3. AsWanted("deployment")'  BY <2>7, <3>2 DEF AsWanted
    <3> QED  BY <2>3, <2>7, <2>9, <3>1, <3>2, <3>3 DEF SeenTheLast
  <2> QED  BY <1>0, <2>8, <2>9
<1> QED  BY <1>2, <1>3, <1>4 DEF CreateOrUpdate

\* A call that ends without an error, a write or a wake-up has converged.
LEMMA UpdateStatusWakes == Inv /\ WakeInv /\ UpdateStatus => WakeInv'
<1> SUFFICES ASSUME Inv, WakeInv, UpdateStatus, ~Wake' PROVE SeenTheLast'  BY DEF WakeInv
<1> USE DEF Inv
<1>1. ~dirty'  BY DEF Wake
<1>2. ~WriteCr([cr EXCEPT !.status = DesiredStatus])  BY WritesWake
<1>3. /\ DesiredStatus = rec.cr.status /\ ~Failing
      /\ UNCHANGED <<cr, child, behind>> /\ rec' = Idle /\ ~dirty
  BY <1>1, <1>2 DEF UpdateStatus, Return, TypeOK
<1>4. SeenTheLast  BY <1>3 DEF WakeInv, Wake
<1>5. rec.pc \in {"observed", "InvalidSpec"}  BY <1>3 DEF UpdateStatus
<1>6. cr # None /\ rec.cr = cr /\ cr \in ModelDeployment
  BY <1>4, <1>5 DEF SeenTheLast, TypeOK
<1>7. Converged
  <2>1. CASE rec.pc = "InvalidSpec"
    <3>1. cr.spec \in Invalid  BY <1>6, <2>1 DEF RecInv
    <3>2. cr.status = FailureStatus("InvalidSpec")
      BY <1>3, <1>6, <2>1 DEF DesiredStatus
    <3>3. cr.status \in Status  BY <1>6 DEF ModelDeployment
    <3>4. /\ cr.status.observed = cr.generation
          /\ cr.status.available = FALSE /\ cr.status.degraded = TRUE
      BY <1>6, <3>2, <3>3 DEF FailureStatus, Status
    <3> QED  BY <3>1, <3>4 DEF Converged
  <2>2. CASE rec.pc = "observed"
    <3>1. cr.spec \notin Invalid  BY <1>6, <2>2 DEF RecInv
    <3>2. cr.status = updateObservedStatus(child["deployment"])
      BY <1>3, <1>4, <1>6, <2>2 DEF DesiredStatus, SeenTheLast
    <3>3. \A k \in Kinds : AsWanted(k)  BY <1>4, <2>2 DEF SeenTheLast, Kinds
    <3>4. cr.status.observed = cr.generation
      BY <1>6, <3>2 DEF updateObservedStatus
    <3>5. Truthful
      <4> DEFINE rollout == child["deployment"].rollout
      <4>a. cr.status \in Status  BY <1>6 DEF ModelDeployment
      <4>1. cr.status.available = (rollout = "complete")
        <5> DEFINE st == updateObservedStatus(child["deployment"])
        <5>1. st.available = (rollout = "complete")  BY Zenon DEF updateObservedStatus
        <5> HIDE DEF st
        <5> QED  BY <3>2, <5>1, Zenon DEF st
      <4>2. cr.status.degraded = (rollout = "failed")
        <5> DEFINE st == updateObservedStatus(child["deployment"])
        <5>1. st.degraded = (rollout = "failed")  BY Zenon DEF updateObservedStatus
        <5> HIDE DEF st
        <5> QED  BY <3>2, <5>1, Zenon DEF st
      <4>3. rollout = "complete" => cr.status.active = cr.spec
        BY <1>6, <3>2 DEF updateObservedStatus
      <4> QED  BY <4>a, <4>1, <4>2, <4>3 DEF Truthful, Status
    <3> QED  BY <3>1, <3>3, <3>4, <3>5 DEF Converged
  <2> QED  BY <1>5, <2>1, <2>2
<1>8. Converged'  BY <1>3, <1>7 DEF Converged, AsWanted, Truthful
<1> QED  BY <1>3, <1>8 DEF SeenTheLast, Idle

\* Every step keeps the wake-up invariant.
LEMMA NextWakes == Inv /\ WakeInv /\ [Next]_vars => WakeInv'
<1> SUFFICES ASSUME Inv, WakeInv, [Next]_vars PROVE WakeInv'  OBVIOUS
<1> USE DEF Inv
<1>1. ASSUME UNCHANGED <<cr, child, rec, behind, dirty>> PROVE WakeInv'
  BY <1>1 DEF WakeInv, Wake, SeenTheLast, Converged, AsWanted, Truthful
<1>2. ASSUME NEW c, WriteCr(c) PROVE WakeInv'  BY <1>2, WritesWake DEF WakeInv
<1>3. ASSUME NEW k \in Kinds, NEW c \in Child \cup {None}, WriteChild(k, c),
             UNCHANGED <<cr, rec, dirty, crCache, childCache>>
      PROVE  WakeInv'
  <2>1. CASE Owned(child[k])  BY <1>3, <2>1, WritesWake DEF WakeInv
  <2>2. CASE ~Owned(child[k])
    <3>1. Wake => Wake'  BY <1>3, WriteChildKeeps DEF Wake
    <3>2. SeenTheLast => SeenTheLast'  BY <1>3, <2>2, SilentWrite
    <3> QED  BY <3>1, <3>2 DEF WakeInv
  <2> QED  BY <2>1, <2>2
<1>4. ASSUME rec'.pc \in {"DeploymentReconcileFailed", "ServiceReconcileFailed"} PROVE WakeInv'
  BY <1>4 DEF WakeInv, SeenTheLast
<1>5. CASE Reconcile
  BY <1>5, BeginWakes, CreateOrUpdateWakes, UpdateStatusWakes DEF Reconcile
<1>6. CASE UpdateStatusFails  BY <1>6 DEF UpdateStatusFails, Return, WakeInv, Wake
<1>7. ASSUME NEW k \in Kinds, CreateOrUpdateFails(k) PROVE WakeInv'
  BY <1>4, <1>7 DEF CreateOrUpdateFails, Failed, Goto, TypeOK
<1>8. ASSUME NEW k \in Kinds \cup {"cr"}, Sync(k) PROVE WakeInv'
  <2>1. CASE behind[k] = "event"  BY <1>8, <2>1 DEF Sync, Enqueue, WakeInv, Wake
  <2>2. CASE behind[k] # "event"
    <3>1. dirty' = dirty /\ UNCHANGED <<cr, child, rec>>
      BY <1>8, <2>2 DEF Sync, Enqueue, TypeOK
    <3>2. \A j \in Kinds \cup {"cr"} : behind[j] = "event" => behind'[j] = "event"
      BY <1>8, <2>2 DEF Sync, TypeOK
    <3>3. Wake => Wake'  BY <3>1, <3>2 DEF Wake
    <3>4. SeenTheLast => SeenTheLast'
      BY <3>1 DEF SeenTheLast, Converged, AsWanted, Truthful
    <3> QED  BY <3>3, <3>4 DEF WakeInv
  <2> QED  BY <2>1, <2>2
<1>9. CASE (\E spec \in Specs : EditCr(spec)) \/ DeleteCr \/ CollectCr
  BY <1>2, <1>9 DEF EditCr, DeleteCr, CollectCr
<1>10. ASSUME NEW k \in Kinds, EditChild(k) PROVE WakeInv'
  <2>1. CASE Owned(child[k])
    <3>1. \E c : WriteChild(k, c)  BY <1>10 DEF EditChild
    <3>2. behind'[k] = "event"  BY <2>1, <3>1 DEF WriteChild, TypeOK
    <3> QED  BY <3>2 DEF WakeInv, Wake
  <2>2. CASE ~Owned(child[k])
    <3>1. \A owner \in {Nobody, Other} :
             [owner |-> owner, spec |-> Drifted, rollout |-> "unseen"] \in Child
      BY ControllerAssumption DEF Child, Rollouts, Nobody, Other
    <3>2. \E c \in Child \cup {None} : WriteChild(k, c)
      BY <1>10, <2>2, <3>1 DEF EditChild
    <3> QED  BY <1>3, <1>10, <3>2 DEF EditChild
  <2> QED  BY <2>1, <2>2
<1>11. ASSUME NEW from, NEW to, Rollout(from, to) PROVE WakeInv'
  <2>1. "deployment" \in Kinds  BY DEF Kinds
  <2>2. behind'["deployment"] = "event"  BY <1>11, <2>1 DEF Rollout, WriteChild, TypeOK
  <2> QED  BY <2>1, <2>2 DEF WakeInv, Wake
<1>12. ASSUME NEW k \in Kinds, Collect(k) PROVE WakeInv'
  BY <1>3, <1>12 DEF Collect
<1>13. CASE Restart
  BY <1>13 DEF Restart, WakeInv, Wake, SeenTheLast, Idle
<1> QED
  BY <1>1, <1>5, <1>6, <1>7, <1>8, <1>9, <1>10, <1>11, <1>12, <1>13
  DEF Next, RolloutProceeds, RolloutGoesWrong, GarbageCollector, vars

\* With no event under way and an empty queue, the children and the status
\* are what the last spec asks for, whatever was stale, refused or lost.
THEOREM SettledIsConvergedHolds == Spec => []SettledIsConverged
<1>1. Init => WakeInv  BY DEF Init, Idle, WakeInv, SeenTheLast
<1>2. Inv /\ WakeInv => SettledIsConverged
  BY DEF Inv, TypeOK, WakeInv, Wake, SeenTheLast, SettledIsConverged, Settled
<1>3. Spec => [](Inv /\ WakeInv)  BY <1>1, InitInv, NextInv, NextWakes, PTL DEF Spec
<1> QED  BY <1>2, <1>3, PTL
=============================================================================
