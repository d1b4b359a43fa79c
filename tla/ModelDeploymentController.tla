---------------------- MODULE ModelDeploymentController ----------------------
(***************************************************************************)
(* The reconciler of one ModelDeployment:                                  *)
(* controller/internal/controller/modeldeployment_controller.go, with the  *)
(* parts of Kubernetes and controller-runtime that it relies on.           *)
(*                                                                         *)
(* Reconcile() reads its informers' caches, which lag behind the API       *)
(* server by any time, and writes to the API server, which refuses a write *)
(* based on an object that has changed since.  Each write is one step.     *)
(* A watch event is kept as what it still has to do: until a cache has     *)
(* seen the last write of an object, it is behind.                         *)
(***************************************************************************)
EXTENDS Integers

CONSTANTS
    Specs,      \* what a ModelDeployment may ask for
    Invalid,    \* the specs that validateSpec() rejects
    Unfit,      \* other specs whose Deployment the API server rejects
    ServiceSpec, Drifted,   \* the wanted Service, a child a user has edited
    None,       \* no object, no version
    MaxEdits,   \* bound: changes that users and the cluster make
    MaxFaults   \* bound: failed API calls, restarts, rollouts that go wrong

ASSUME ControllerAssumption ==
    /\ Invalid \cap Unfit = {} /\ Invalid \cup Unfit \subseteq Specs
    /\ {None, ServiceSpec, Drifted} \cap Specs = {} /\ ServiceSpec # Drifted
    /\ MaxEdits \in Nat /\ MaxFaults \in Nat

VARIABLES
    cr,         \* the ModelDeployment
    child,      \* the Deployment and the Service of its name
    crCache,    \* the informers' copies
    childCache,
    behind,     \* what each informer has still to see
    dirty,      \* the work queue holds the request
    rec,        \* the Reconcile call that is running
    edits, faults

vars == <<cr, child, crCache, childCache, behind, dirty, rec, edits, faults>>

Kinds == {"deployment", "service"}

Status == [observed: 0..MaxEdits, available: BOOLEAN, progressing: BOOLEAN,
           degraded: BOOLEAN, active: Specs \cup {None},
           reason: {"none", "InvalidSpec", "DeploymentReconcileFailed",
                    "ServiceReconcileFailed", "RolloutFailed", "ReconcileSucceeded"}]
NoStatus == [observed |-> 0, available |-> FALSE, progressing |-> FALSE,
             degraded |-> FALSE, active |-> None, reason |-> "none"]

\* uid and generation are the number of the edit that made them.
ModelDeployment == [uid: 1..MaxEdits, generation: 1..MaxEdits, spec: Specs,
                    deleting: BOOLEAN, status: Status]

\* The controller owner of a child: a uid, or one of these.
Nobody == 0
Other == -1

\* A Deployment's spec is the ModelDeployment's it was made of.  The rollout is
\* the Deployment's status: "unseen" until its observedGeneration is the
\* Deployment's.
Rollouts == {"unseen", "progressing", "complete", "failed"}
Child == [owner: Other..MaxEdits,
          spec: (Specs \ (Invalid \cup Unfit)) \cup {ServiceSpec, Drifted},
          rollout: Rollouts]

ASSUME NoneIsNoChild ==
    None \notin [owner: Int, spec: Specs \cup {ServiceSpec, Drifted}, rollout: Rollouts]

Owned(object) == object # None /\ object.owner > Nobody

Idle == [pc |-> "idle", cr |-> None, current |-> FALSE, deployment |-> None]

TypeOK ==
    /\ cr \in ModelDeployment \cup {None}
    /\ child \in [Kinds -> Child \cup {None}]
    /\ crCache \in ModelDeployment \cup {None}
    /\ childCache \in [Kinds -> Child \cup {None}]
    /\ behind \in [Kinds \cup {"cr"} -> {"nothing", "change", "event"}]
    /\ dirty \in BOOLEAN
    /\ rec \in [pc: {"idle", "deployment", "service", "observed", "InvalidSpec",
                     "DeploymentReconcileFailed", "ServiceReconcileFailed"},
                cr: ModelDeployment \cup {None}, current: BOOLEAN,
                deployment: Child \cup {None}]
    /\ edits \in 0..MaxEdits
    /\ faults \in 0..MaxFaults

Init ==
    /\ cr = None /\ crCache = None
    /\ child = [k \in Kinds |-> None] /\ childCache = child
    /\ behind = [k \in Kinds \cup {"cr"} |-> "nothing"]
    /\ dirty = FALSE
    /\ rec = Idle
    /\ edits = 0 /\ faults = 0
-----------------------------------------------------------------------------
(* The API server and the informers.                                       *)

\* A write of the ModelDeployment outdates every copy of it.
WriteCr(object) ==
    /\ cr' = object
    /\ behind' = [behind EXCEPT !["cr"] = "event"]

\* A write of a child; SetupWithManager()'s Owns() maps its event to the
\* controller owner it has or had, by name.
WriteChild(k, object) ==
    /\ child' = [child EXCEPT ![k] = object]
    /\ behind' = [behind EXCEPT ![k] =
          IF Owned(child[k]) \/ Owned(object) THEN "event"
          ELSE IF @ = "event" THEN "event" ELSE "change"]

\* Mutant: only the ModelDeployment is watched.
EnqueueForCr(k) == k = "cr"

\* For() and Owns(): the objects whose events put the request on the queue.
Enqueue(k) == behind[k] = "event"

Sync(k) ==
    /\ behind[k] # "nothing"
    /\ IF k = "cr" THEN crCache' = cr /\ UNCHANGED childCache
       ELSE childCache' = [childCache EXCEPT ![k] = child[k]] /\ UNCHANGED crCache
    /\ behind' = [behind EXCEPT ![k] = "nothing"]
    /\ dirty' = (dirty \/ Enqueue(k))
    /\ UNCHANGED <<cr, child, rec, edits, faults>>

Fault ==
    /\ faults < MaxFaults
    /\ faults' = faults + 1
-----------------------------------------------------------------------------
(* Reconcile()                                                             *)

Goto(pc) == rec' = [rec EXCEPT !.pc = pc]

\* Reconcile returns; an error puts the request back on the queue.
Return(failed) ==
    /\ rec' = Idle
    /\ dirty' = (dirty \/ failed)

\* Mutant: the spec is not validated.
BeginUnvalidated ==
    /\ rec.pc = "idle" /\ dirty
    /\ dirty' = FALSE
    /\ rec' = IF crCache = None \/ (crCache # None /\ crCache.deleting) THEN Idle
              ELSE [pc |-> "deployment", cr |-> crCache,
                    current |-> behind["cr"] = "nothing", deployment |-> None]
    /\ UNCHANGED <<cr, child, crCache, childCache, behind, edits, faults>>

\* Mutant: an object that is being deleted is reconciled.
BeginDeleting ==
    /\ rec.pc = "idle" /\ dirty
    /\ dirty' = FALSE
    /\ rec' = IF crCache = None THEN Idle
              ELSE [pc |-> IF crCache.spec \in Invalid
                             THEN "InvalidSpec" ELSE "deployment",
                    cr |-> crCache, current |-> behind["cr"] = "nothing",
                    deployment |-> None]
    /\ UNCHANGED <<cr, child, crCache, childCache, behind, edits, faults>>

\* The request is taken from the queue and the ModelDeployment from the cache.
Begin ==
    /\ rec.pc = "idle" /\ dirty
    /\ dirty' = FALSE
    /\ rec' = IF crCache = None \/ (crCache # None /\ crCache.deleting) THEN Idle
              ELSE [pc |-> IF crCache.spec \in Invalid
                             THEN "InvalidSpec" ELSE "deployment",
                    cr |-> crCache, current |-> behind["cr"] = "nothing",
                    deployment |-> None]
    /\ UNCHANGED <<cr, child, crCache, childCache, behind, edits, faults>>

DesiredSpec(k) == IF k = "deployment" THEN rec.cr.spec ELSE ServiceSpec

\* Mutant: whatever has the name is taken over.
ensureControllerOwnershipOfAnything(object) == TRUE

\* An object nobody controls is not adopted, nor one of another controller.
\* An owner of the same name is the same owner, whatever its uid.
ensureControllerOwnership(object) == object = None \/ Owned(object)

\* mutateDeployment() and mutateService() with the owner reference.
Mutated(k, object) ==
    [owner |-> rec.cr.uid, spec |-> DesiredSpec(k),
     rollout |-> IF object # None /\ object.spec = DesiredSpec(k)
                   THEN object.rollout ELSE "unseen"]

\* The API server takes a create if there is no object, an update if it is
\* based on the last version of it, and neither of a spec it does not admit.
Accepted(k) ==
    /\ k = "deployment" => rec.cr.spec \notin Unfit
    /\ IF childCache[k] = None THEN child[k] = None ELSE behind[k] = "nothing"

Reconciled(k) ==
    rec' = [rec EXCEPT !.pc = IF k = "deployment" THEN "service" ELSE "observed",
                       !.deployment = IF k = "deployment"
                                        THEN Mutated(k, childCache[k]) ELSE @]

Failed(k) == Goto(IF k = "deployment" THEN "DeploymentReconcileFailed"
                                      ELSE "ServiceReconcileFailed")

\* controllerutil.CreateOrUpdate(): no write if the cached object is as wanted.
CreateOrUpdate(k) ==
    LET cached == childCache[k]  wanted == Mutated(k, cached) IN
    /\ rec.pc = k
    /\ \/ /\ ~ensureControllerOwnership(cached)
          /\ Failed(k)
          /\ UNCHANGED <<child, behind>>
       \/ /\ ensureControllerOwnership(cached)
          /\ cached = wanted
          /\ Reconciled(k)
          /\ UNCHANGED <<child, behind>>
       \/ /\ ensureControllerOwnership(cached)
          /\ cached # wanted
          /\ IF Accepted(k) THEN WriteChild(k, wanted) /\ Reconciled(k)
             ELSE Failed(k) /\ UNCHANGED <<child, behind>>
    /\ UNCHANGED <<cr, crCache, childCache, dirty, edits, faults>>

\* The call of the API server fails, whether or not it was carried out.
CreateOrUpdateFails(k) ==
    LET wanted == Mutated(k, childCache[k]) IN
    /\ rec.pc = k
    /\ ensureControllerOwnership(childCache[k]) /\ childCache[k] # wanted
    /\ Fault
    /\ Failed(k)
    /\ \/ UNCHANGED <<child, behind>>
       \/ Accepted(k) /\ WriteChild(k, wanted)
    /\ UNCHANGED <<cr, crCache, childCache, dirty, edits>>
-----------------------------------------------------------------------------
(* The status.                                                             *)

\* updateInvalidStatus() and reconcileError()
FailureStatus(reason) ==
    [rec.cr.status EXCEPT !.observed = rec.cr.generation, !.available = FALSE,
        !.progressing = FALSE, !.degraded = TRUE, !.reason = reason]

updateObservedStatus(deployment) ==
    LET available == deployment.rollout = "complete"
        failure == deployment.rollout = "failed"
    IN [observed |-> rec.cr.generation,
        available |-> available,
        progressing |-> ~available /\ ~failure,
        degraded |-> failure,
        active |-> IF available THEN rec.cr.spec ELSE rec.cr.status.active,
        reason |-> IF failure THEN "RolloutFailed" ELSE "ReconcileSucceeded"]

DesiredStatus == IF rec.pc = "observed" THEN updateObservedStatus(rec.deployment)
                                        ELSE FailureStatus(rec.pc)

\* Mutant: an invalid spec is an error, too.
FailingInvalid ==
    rec.pc \in {"InvalidSpec", "DeploymentReconcileFailed", "ServiceReconcileFailed"}

\* Paths that return an error even if the status is written.
Failing == rec.pc \in {"DeploymentReconcileFailed", "ServiceReconcileFailed"}

\* Mutant: a patch, which does not look at the resourceVersion.
UpToDateEnough == cr # None

\* Nobody has written the ModelDeployment since the copy in hand.
UpToDate == rec.current

\* updateStatusIfChanged(), the end of every path
UpdateStatus ==
    /\ rec.pc \in {"observed", "InvalidSpec"} \/ Failing
    /\ \/ /\ DesiredStatus = rec.cr.status
          /\ Return(Failing)
          /\ UNCHANGED <<cr, behind>>
       \/ /\ DesiredStatus # rec.cr.status
          /\ UpToDate
          /\ WriteCr([cr EXCEPT !.status = DesiredStatus])
          /\ Return(Failing)
       \/ /\ DesiredStatus # rec.cr.status
          /\ ~UpToDate
          /\ Return(TRUE)
          /\ UNCHANGED <<cr, behind>>
    /\ UNCHANGED <<child, crCache, childCache, edits, faults>>

UpdateStatusFails ==
    /\ rec.pc \in {"observed", "InvalidSpec"} \/ Failing
    /\ DesiredStatus # rec.cr.status
    /\ Fault
    /\ Return(TRUE)
    /\ \/ UNCHANGED <<cr, behind>>
       \/ UpToDate /\ WriteCr([cr EXCEPT !.status = DesiredStatus])
    /\ UNCHANGED <<child, crCache, childCache, edits>>
-----------------------------------------------------------------------------
(* Users, the Deployment controller, the garbage collector, restarts.      *)

Edit ==
    /\ edits < MaxEdits
    /\ edits' = edits + 1

EditCr(spec) ==
    /\ Edit
    /\ \/ /\ cr = None
          /\ WriteCr([uid |-> edits', generation |-> edits', spec |-> spec,
                      deleting |-> FALSE, status |-> NoStatus])
       \/ /\ cr # None
          /\ cr.spec # spec
          /\ WriteCr([cr EXCEPT !.spec = spec, !.generation = edits'])
    /\ rec' = [rec EXCEPT !.current = FALSE]
    /\ UNCHANGED <<child, crCache, childCache, dirty, faults>>

\* In the background, or in the foreground: then the object stays until the
\* garbage collector has deleted its children.
DeleteCr ==
    /\ Edit
    /\ cr # None
    /\ \/ WriteCr(None)
       \/ ~cr.deleting /\ WriteCr([cr EXCEPT !.deleting = TRUE])
    /\ rec' = [rec EXCEPT !.current = FALSE]
    /\ UNCHANGED <<child, crCache, childCache, dirty, faults>>

\* A user creates a child of that name, deletes, edits or releases one.
EditChild(k) ==
    /\ Edit
    /\ \/ /\ child[k] = None
          /\ \E owner \in {Nobody, Other} :
                WriteChild(k, [owner |-> owner, spec |-> Drifted, rollout |-> "unseen"])
       \/ child[k] # None /\ WriteChild(k, None)
       \/ /\ Owned(child[k])
          /\ \/ WriteChild(k, [child[k] EXCEPT !.spec = Drifted, !.rollout = "unseen"])
             \/ WriteChild(k, [child[k] EXCEPT !.owner = Nobody])
    /\ UNCHANGED <<cr, crCache, childCache, dirty, rec, faults>>

Rollout(from, to) ==
    /\ Owned(child["deployment"])
    /\ child["deployment"].rollout = from
    /\ WriteChild("deployment", [child["deployment"] EXCEPT !.rollout = to])
    /\ UNCHANGED <<cr, crCache, childCache, dirty, rec, edits>>

RolloutProceeds ==
    /\ Rollout("unseen", "progressing") \/ Rollout("progressing", "complete")
    /\ UNCHANGED faults

RolloutGoesWrong ==
    /\ Fault
    /\ \/ Rollout("progressing", "failed")
       \/ Rollout("complete", "progressing")
       \/ Rollout("failed", "complete")

Collect(k) ==
    /\ Owned(child[k])
    /\ cr = None \/ (cr # None /\ (cr.uid # child[k].owner \/ cr.deleting))
    /\ WriteChild(k, None)
    /\ UNCHANGED <<cr, crCache, childCache, dirty, rec, edits, faults>>

CollectCr ==
    /\ cr # None /\ cr.deleting
    /\ \A k \in Kinds : child[k] # None => child[k].owner # cr.uid
    /\ WriteCr(None)
    /\ rec' = [rec EXCEPT !.current = FALSE]
    /\ UNCHANGED <<child, crCache, childCache, dirty, edits, faults>>

\* The manager dies and starts again: the informers list what there is.
Restart ==
    /\ Fault
    /\ crCache' = cr /\ childCache' = child
    /\ behind' = [k \in DOMAIN behind |-> "nothing"]
    /\ dirty' = (cr # None \/ \E k \in Kinds : Owned(child[k]))
    /\ rec' = Idle
    /\ UNCHANGED <<cr, child, edits>>

Reconcile == Begin \/ UpdateStatus \/ \E k \in Kinds : CreateOrUpdate(k)
GarbageCollector == CollectCr \/ \E k \in Kinds : Collect(k)

Next ==
    \/ Reconcile
    \/ UpdateStatusFails
    \/ \E k \in Kinds : CreateOrUpdateFails(k)
    \/ \E k \in Kinds \cup {"cr"} : Sync(k)
    \/ \E spec \in Specs : EditCr(spec)
    \/ DeleteCr
    \/ \E k \in Kinds : EditChild(k)
    \/ RolloutProceeds
    \/ RolloutGoesWrong
    \/ GarbageCollector
    \/ Restart

Spec == Init /\ [][Next]_vars

\* The worker runs, watches deliver, Kubernetes' own controllers run.
FairSpec ==
    /\ Spec
    /\ WF_vars(Reconcile)
    /\ \A k \in Kinds \cup {"cr"} : WF_vars(Sync(k))
    /\ WF_vars(RolloutProceeds)
    /\ WF_vars(GarbageCollector)
-----------------------------------------------------------------------------
(* Properties                                                              *)

Settled == rec.pc = "idle" /\ ~dirty /\ \A k \in DOMAIN behind : behind[k] = "nothing"

Foreign(k) == child[k] # None /\ ~Owned(child[k])

AsWanted(k) ==
    /\ child[k] # None
    /\ child[k].owner = cr.uid
    /\ child[k].spec = IF k = "deployment" THEN cr.spec ELSE ServiceSpec

\* The status of a valid spec says what the Deployment's status says.
Truthful ==
    LET rollout == child["deployment"].rollout IN
    /\ cr.status.available = (rollout = "complete")
    /\ cr.status.degraded = (rollout = "failed")
    /\ cr.status.available => cr.status.active = cr.spec

Converged ==
    /\ cr.status.observed = cr.generation
    /\ IF cr.spec \in Invalid THEN ~cr.status.available /\ cr.status.degraded
       ELSE (\A k \in Kinds : AsWanted(k)) /\ Truthful

\* When no event is under way and the queue is empty, the reconciler has
\* nothing left to do: the children are as the spec asks, the status says what
\* the Deployment's says, and an invalid spec is reported.  No order of
\* events, conflicts, failed calls and restarts loses the last wake-up.
SettledIsConverged == Settled /\ cr # None /\ ~cr.deleting => Converged

\* "A pre-existing same-name object without a controller owner is rejected"
\* (docs/controller.md): an object that the reconciler does not own is changed
\* by users only, however stale the cached copy was that looked like its own.
ForeignIsUntouched ==
    [][\A k \in Kinds : Foreign(k) /\ edits' = edits => child'[k] = child[k]]_vars

\* A status is written for the generation and the object it was computed of.
StatusIsOfThisGeneration ==
    [][cr # None /\ cr' # None /\ cr'.status # cr.status /\ cr'.uid = cr.uid
         => /\ cr'.status.observed = cr.generation
            /\ rec.cr.uid = cr.uid]_vars

\* The retries end: unless the API server or a foreign object refuses what
\* the spec asks for, the reconciler comes to rest once users do.
EventuallySettles ==
    <>[](\/ Settled
         \/ cr # None /\ ~cr.deleting /\ (cr.spec \in Unfit \/ \E k \in Kinds : Foreign(k)))

\* A ModelDeployment deleted in the foreground goes: the reconciler does not
\* keep creating the children that the garbage collector deletes.
DeletionCompletes == (cr # None /\ cr.deleting) ~> (cr = None)

\* "`activeModel` and `activeVersion` change only after the current workload
\* is fully available" (docs/controller.md): when the status first says so,
\* the Deployment that the reconciler last wrote is of that spec.
AvailableIsOfThisSpec ==
    [][cr # None /\ cr' # None /\ cr'.status # cr.status /\ cr'.status.available
            /\ child["deployment"] # None /\ child["deployment"].spec \in Specs
         => child["deployment"].spec = cr.spec]_vars
=============================================================================
