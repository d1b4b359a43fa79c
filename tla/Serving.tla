------------------------------ MODULE Serving ------------------------------
(***************************************************************************)
(* What a client of one ModelDeployment is served while users change its   *)
(* version: the API's inference routes (src/app/deployment_routes.py and   *)
(* src/app/async_routes.py with src/app/worker.py) over the reconciler     *)
(* (src/controller), Kubernetes and the runtimes (src/runtime).            *)
(*                                                                         *)
(* The reconciler is taken from ModelDeploymentController with what        *)
(* matters here: it works on cached copies of the ModelDeployment and of   *)
(* the Deployment, and a write from a copy that is behind is refused.      *)
(* Pods are counted by version and phase; they are alike otherwise.        *)
(***************************************************************************)
EXTENDS Integers, Sequences, FiniteSets

CONSTANTS
    Versions,       \* the registered versions of the model
    Baked,          \* for each version, the version its runtime image says it is
    Replicas,       \* spec.replicas
    MaxEdits,       \* bound: changes of the spec
    MaxCrashes,     \* bound: crashes of a runtime
    MaxPods         \* bound: pods that exist at a time, terminating ones included

ASSUME ServingAssumption ==
    /\ IsFiniteSet(Versions)
    /\ Baked \in [Versions -> Versions] /\ \E v \in Versions : Baked[v] = v
    /\ Replicas \in Nat \ {0} /\ {MaxEdits, MaxCrashes, MaxPods} \subseteq Nat

\* "leaving": deleted and still serving; "stopping": refuses connections.  The
\* Service routes to both until its endpoints follow, as it does to "ready".
Phases == {"starting", "ready", "leaving", "stopping"}
Live == {"starting", "ready"}

VARIABLES
    specs,      \* the versions the spec has named, one per generation
    status,     \* the status: [available, endpoint]
    dep,        \* the Deployment: [gen, version] and the status Kubernetes gave it
    pods,       \* how many pods there are of each version in each phase
    seen,       \* the generation in the reconciler's cache
    view,       \* the Deployment in the reconciler's cache
    due,        \* is a reconciliation queued?
    crashes,    \* bound counter
    req         \* one client: [pc, answer]

vars == <<specs, status, dep, pods, seen, view, due, crashes, req>>
cluster == <<dep, pods, crashes>>
control == <<seen, view, due>>

spec == specs[Len(specs)]
Pods(vs, phases) == UNION {{k} \X (1..pods[k]) : k \in vs \X phases}
Count(vs, phases) == Cardinality(Pods(vs, phases))
Move(v, from, to) == [pods EXCEPT ![<<v, from>>] = @ - 1, ![<<v, to>>] = @ + 1]
NoAnswer == <<>>

-----------------------------------------------------------------------------
(* The runtime. *)

\* Settings refuses to start a runtime under another version than its image's.
RuntimeStarts(v) == Baked[v] = v

\* What a runtime of version v says: the version it was told, whose weights it
\* computed with.  Every image holds the weights of all versions.
Infer(v) == <<[version |-> v]>>

-----------------------------------------------------------------------------
(* Kubernetes, with the strategy mutateDeployment sets. *)

\* Mutant: no surge.
MaxSurgePercentNone == 0

\* The shares of mutateDeployment's rolling update.
MaxSurgePercent == 25
MaxUnavailablePercent == 25

\* A share is rounded up for the surge and down for what may be unavailable; one
\* pod may be unavailable when both are zero.
Surge == (Replicas * MaxSurgePercent + 99) \div 100
MinAvailable ==
    LET unavailable == (Replicas * MaxUnavailablePercent) \div 100
    IN  Replicas - (IF Surge = 0 /\ unavailable = 0 THEN 1 ELSE unavailable)

CreatePod ==
    /\ Count(Versions, Live) < Replicas + Surge
    /\ Count({dep.version}, Live) < Replicas
    /\ Count(Versions, Phases) < MaxPods
    /\ pods' = [pods EXCEPT ![<<dep.version, "starting">>] = @ + 1]
    /\ UNCHANGED <<dep, crashes>>

\* Old pods go: first those that are not ready, and ready ones while enough are.
ScaleDown(v) ==
    /\ v # dep.version
    /\ Count(Versions, Live) - MinAvailable - pods[<<dep.version, "starting">>] > 0
    /\ \/ pods[<<v, "starting">>] > 0 /\ pods' = [pods EXCEPT ![<<v, "starting">>] = @ - 1]
       \/ /\ pods[<<v, "ready">>] > 0 /\ Count(Versions, {"ready"}) > MinAvailable
          /\ pods' = Move(v, "ready", "leaving")
    /\ UNCHANGED <<dep, crashes>>

\* The startup and readiness probes ask /health/ready.
PodReady(v) ==
    /\ pods[<<v, "starting">>] > 0 /\ RuntimeStarts(v)
    /\ pods' = Move(v, "starting", "ready")
    /\ UNCHANGED <<dep, crashes>>

Crash(v) ==
    /\ pods[<<v, "ready">>] > 0 /\ crashes < MaxCrashes
    /\ pods' = Move(v, "ready", "starting") /\ crashes' = crashes + 1
    /\ UNCHANGED dep

\* A deleted pod stops accepting, and is gone once no endpoint leads to it.
PodStops(v) ==
    /\ \/ pods[<<v, "leaving">>] > 0 /\ pods' = Move(v, "leaving", "stopping")
       \/ pods[<<v, "stopping">>] > 0 /\ pods' = [pods EXCEPT ![<<v, "stopping">>] = @ - 1]
    /\ UNCHANGED <<dep, crashes>>

\* The Deployment's own status follows; terminating pods do not count.
Observed ==
    [observed |-> dep.gen, replicas |-> Count(Versions, Live),
     updated |-> Count({dep.version}, Live), ready |-> Count(Versions, {"ready"})]
SyncStatus ==
    /\ dep.status # Observed
    /\ dep' = [dep EXCEPT !.status = Observed]
    /\ UNCHANGED <<pods, crashes>>

Elsewhere == UNCHANGED <<specs, status, control, req>>

Kubernetes ==
    /\ \/ CreatePod \/ SyncStatus
       \/ \E v \in Versions : ScaleDown(v) \/ PodReady(v) \/ Crash(v) \/ PodStops(v)
    /\ Elsewhere

-----------------------------------------------------------------------------
(* The reconciler. *)

\* The cache learns of the ModelDeployment.
WatchSpec ==
    /\ seen < Len(specs) /\ seen' = Len(specs) /\ due' = TRUE
    /\ UNCHANGED <<specs, status, cluster, view, req>>

\* Mutant: the controller does not own the Deployment's events.
WatchDeploymentQuietly ==
    /\ view # dep /\ view' = dep
    /\ UNCHANGED <<specs, status, cluster, seen, due, req>>

\* The cache learns of the Deployment, whose events queue its owner.
WatchDeployment ==
    /\ view # dep /\ view' = dep /\ due' = TRUE
    /\ UNCHANGED <<specs, status, cluster, seen, req>>

\* Mutant: ready replicas count, whatever version they are of.
AvailableByReadiness(d) == d.status.observed = d.gen /\ d.status.ready = Replicas

\* Mutant: old pods may be left.
AvailableWhileOldRun(d) ==
    /\ d.status.observed = d.gen
    /\ d.status.updated = Replicas
    /\ d.status.ready = Replicas

\* updateObservedStatus: every replica is updated and ready, and no old one is left.
Available(d) ==
    /\ d.status.observed = d.gen
    /\ d.status.replicas = Replicas
    /\ d.status.updated = Replicas
    /\ d.status.ready = Replicas

\* updateStatusIfChanged: a write is refused, and the reconciliation repeated, if
\* the ModelDeployment has changed since it was read; nothing new is not written.
WriteStatus(value) ==
    IF seen = Len(specs) THEN status' = value /\ due' = FALSE
                         ELSE UNCHANGED status /\ due' \in {TRUE, value # status}

\* One Reconcile: CreateOrUpdate of the Deployment, then the status.
Reconcile ==
    /\ due
    /\ IF view.version = specs[seen]
         THEN /\ WriteStatus([available |-> Available(view), endpoint |-> TRUE])
              /\ UNCHANGED <<dep, view>>
         ELSE IF view = dep
         THEN /\ dep' = [dep EXCEPT !.gen = @ + 1, !.version = specs[seen]]
              /\ WriteStatus([available |-> Available(dep'), endpoint |-> TRUE])
              /\ UNCHANGED view
         ELSE /\ IF seen = Len(specs) THEN status' = [status EXCEPT !.available = FALSE]
                                      ELSE UNCHANGED status
              /\ UNCHANGED <<dep, view, due>>
    /\ UNCHANGED <<specs, pods, crashes, seen, req>>

-----------------------------------------------------------------------------
(* The API and its clients. *)

\* A user puts another version, or rolls back to one.
Put(v) ==
    /\ Len(specs) <= MaxEdits /\ v # spec
    /\ specs' = Append(specs, v)
    /\ UNCHANGED <<status, cluster, control, req>>

\* _ready_endpoint looks at the status alone.
ReadyEndpoint == status.available /\ status.endpoint

\* infer() and enqueue_job() read the ModelDeployment: 409 when it is not ready,
\* else the endpoint is kept, in the handler or in the queued job.
Ask(pc) ==
    /\ req.pc = "idle"
    /\ req' = [pc |-> IF ReadyEndpoint THEN pc ELSE "idle", answer |-> NoAnswer]
    /\ UNCHANGED <<specs, status, cluster, control>>

InferRoute == Ask("proxy")

\* A queue that is full, down or holds another request under that id refuses.
EnqueueRoute == Ask("queued") \/ Ask("idle")

\* The endpoint leads to any pod it routes to.  A pod that serves answers; one
\* that stops, no pod at all, or a timeout is an error.
Post ==
    /\ \/ \E v \in Versions :
            /\ pods[<<v, "ready">>] + pods[<<v, "leaving">>] > 0
            /\ req' = [pc |-> "idle", answer |-> Infer(v)]
       \/ req' = [pc |-> "idle", answer |-> NoAnswer]
    /\ UNCHANGED <<specs, status, cluster, control>>

\* infer() passes the runtime's answer on, or 502 or 503.
ProxyPost == req.pc = "proxy" /\ Post

\* A worker, at some time after the job was queued; an error fails the job.
ProcessJob == req.pc = "queued" /\ Post

Client == InferRoute \/ EnqueueRoute \/ ProxyPost \/ ProcessJob

-----------------------------------------------------------------------------
First == CHOOSE v \in Versions : Baked[v] = v

\* The deployment serves its first version and everyone knows it.
Init ==
    LET counts == [observed |-> 1, replicas |-> Replicas, updated |-> Replicas, ready |-> Replicas]
    IN  /\ specs = <<First>> /\ seen = 1
        /\ status = [available |-> TRUE, endpoint |-> TRUE]
        /\ dep = [gen |-> 1, version |-> First, status |-> counts] /\ view = dep
        /\ pods = [k \in Versions \X Phases |-> IF k = <<First, "ready">> THEN Replicas ELSE 0]
        /\ due = FALSE /\ crashes = 0
        /\ req = [pc |-> "idle", answer |-> NoAnswer]

Next ==
    \/ Kubernetes \/ WatchSpec \/ WatchDeployment \/ Reconcile \/ Client
    \/ \E v \in Versions : Put(v)

\* Kubernetes, the watches, the reconciler and the event loops go on; users and
\* clients need not.
Spec ==
    /\ Init /\ [][Next]_vars
    /\ WF_vars(CreatePod /\ Elsewhere) /\ WF_vars(SyncStatus /\ Elsewhere)
    /\ \A v \in Versions : /\ WF_vars(ScaleDown(v) /\ Elsewhere)
                           /\ WF_vars(PodReady(v) /\ Elsewhere)
                           /\ WF_vars(PodStops(v) /\ Elsewhere)
    /\ WF_vars(WatchSpec) /\ WF_vars(WatchDeployment) /\ WF_vars(Reconcile)
    /\ WF_vars(ProxyPost) /\ WF_vars(ProcessJob)

\* The status turns available only of a version whose runtime starts.  Deployment
\* status counts ready pods of all versions: those of the old one never pass for
\* a new one's that cannot start, however far the reconciler's copies are behind.
OnlyStartedIsAvailable ==
    [][status' # status /\ status'.available => Baked[specs[seen]] = specs[seen]]_vars

\* Only a crash takes the ready pods below the replicas less a rounded-down
\* quarter: a new version whose runtime never starts does not cost the old one its
\* capacity (the strategy and the probes of mutateDeployment).
CapacityKept ==
    [][crashes' = crashes =>
         LET ready == Count(Versions, {"ready"})
         IN  \/ ready' >= ready
             \/ ready' >= Replicas - (Replicas * MaxUnavailablePercent) \div 100]_vars

\* After the last change of the spec the routes stop, in the end, to answer from
\* another version: the status they trust is not True for ever on old pods.
EventuallyFresh ==
    <>[][req'.answer # req.answer /\ req'.answer # NoAnswer
           => req'.answer[1].version = spec]_vars

\* A spec whose image is of its version is, in the end, reported available.
EventuallyAvailable == <>[](Baked[spec] = spec => status.available)
=============================================================================
