# Kernexys in TLA+

Kernexys is a small inference platform. A **control API** (FastAPI) keeps a
registry of models and versions in PostgreSQL, writes `ModelDeployment`
resources to Kubernetes by server-side apply, and accepts asynchronous
inference jobs into Redis. A **controller** (Go) turns each `ModelDeployment`
into a Deployment and a Service and reports their state. **Workers** take jobs
from Redis, call the deployed **runtime** and store the outcome, which clients
poll through the control API.

This directory holds TLA+ models of that code, the TLC runs that check them on
small instances, and TLAPS proofs of the theorems that hold for every instance.

## Inventory

| Part | Source | State | What changes it |
|---|---|---|---|
| Async queue | `app/async_queue.py` | two Redis lists, a hash per job, the recovery lock | enqueue, claim, finish, sweep, key expiry |
| Worker | `app/worker.py` | tasks of each process, stop event | Redis replies, runtime answers, signals, crashes |
| Async and inference routes | `app/async_routes.py`, `app/deployment_routes.py` | none of their own | - |
| Registry | `app/repository.py`, `app/routes.py`, `app/db_models.py` | rows of two tables | put model, put version |
| Deployment API | `app/deployment_routes.py`, `app/kubernetes.py` | the `ModelDeployment` resource | put, rollback, delete |
| Controller | `controller/internal/controller/` | Deployment, Service, status | reconcile, watch events |
| Body limit | `app/middleware.py`, `runtime/runtime_app/middleware.py` | buffered chunks | ASGI messages |
| Runtime | `runtime/runtime_app/` | the loaded classifier | start-up, shutdown |
| API life cycle | `app/main.py`, `app/routes.py` | engine, gateway and queue client | start-up, shutdown, readiness checks |

Where concurrency enters: any number of workers with several `consume()` tasks
each, plus a sweeper per process, share Redis with the API replicas; API
replicas share the database and the Kubernetes API with each other and with the
controller. Failures the code handles: a worker that dies or is stopped at any
await, a Redis call that fails, or whose reply is lost and that redis-py sends
again, a runtime that errs or times out, records whose TTL runs out, a unique
constraint hit by a concurrent insert, a resourceVersion conflict.

What the docs and comments promise of the queue: delivery is at least once
(`async_queue.py:213`), a live worker's job is not taken from it
(`async_queue.py:203-206`), a finished job is never resurrected
(`async_queue.py:206-208`; `OutcomeIsFinal`, in the timely regime), one worker sweeps per interval (`worker.py:67-68`),
a repeat of a request gets the same job (`docs/async-inference.md:8-9`), the
queue is capacity-limited and its jobs TTL-bound (`docs/architecture.md:87`).
Of the rest: a version is immutable and an exact repeat is accepted
(`docs/development.md:61-63`), a field of another manager is never stolen and a
rollback does not race an update (`docs/architecture.md:44-47`), a foreign object
is not adopted, transient failures are retried and invalid specs are not
(`docs/controller.md:36-56`), an oversized request is refused before the endpoint
parses it (`docs/architecture.md:129-130`), a runtime whose image does not hold the
requested version does not start (`docs/runtime.md:12-13`).

## Modules

| Module | Models |
|---|---|
| `InferenceQueue` | the queue and its workers, one step per Redis command |
| `JobLifecycle` | what a client is promised of a job: queued, running, requeued after a failure, settled once |
| `MCInferenceQueue` | symmetry for TLC |
| `InferenceQueue_proofs` | theorems that hold in every regime |
| `InferenceQueueTimely_proofs` | theorems about the timely regime, and the refinement |
| `ModelRegistry` | puts of models and versions, one step per SQL statement, and the paged list |
| `RegistryService` | what the registry promises: every put takes effect at one instant |
| `DeploymentApi` | put, get, delete and rollback of one ModelDeployment against server-side apply |
| `ModelDeploymentController` | Reconcile with lagging caches, and the Kubernetes it works in |
| `DeploymentSpec` | validation and defaults of a spec, as operators |
| `BodyLimit` | one request through the body-limit middleware of the API or of the runtime |
| `AsgiApp` | either application from start to stop, with that request and the readiness check |
| `Serving` | API, reconciler, rollout and runtimes together: what a client is served while the version changes |
| `MCModelRegistry`, `MCDeploymentApi`, `MCModelDeploymentController` | symmetry for TLC |
| `MCServing` | the versions of the run `serving` |
| `ModelDeploymentController_proofs`, `DeploymentSpec_proofs` | theorems about the controller |
| `ModelRegistry_proofs` | theorems about the registry, and the refinement of `RegistryService` |
| `DeploymentApi_proofs`, `AsgiApp_proofs`, `Serving_proofs` | theorems about those modules |

Definitions whose comment starts with *Mutant* are plausible mistakes in the
code; replacing the definition after them by one breaks a property that the runs
check. They are part of no specification.

### InferenceQueue

State: `queue` is the list `kernexys:inference:queued`; `processing` counts how
often `kernexys:inference:processing` holds each id (LREM removes by id, so
their order matters only for the order in which a sweep requeues, which the
model leaves open); `job` holds the hashes; `lock` is the time the recovery lock
has still to live; `phase`, `consumer` and `sweeper` say where each process and
each task is.

Steps: `Enqueue` is the enqueue script. A claim is `ClaimPop` (BLMOVE),
`ClaimRead` (HGETALL), then `ClaimStamp` (HSET) or `ClaimDrop` (LREM), with
anything else in between. `ProcessJob` is the call of the runtime and `Finish`
the MULTI block. `RecoverAcquire` is SET NX EX and `RecoverSweep` the sweep
script. `CallLost` is a Redis call that did not reach Redis, `ReplyLost`,
`RecoverFails` and `RecoverResent` are calls that Redis ran but whose reply was
lost, whether the client sends them again or gives up. `Start`, `Stop`, `Exit`
and `Crash` are the process's life cycle, `Expire` Redis dropping a record.

Time is kept as ages: `claimed` is how long ago a stamp was written, the lock
counts down, and both stop at the largest value that a comparison of the code
can tell from a larger one. `MaxLag` bounds how old a `time.time()` is when
Redis stores or compares it, and so how long a sweep holds the lock before its
script runs. `MaxLag < Lease` is assumed throughout: a Redis call ends by
its socket timeout (5 s by default) and its few retries, and the lease is at
least 30 s. A process suspended for a lease between two lines of
`recover_processing` is outside the model.

Two constants choose the regime. `Timely` says that a live worker handles a job
within `Deadline`, with `Deadline + MaxLag < Lease`: this is what the code's
lease of `max(2 * timeout, 30)` is for, and what a worker that is suspended
between two Redis calls breaks. `TtlElapses` says whether a record may expire.

### ModelRegistry

State: `models` and `versions` are the rows of the two tables, `request` says at
which statement each PUT is and what it was answered, `walk` is a client that
reads `GET /models` page after page. A statement sees what is committed when it
starts, so requests interleave between any two. `GetModel`, `InsertModel` and
`UpdateModel` are the statements of `put_model`, `CheckModel`, `GetVersion` and
`InsertVersion` those of `put_version`; the primary key and the unique
constraint turn the second of two inserts into the `except IntegrityError`
branch. `StatementFails` fails a statement before it took effect or after its
commit; what SQLAlchemy raises then is answered 503, what comes through it from
the driver (a refused connection, a timeout) 500. Runtime image and digest are one
value; metadata is one of three JSON documents, two of which Python takes for equal.
Nothing deletes rows, as in the code.

### DeploymentApi

State: the object is what server-side apply sees, a value and a set of managers
per field. A request takes one step per call it awaits: `Get`, `GetVersion` (the
registry), `Apply`, `Delete`. `current` says whether the object is still the one
that a rollback has read, which is what its resourceVersion tests. `GiveUp` is a
call that times out or fails: the client is answered 503 and the write may still
arrive, after anything else. `Edit` is kubectl or the controller's status write.
A rollback whose object was deleted meanwhile is taken to be refused, as the API
server refuses a resourceVersion on a create. `infer` only reads.

### ModelDeploymentController

State: the live ModelDeployment and its two children, the informers' copies, and
for each informer what it has `behind` it: nothing, a change nobody is told of
(an object that no ModelDeployment controls), or an event that will put the
request on the queue. `dirty` is the work queue, which holds a request at most
once; `rec` is the running `Reconcile` with the copy of the ModelDeployment it
works on, and whether that copy is still current.

Steps: `Begin` is the head of `Reconcile` up to validation; `CreateOrUpdate` is
one `controllerutil.CreateOrUpdate` with the ownership check, the mutation and
at most one write; `UpdateStatus` is the end of every path. `...Fails` are the
same calls when the API server's answer is an error, carried out or not. `Sync`
delivers to a cache, `Restart` is a new manager process. Users edit, delete (in
both ways) and recreate the ModelDeployment, and create, edit, release or delete
children. One key is never reconciled twice at a time, which is
controller-runtime's work queue; two managers that both believe they lead are
outside the model. Of the status, messages, endpoint and replica counts are left
out; a Deployment's status is where its rollout is.

### DeploymentSpec

`validateSpec`, `effectiveResources`, the two defaults and the parts of
`mutateDeployment` that the API server validates, over specs whose strings are
blank or not and whose quantities are integers, `Unit` of which make a whole.
`Admitted` is the API server's validation of a Deployment and of its container's
resources, which has four kinds of names: native ones such as cpu and memory;
extended resources (`nvidia.com/gpu`), which are whole numbers and never
overcommitted; huge pages, which in addition want cpu or memory beside them; and
names that are neither native nor qualified with a domain. The lengths of names
are left out. The only steps are a user's edits.

### BodyLimit and AsgiApp

`BodyLimit` has the locals of `RequestBodyLimitMiddleware.__call__` (`buffered`,
`total`), two histories (`sent`, what the server's `receive()` returned, and
`read`, what the application got) and `pc`. `CheckDeclared` is the look at
Content-Length, `BufferMessage` one turn of the loop, `ApiReplay` and
`RuntimeReplay` the two `_replay` functions: the API's goes on with the server's
`receive()`, the runtime's says for ever that the body has ended. The server is
any ASGI server: it need not have compared the header with the body, and it
returns the disconnect at once when the client has left. A header that is absent
or no integer has the same effect and is one case.

`AsgiApp` extends it with the lifespan. `OpenGateway`, `OpenQueue`, `CloseQueue`,
`CloseGateway` and `DisposeEngine` are the awaits of `create_app`'s `lifespan` in
their order, each of which may raise; `RuntimeLifespan` is the runtime's. What
create_app was given and which parts are enabled is chosen once. `Ready` is one
check of `GET /health/ready`; dependencies go down and come back while it runs.
Uvicorn is taken to drain, or cancel after its graceful timeout, before the
lifespan goes on (`Signal`, `Drained`). RequestContextMiddleware, which only adds
a header and logs, is left out.

### Serving

State: `specs` are the versions the spec has named, one per generation; `status`
is what `_ready_endpoint` reads of the ModelDeployment; `dep` the Deployment;
`pods` counts pods by version and phase; `seen`, `view` and `due` are the
reconciler's caches and queue; `req` is one client, which asks again and again.

`Reconcile` is the whole function for a valid spec: CreateOrUpdate of the
Deployment, refused if the cached copy is behind, then the status, refused if
the ModelDeployment was edited. Faults, invalid specs, ownership and deletion are
`ModelDeploymentController`'s subject; a cached ModelDeployment that lags only by
a status write is a delay, and left out. `CreatePod`, `ScaleDown` and
`SyncStatus` are Kubernetes' rolling update with the shares that
`mutateDeployment` sets. A deleted pod first serves on, then refuses
connections, and the Service routes to it until it is gone. `InferRoute` and
`EnqueueRoute` read the status; `ProxyPost` and `ProcessJob` call the endpoint
any time later and reach any pod that is routed to. `RuntimeStarts` is the
runtime's comparison of the version it is told with the one in its image; the
weights are looked up by the version it is told, so an answer names its weights by
construction, and what can go wrong is an image that holds another version.

## Runs

| Run | Regime and bounds | Checks |
|---|---|---|
| `queue_timely` | timely, no expiry; 2 jobs, 2 payloads, 1 disruption, Lease 3, MaxLag 1 | type, the inductive invariant `TimelyInv`, `SingleEntry`, `ClaimIsExclusive`, `NothingStranded`, `OutcomeIsWhole`, `OutcomeIsFinal`, refinement of `JobLifecycle` |
| `queue_expiry` | workers may pause, records expire; 1 job, 1 disruption, 1 leftover, Lease 2, MaxLag 1 | `OneSweeper` |
| `queue_liveness` | timely, no expiry, fair; 1 job, 2 disruptions | `EveryJobSettles`, `ProcessingDrains`, `StopCompletes` |
| `registry_puts` | 3 requests, 2 names, 1 version, pages of 1, 1 statement that fails | type, refinement of `RegistryService`, `VersionsAreImmutable`, `AnswersStayTrue`, `CreatedOnce`, `UnavailableMeansLost`, `PagesMissNothing` |
| `deployment_writes` | 3 requests, 1 model, 2 versions, 2 edits | type, `ImageIsRegistered`, `RollbackKeepsTheRest`, `NothingStolen` |
| `controller_settles` | 2 valid specs, an invalid one and one the API server refuses; 2 edits, 2 faults | type, `SettledIsConverged`, `ForeignIsUntouched`, `StatusIsOfThisGeneration` |
| `controller_liveness` | a valid, an invalid and a refused spec; 2 edits, no faults, fair | `EventuallySettles`, `DeletionCompletes` |
| `spec_defaults` | cpu, memory and one resource of each other kind, at most 2 in a list, quantities below, between and above the defaults, numbers at both ends of their ranges | `RefusedExactlyFor` |
| `asgi_app` | limit 2, chunks of 1 and 2, bodies of up to 3 messages, 1 dependency that flips, every choice of given and enabled resources; fair | type, `AppReadsTheBody`, `MemoryIsBounded`, `DisconnectIsSeen`, `EverythingIsClosed`, `ReadinessIsTruthful` |
| `serving` | 3 versions, one with the image of another; 1 replica, 2 changes of the spec, 1 crash, 3 pods; fair | `OnlyStartedIsAvailable`, `CapacityKept`, `EventuallyFresh`, `EventuallyAvailable` |

`OneSweeper` says that a sweep is within the lock it took: the lock has time left
when the script runs and nobody else sweeps. In `queue_expiry` a sweep may use up
all of `MaxLag` between the SET and the script while time passes, so a lock of one
unit less would be gone by then. `StopCompletes` says that a worker that was told to
stop ends, whichever await each of its tasks is in. `RefusedExactlyFor` says of the
specs that `validateSpec` accepts which the API server refuses: those in which a
given value and a default clash (the run `spec_admitted`), a counted resource is not
whole or not requested as its limit, or a name is not one that a container may use.
`OnlyStartedIsAvailable` says that the reconciler reports a version available only if
the runtime in its image starts with it.

The runs of the queue have two workers with one task each and a capacity of one.
Two workers are enough for every race between two holders of one job, and the
second job fills the queue while the first is handled. One disruption gives
every crash or lost call at every step; `queue_liveness` allows two, so that a
worker dies with a job while the lock of another that died before is still
held. Three puts are two that race and one that comes after; three deployment
requests are a rollback, a put in between and one that arrives late. Two
controller edits are a creation and one change by anybody, which includes an
object the reconciler owned in its cache and no longer owns. Two faults let a
failed rollout recover. A limit of two bytes and three messages give bodies that
stay below, meet and cross the limit in their first, second or last chunk. One
replica is where the rounding of the strategy matters most; two changes let a
rollout be overtaken by the next, to the wrong image and back; a third pod is one
that terminates while two are live. The controller may come to rest, clients may
stop and an application ends, so their runs do not ask for a next step.

The bounds matter only to TLC: every invariant, action property and refinement
that these runs check is also proved without them (see Proofs). What only TLC
checks is liveness.

Two runs show where the code does not do what its documentation says; TLC
finds each in a few seconds.

| Run | What happens |
|---|---|
| `queue_stranded` | an overdue worker's `finish()` removes the processing entry of the worker that re-claimed the job; if that worker dies, the job is on no list |
| `spec_admitted` | a request above the default limit passes validation, and the Deployment is refused on every retry |

With `SpecDefaults` the same property fails for the other two reasons too: neither
`validateSpec` nor the CRD nor `app/schemas.py` looks at the names of resources, so
half a GPU, a GPU without a limit or an unqualified name is accepted and retried for
ever as well.

The first needs a worker slower than the lease. The models show seven more
disagreements, which are not kept as runs: each property below is violated when
it takes the place of the properties of the configuration named.

| Property | Configuration | What happens |
|---|---|---|
| `ClaimRejectsFinished` | `QueueStranded` | an overdue worker's `finish()` lands between HGETALL and HSET of the worker that re-claimed the job: the finished job is running again (`docs/async-inference.md:23-25`) |
| `ReadReturnsSpec` | `DeploymentWrites` | a quantity that kubectl wrote as a number, which the CRD admits, makes every read answer 502 (`docs/architecture.md:40`) |
| `QueueIsBounded` | `QueueTimely` | a sweep requeues onto a queue that was filled meanwhile (`docs/architecture.md:87`) |
| `RecordsAreTtlBound` | `QueueExpiry` | a record that expires between HGETALL and HSET comes back without a TTL (`docs/architecture.md:87`) |
| `RepeatIsRecognised` | `QueueExpiry` | a record that expires before `finish()` comes back without its request, and an identical repeat is a conflict (`docs/async-inference.md:8-9`) |
| `DifferentContentIsRejected` | `RegistryPuts` | metadata `1` and `true` are equal in Python: different content is answered 200 (`docs/development.md:62-63`) |
| `AvailableIsOfThisSpec` | `ControllerSettles` with `MaxEdits = 3`, `MaxFaults = 0` | the spec goes from v1 to v2 and back while the Deployment cache shows v1: available is reported of the wrong Deployment, until the event arrives (`docs/controller.md:53-54`) |

Three things follow from the code by reading, outside the models. A text of 4096
characters outside ASCII is larger in JSON than the runtime's 16,384 bytes, so
the runtime answers 413 and the API 502 (or the job fails), where
`docs/runtime.md:29` accepts it. A Redis socket timeout
(`KERNEXYS_REDIS_SOCKET_TIMEOUT_SECONDS`) of less than the two seconds that a
claim's BLMOVE waits makes every claim on an empty queue fail, and nothing in
`Settings` refuses a value so large that `MaxLag < Lease` does not hold. And an
answer may come from a terminating pod of the previous version shortly after the
status says that the new one is available: `EventuallyFresh` says that this ends.

### Fairness

The queue's `FairSpec` assumes that a pod is restarted, that the tasks of a live process run
(asyncio runs every ready task, Redis serves every connection, the runtime call
ends by its timeout) and that time passes. It assumes nothing of clients, of
expiry or of disruptions, whose number is bounded by `MaxDisruptions`.

The controller's assumes that the worker goroutine runs (`Reconcile`), that each
watch delivers (`Sync`), and that Kubernetes' own controllers do their work
(`RolloutProceeds`, `GarbageCollector`); a retry after an error is the work
queue's. Users, faults and rollouts that go wrong are not fair.

`asgi_app` assumes that the event loop runs a task that can run; clients,
dependencies and the signal are not fair. `serving` assumes what the controller's
run does, and that a request that was sent, or a job that was queued, is handled;
changes of the spec and crashes are bounded by `MaxEdits` and `MaxCrashes`.

## Proofs

For every set of jobs, payloads and workers and every value of the constants
that `QueueAssumption` admits:

| Theorem | Regime | States |
|---|---|---|
| `TypeCorrect` | any | `[]TypeOK` |
| `OneSweeperHolds` | any | `[]OneSweeper` |
| `SingleEntryHolds` | no expiry | `[]SingleEntry` |
| `TimelyInvariance` | timely, no expiry | `[]TimelyInv` |
| `TimelySafety` | timely, no expiry | `ClaimIsExclusive`, `NothingStranded`, `OutcomeIsWhole` always hold |
| `ClaimIsExclusiveHolds`, `OutcomeIsWholeHolds` | timely, no expiry | two of them on their own |
| `OutcomeIsFinalHolds` | timely, no expiry | `OutcomeIsFinal` |
| `LifecycleRefinement` | timely, no expiry | every behaviour is one of `JobLifecycle` |

For every set of specs and every number of edits and faults:

| Theorem | States |
|---|---|
| `TypeCorrect` of the controller | `[](TypeOK /\ CacheInv /\ RecInv)` |
| `ForeignIsUntouchedHolds` | `ForeignIsUntouched` |
| `StatusIsOfThisGenerationHolds` | `StatusIsOfThisGeneration` |
| `SettledIsConvergedHolds` | `[]SettledIsConverged` |

and for all resources of the four kinds, quantities, defaults and ranges
`RefusedExactlyForHolds`: `[]RefusedExactlyFor` of `DeploymentSpec`. The controller's constants are assumed
to be as `ControllerAssumption` says (a spec is invalid or refused but not both,
and no spec is one of the other values), the spec's as `SpecAssumption` (default
requests do not exceed default limits).

For every set of requests, names, versions and descriptions, every page size and
any number of statements that fail, `ModelRegistry_proofs` has:

| Theorem | States |
|---|---|
| `TypeOKHolds` | `[]TypeOK` |
| `AnswersStayTrueHolds` | `[]AnswersStayTrue` |
| `CreatedOnceHolds` | `[]CreatedOnce` |
| `VersionsAreImmutableHolds` | `VersionsAreImmutable` |
| `UnavailableMeansLostHolds` | `[]UnavailableMeansLost` |
| `PagesMissNothingHolds` | `[]PagesMissNothing` |
| `ImplementsServiceHolds` | every behaviour is one of `RegistryService` |

`RegistryAssumption`: names are integers (what matters of them is their order)
and finitely many, a page has at least one row, and `None` is neither a name nor
a value of a column.

For every set of requests, models, versions, replica counts and quantities and
any number of edits, `DeploymentApi_proofs` has:

| Theorem | States |
|---|---|
| `TypeOKHolds` | `[]TypeOK` |
| `ImageIsRegisteredHolds` | `[]ImageIsRegistered` |
| `NothingStolenHolds` | `NothingStolen` |
| `RollbackKeepsTheRestHolds` | `RollbackKeepsTheRest` |

`ApiAssumption`: a quantity is not a number (the two JSON forms differ), and
`None` is no value, spec or object.

For every limit, set of chunk sizes and number of messages and flips,
`AsgiApp_proofs` has:

| Theorem | States |
|---|---|
| `TypeOKHolds` | `[]TypeOK` |
| `AppReadsTheBodyHolds` | `[]AppReadsTheBody` |
| `MemoryIsBoundedHolds` | `[]MemoryIsBounded` |
| `EverythingIsClosedHolds` | `[]EverythingIsClosed` |
| `ReadinessIsTruthfulHolds` | `[]ReadinessIsTruthful` |

`LimitAssumption`: a server delivers chunks of at most some size (uvicorn's reads
are bounded), without which no buffer that holds whole messages is.

For every finite set of versions, every assignment of images and every number of
replicas, edits, crashes and pods, `Serving_proofs` has:

| Theorem | States |
|---|---|
| `OnlyStartedIsAvailableHolds` | `OnlyStartedIsAvailable` |
| `CapacityKeptHolds` | `CapacityKept` |

The sums of these modules (the bytes of a buffer, the pods of some versions) are
written as the cardinality of a disjoint union, with one element per byte or per
pod: a recursive sum is beyond the proof system, cardinalities are not.

The arguments:

- `OneSweeper` needs `SweepInv`: the lock of a sweep is exactly as old as the
  sweep, and a sweep is at most `MaxLag` old, so while it is under way the lock has
  not run out and nobody else gets it. Here `MaxLag < Lease` is used.
- `SingleEntry` needs `EntryInv`: an id that is on a list or in a worker's hands
  has a record, so the enqueue script never finds its key free.
- `ClaimIsExclusive` needs `InHand`: while a worker handles a job, the entry is
  in the processing list and the stamp is not older than the handling plus
  `MaxLag`, which is less than the lease, so no sweep finds the entry stale; or
  the worker's `finish()` was applied and is being sent again. That a queued
  job carries no stamp (the sweep's HDEL) is part of the invariant: without it
  the next claim starts with a stale stamp.
- `OutcomeIsFinal` and the refinement follow step by step from `TimelyInv`.
- `ForeignIsUntouched` needs `CacheInv`: a cache that is not behind holds the
  live object. The ownership check is made on the cached copy; the API server
  accepts the write only if that copy is the live object, or if there is none.
- `StatusIsOfThisGeneration` needs `RecInv`: while the copy in hand is current it
  has the uid and generation of the live ModelDeployment.
- `SettledIsConverged` needs `WakeInv`: the request is on the queue or an event
  is under way, or else the running `Reconcile` has seen the last of everything
  it has looked at so far, and if none runs nothing is left to do. Every write of
  an object that is or was owned wakes the reconciler (`WritesWake`); a silent
  write concerns an object nobody owned, which is not one it relied on
  (`SilentWrite`); a path that fails returns an error, which requeues.

- The registry's `Inv` says of each request what it has learnt so far: which row
  its last statement found (`RowFound`; rows are never deleted, so the row is still
  there when the next statement runs), what its effect left behind (`EffectKept`)
  and what its answer says (`AnswerTrue`). `VersionsAreImmutable` is the step that
  makes these stable. `AnswersStayTrue` is not inductive without them: a 409 is
  decided on a row that another request inserted between two statements.
- `UnavailableMeansLost` needs that 500 and 503 are only ever given by
  `StatementFails`, which `RowFound` shows (the branch after an IntegrityError finds its row), and
  that with each of them `lost` grows by one.
- `PagesMissNothing` needs `WalkInv`: a model that was there when the client began
  has been seen, or its rank in the order is still above the offset. Since no row
  is deleted a rank only grows, so what an insert moves is moved to a later page
  and never to one already read; and a page that is short leaves no rank beyond it.
- `ImplementsService` maps each request's `outcome` to the service's: the statement
  that decides (an insert, an update, the re-read after a conflict) is the instant
  at which the put takes effect, and all others are stutters.
- `ImageIsRegistered` needs that whatever a request is about to apply is a
  registered version with its image (`Holds`), also when a rollback took the model
  from an object that was edited; `RollbackKeepsTheRest` needs `StillCurrent`: as
  long as the resourceVersion is the one it read, the fields in hand are the
  object's. `NothingStolen` follows from the conflict test at the instant of the
  write, for late writes too.
- `AppReadsTheBody` needs `BodyInv`: the buffer is a prefix of what the server sent,
  the application starts only when the buffer ends the body or the connection, and
  what it reads begins with the buffer. Its first message that ends anything is
  therefore in the buffer, whatever a replay says afterwards.
- `MemoryIsBounded` needs that `total` is the number of bytes buffered, and is within
  the limit before each message.
- `EverythingIsClosed` needs `LifeInv`: only what the lifespan owns is ever open, each
  close is behind the phase that follows it even when it raises, and a request
  exists only between start-up and draining. `ReadinessIsTruthful` needs `CheckInv`:
  what was checked before and what is up now has been seen up since the request
  began.
- `RefusedExactlyFor` is by cases on which of the two lists is left out: only then
  does `effectiveResources` bring in a name or a value that `validateSpec` did not see.
- `OnlyStartedIsAvailable` needs that a pod that is or was ready runs an image that
  holds its version (`PodInv`), and `Sound` of the Deployment and of the reconciler's
  copy of it: if the status observed is of the template's generation and counts an
  updated pod as available, the template's version is one whose image holds it.
  `CapacityKept` holds step by step: a pod is taken away only by `ScaleDown`, whose
  guard leaves the minimum available, and a move of one pod changes the count by
  one or not at all.

Only model-checked are `EveryJobSettles`, `ProcessingDrains`, `StopCompletes`,
`EventuallySettles`, `DeletionCompletes`, `DisconnectIsSeen`, `EventuallyFresh` and
`EventuallyAvailable`: they rest on fairness, which the proof system does not
handle.

## Not modelled

- Settings, CLI, dashboard, logging, manifests and migrations: configuration,
  formatting or I/O; they keep no state that a decision of the system reads. What
  they fix enters the models as constants.
- Metrics: counters that nothing reads but Prometheus.
- The manager process (`controller/cmd/main.go`): flags and wiring; leader
  election is controller-runtime's.
- The classifier's score: floating-point arithmetic over a table.
- Deployment and deletion of a ModelDeployment inside `Serving`: a deployment
  that is gone answers 404 at the first call, and its pods go as old pods do.
