--------------------------- MODULE InferenceQueue ---------------------------
(***************************************************************************)
(* The Redis-backed queue of asynchronous inference jobs and the worker    *)
(* processes that serve it: app/async_queue.py and app/worker.py.          *)
(*                                                                         *)
(* One step of the model is one command that Redis runs (a Lua script or a *)
(* MULTI block is one command), or one step of a process between commands. *)
(* A claim is therefore three steps: BLMOVE, HGETALL, HSET.                *)
(*                                                                         *)
(* Time is kept as ages.  A claimed_at stamp is how long ago it was        *)
(* written, the recovery lock how long it has still to live; both move by  *)
(* one at every Tick and stop at the largest value the code can tell from  *)
(* a larger one, so the clock itself needs no bound.                       *)
(***************************************************************************)
EXTENDS Integers, Sequences, FiniteSets, Functions

CONSTANTS
    Jobs,            \* job ids: a uuid4, or the hash of an idempotency key
    Payloads,        \* what a request asks for: deployment, endpoint, text
    None,            \* an absent hash field, or no job in hand
    Workers,         \* worker processes
    Concurrency,     \* consume() tasks in each worker process
    Capacity,        \* async_queue_capacity
    Lease,           \* recovery_lease_seconds: lock time, sweep interval, age
    MaxLag,          \* bound: how stale time.time() is when Redis stores it
    Deadline,        \* bound on one handling, used when Timely
    Timely,          \* TRUE: every live worker handles a job by its Deadline
    TtlElapses,      \* TRUE: a job record's TTL may run out
    MaxDisruptions,  \* bound: crashes, stop signals and failed Redis calls
    MaxLeftovers     \* bound: processing entries an expired job may leave to
                     \* a new request for its id

\* The lease outlives a sweep's own delay; in the timely regime it outlives a
\* handling too, which is what max(2 * timeout, 30) is chosen for.
ASSUME QueueAssumption ==
    /\ None \notin Jobs /\ None \notin Payloads
    /\ IsFiniteSet(Jobs)
    /\ Concurrency \in Nat /\ Capacity \in Nat /\ Deadline \in Nat
    /\ MaxLag \in Nat /\ Lease \in Nat /\ MaxLag < Lease
    /\ Timely \in BOOLEAN /\ TtlElapses \in BOOLEAN
    /\ Timely => Deadline + MaxLag < Lease
    /\ MaxDisruptions \in Nat /\ MaxLeftovers \in Nat

VARIABLES
    queue,       \* kernexys:inference:queued, a list of job ids
    processing,  \* kernexys:inference:processing: how often it holds each id
    job,         \* the job hashes
    lock,        \* kernexys:inference:recovery-lock: remaining time, 0 if free
    phase,       \* life cycle of each worker process
    sweeper,     \* where each process is in recover_processing
    consumer,    \* where each consume() task is
    disruptions  \* disruptions so far

redisVars == <<queue, processing, job, lock>>
vars == <<queue, processing, job, lock, phase, sweeper, consumer, disruptions>>

Consumers == Workers \X (1..Concurrency)
WorkerOf(c) == c[1]

Unstamped == -1
OldestAge == Lease + MaxLag
Older(age) == IF age < OldestAge THEN age + 1 ELSE age

Terminal == {"succeeded", "failed"}

\* A job hash.  Status "none" is a key that does not exist; result is the
\* payload whose answer is stored; ttl says whether the key will expire.
Record == [status: {"none", "queued", "running"} \cup Terminal,
           payload: Payloads \cup {None}, claimed: Unstamped..OldestAge,
           result: Payloads \cup {None}, error: {"absent", "sanitized"},
           ttl: BOOLEAN]

NoRecord == [status |-> "none", payload |-> None, claimed |-> Unstamped,
             result |-> None, error |-> "absent", ttl |-> FALSE]

\* A consumer waits in BLMOVE ("claiming"), has an id ("popped"), has read a
\* live record ("read") or a dead one ("drop"), waits for the runtime
\* ("posting"), or is about to finish() with the status that names its pc.
ConsumerState == [pc: {"exited", "claiming", "popped", "read", "drop",
                       "posting"} \cup Terminal,
                  id: Jobs \cup {None}, payload: Payloads \cup {None},
                  held: 0..Deadline]

SweeperState == [pc: {"asleep", "locked"}, timer: 0..Lease]

TypeOK ==
    /\ queue \in Seq(Jobs)
    /\ processing \in [Jobs -> Nat]
    /\ job \in [Jobs -> Record]
    /\ lock \in 0..Lease
    /\ phase \in [Workers -> {"down", "starting", "running", "stopping"}]
    /\ sweeper \in [Workers -> SweeperState]
    /\ consumer \in [Consumers -> ConsumerState]
    /\ disruptions \in 0..MaxDisruptions

At(pc) == [pc |-> pc, id |-> None, payload |-> None, held |-> 0]
Asleep(time) == [pc |-> "asleep", timer |-> time]

Init ==
    /\ queue = <<>>
    /\ processing = [id \in Jobs |-> 0]
    /\ job = [id \in Jobs |-> NoRecord]
    /\ lock = 0
    /\ phase = [w \in Workers |-> "down"]
    /\ sweeper = [w \in Workers |-> Asleep(0)]
    /\ consumer = [c \in Consumers |-> At("exited")]
    /\ disruptions = 0

Disrupt ==
    /\ disruptions < MaxDisruptions
    /\ disruptions' = disruptions + 1
-----------------------------------------------------------------------------
(* The control API's side: enqueue() and get().                            *)

Exists(id) == job[id].status # "none"
Finished(id) == job[id].status \in Terminal
Unfinished(id) == job[id].status \in {"queued", "running"}

\* Mutant: the script does not look for the record.
EnqueueScriptBlind(id, payload) ==
    IF Len(queue) >= Capacity THEN -1 ELSE 1

\* What _ENQUEUE_SCRIPT answers: -2 conflict, 0 repeat, -1 full, 1 created.
EnqueueScript(id, payload) ==
    IF Exists(id)
      THEN IF job[id].payload # payload THEN -2 ELSE 0
      ELSE IF Len(queue) >= Capacity THEN -1 ELSE 1

\* The other three answers leave Redis alone.
Enqueue(id, payload) ==
    /\ EnqueueScript(id, payload) = 1
    /\ processing[id] <= MaxLeftovers
    /\ job' = [job EXCEPT ![id] = [NoRecord EXCEPT !.status = "queued",
                                                   !.payload = payload,
                                                   !.ttl = TRUE]]
    /\ queue' = Append(queue, id)
    /\ UNCHANGED <<processing, lock, phase, sweeper, consumer, disruptions>>

\* What GET /jobs/{job_id} shows of a record; status "none" is the 404.
Poll(id) == [status |-> job[id].status, result |-> job[id].result,
             error |-> job[id].error]

\* Redis drops a record whose TTL ran out.  TTL and lease are configured
\* independently, so this can be at any time.
Expire(id) ==
    /\ TtlElapses
    /\ Exists(id) /\ job[id].ttl
    /\ job' = [job EXCEPT ![id] = NoRecord]
    /\ UNCHANGED <<queue, processing, lock, phase, sweeper, consumer, disruptions>>
-----------------------------------------------------------------------------
(* What the commands of a consumer do to Redis.                            *)

\* Mutant: a plain pop, with no entry in the processing list.
PopHead ==
    /\ queue # <<>>
    /\ queue' = Tail(queue)
    /\ UNCHANGED <<processing, job, lock>>

\* BLMOVE queue LEFT -> processing RIGHT
MoveHead ==
    /\ queue # <<>>
    /\ queue' = Tail(queue)
    /\ processing' = [processing EXCEPT ![Head(queue)] = @ + 1]
    /\ UNCHANGED <<job, lock>>

\* LREM processing 1 id
Unlink(id) ==
    processing' = [processing EXCEPT ![id] = IF @ > 0 THEN @ - 1 ELSE 0]

DropEntry(c) ==
    /\ Unlink(consumer[c].id)
    /\ UNCHANGED <<queue, job, lock>>

\* Mutant: the claim writes its time and leaves the status.
StampTimeOnly(c) ==
    /\ \E lag \in 0..MaxLag :
         job' = [job EXCEPT ![consumer[c].id] = [@ EXCEPT !.claimed = lag]]
    /\ UNCHANGED <<queue, processing, lock>>

\* HSET status running, claimed_at now: creates the key if it is gone.
StampClaim(c) ==
    /\ \E lag \in 0..MaxLag :
         job' = [job EXCEPT ![consumer[c].id] =
                   [@ EXCEPT !.status = "running", !.claimed = lag]]
    /\ UNCHANGED <<queue, processing, lock>>

\* Mutant: the runtime's answer is stored whatever the status.
StoreOutcomeAlways(c) ==
    LET id == consumer[c].id IN
    /\ job' = [job EXCEPT ![id] =
         [job[id] EXCEPT !.status = consumer[c].pc, !.result = consumer[c].payload,
            !.error = IF consumer[c].pc = "failed" THEN "sanitized" ELSE job[id].error,
            !.ttl = TRUE]]
    /\ Unlink(id)
    /\ UNCHANGED <<queue, lock>>

\* Mutant: a failure is stored under a status of its own, which no reader of the
\* record knows.
StoreOutcomeMisnamed(c) ==
    LET id == consumer[c].id  failed == consumer[c].pc = "failed" IN
    /\ job' = [job EXCEPT ![id] =
         [job[id] EXCEPT !.status = IF failed THEN "error" ELSE "succeeded",
            !.result = IF failed THEN job[id].result ELSE consumer[c].payload,
            !.error = IF failed THEN "sanitized" ELSE job[id].error,
            !.ttl = TRUE]]
    /\ Unlink(id)
    /\ UNCHANGED <<queue, lock>>

\* MULTI: HSET the outcome, EXPIRE, LREM.  Also creates the key if it is gone.
StoreOutcome(c) ==
    LET id == consumer[c].id  status == consumer[c].pc IN
    /\ job' = [job EXCEPT ![id] =
         [job[id] EXCEPT !.status = status,
            !.result = IF status = "succeeded" THEN consumer[c].payload ELSE job[id].result,
            !.error = IF status = "failed" THEN "sanitized" ELSE job[id].error,
            !.ttl = TRUE]]
    /\ Unlink(id)
    /\ UNCHANGED <<queue, lock>>

\* Mutant: the loop is left by cancellation only, and looks at no event.
LoopHeadForever(c) == At("claiming")

\* The head of consume()'s loop: the stop event ends the task there.
LoopHead(c) ==
    At(IF phase[WorkerOf(c)] = "stopping" THEN "exited" ELSE "claiming")

Goto(c, state) ==
    /\ consumer' = [consumer EXCEPT ![c] = state]
    /\ UNCHANGED <<phase, sweeper>>
-----------------------------------------------------------------------------
(* consume(): claim(), process_job(), finish().                            *)

ClaimPop(c) ==
    /\ consumer[c].pc = "claiming"
    /\ MoveHead
    /\ Goto(c, [At("popped") EXCEPT !.id = Head(queue)])
    /\ UNCHANGED disruptions

\* BLMOVE times out on an empty list; only a stop signal makes that matter.
ClaimTimeout(c) ==
    /\ consumer[c].pc = "claiming"
    /\ queue = <<>>
    /\ phase[WorkerOf(c)] = "stopping"
    /\ Goto(c, LoopHead(c))
    /\ UNCHANGED <<redisVars, disruptions>>

ClaimRead(c) ==
    /\ consumer[c].pc = "popped"
    /\ \/ /\ Unfinished(consumer[c].id)
          /\ Goto(c, [consumer[c] EXCEPT !.pc = "read",
                                         !.payload = job[consumer[c].id].payload])
       \/ /\ ~Unfinished(consumer[c].id)
          /\ Goto(c, [consumer[c] EXCEPT !.pc = "drop"])
    /\ UNCHANGED <<redisVars, disruptions>>

ClaimDrop(c) ==
    /\ consumer[c].pc = "drop"
    /\ DropEntry(c)
    /\ Goto(c, LoopHead(c))
    /\ UNCHANGED disruptions

\* The payload is decoded after the stamp: a record without one makes claim()
\* raise and leaves the stamped id in the processing list.
ClaimStamp(c) ==
    /\ consumer[c].pc = "read"
    /\ StampClaim(c)
    /\ Goto(c, IF consumer[c].payload = None
                 THEN LoopHead(c)
                 ELSE [consumer[c] EXCEPT !.pc = "posting"])
    /\ UNCHANGED disruptions

\* The runtime's answer, an error or the timeout.
ProcessJob(c) ==
    /\ consumer[c].pc = "posting"
    /\ \E outcome \in Terminal : Goto(c, [consumer[c] EXCEPT !.pc = outcome])
    /\ UNCHANGED <<redisVars, disruptions>>

Finish(c) ==
    /\ consumer[c].pc \in Terminal
    /\ StoreOutcome(c)
    /\ Goto(c, LoopHead(c))
    /\ UNCHANGED disruptions

\* A Redis call that fails before it reached Redis: AsyncQueueError, and the
\* loop goes on without the job.
CallLost(c) ==
    /\ Disrupt
    /\ consumer[c].pc \in {"claiming", "popped", "read", "drop"} \cup Terminal
    /\ Goto(c, LoopHead(c))
    /\ UNCHANGED redisVars

\* A Redis call that Redis ran but whose reply is lost: the client sends the
\* command again, or gives up with AsyncQueueError.
ReplyLost(c) ==
    /\ Disrupt
    /\ \/ consumer[c].pc = "claiming" /\ MoveHead
       \/ consumer[c].pc = "drop" /\ DropEntry(c)
       \/ consumer[c].pc = "read" /\ StampClaim(c)
       \/ consumer[c].pc \in Terminal /\ StoreOutcome(c)
    /\ \E next \in {consumer[c], LoopHead(c)} : Goto(c, next)
-----------------------------------------------------------------------------
(* recover_processing(), called once at start and then every Lease.        *)

\* run_worker() starts its tasks once the recovery at start has returned.
Recovered(w) ==
    /\ sweeper' = [sweeper EXCEPT ![w] = Asleep(Lease)]
    /\ phase' = [phase EXCEPT ![w] = IF @ = "starting" THEN "running" ELSE @]
    /\ consumer' = [c \in Consumers |->
                      IF WorkerOf(c) = w /\ phase[w] = "starting"
                        THEN At("claiming") ELSE consumer[c]]

\* Mutant: recovery at start only, with no periodic sweep.
RecoveryDueAtStart(w) ==
    /\ phase[w] = "starting"
    /\ sweeper[w] = Asleep(0)

RecoveryDue(w) ==
    /\ phase[w] \in {"starting", "running"}
    /\ sweeper[w] = Asleep(0)

\* Mutant: the lock is set for as long as one call may take.
RecoverAcquireBriefly(w) ==
    /\ RecoveryDue(w)
    /\ \/ /\ lock = 0
          /\ lock' = MaxLag
          /\ sweeper' = [sweeper EXCEPT ![w] = [pc |-> "locked", timer |-> 0]]
          /\ UNCHANGED <<phase, consumer>>
       \/ /\ lock > 0
          /\ Recovered(w)
          /\ UNCHANGED lock
    /\ UNCHANGED <<queue, processing, job, disruptions>>

\* SET recovery-lock 1 NX EX lease; a held lock ends the call with 0.
RecoverAcquire(w) ==
    /\ RecoveryDue(w)
    /\ \/ /\ lock = 0
          /\ lock' = Lease
          /\ sweeper' = [sweeper EXCEPT ![w] = [pc |-> "locked", timer |-> 0]]
          /\ UNCHANGED <<phase, consumer>>
       \/ /\ lock > 0
          /\ Recovered(w)
          /\ UNCHANGED lock
    /\ UNCHANGED <<queue, processing, job, disruptions>>

Listed(id) == processing[id] > 0
Unclaimed(id) == Listed(id) /\ Unfinished(id) /\ job[id].claimed = Unstamped

\* Mutant: the lease is not waited for.
StaleAtOnce(id, lag) == Listed(id) /\ Unfinished(id) /\ job[id].claimed >= lag

\* now - lease is at or after the stamp, as read lag ago.
Stale(id, lag) == /\ Listed(id) /\ Unfinished(id)
                  /\ job[id].claimed >= Lease + lag

\* Mutant: a requeued job keeps the stamp of the claim that was given up.
SweptKeepsStamp(id, lag) ==
    IF Stale(id, lag) THEN [job[id] EXCEPT !.status = "queued"]
    ELSE IF Unclaimed(id) THEN [job[id] EXCEPT !.claimed = lag]
    ELSE job[id]

\* Mutant: an entry without a stamp is left alone, and gets no lease.
SweptWithoutGrace(id, lag) ==
    IF Stale(id, lag) THEN [job[id] EXCEPT !.status = "queued", !.claimed = Unstamped]
    ELSE job[id]

\* A record after the sweep.  An id listed twice is visited twice: the second
\* visit finds the stamp the first one cleared missing, and writes it.
Swept(id, lag) ==
    IF Stale(id, lag)
      THEN [job[id] EXCEPT !.status = "queued",
              !.claimed = IF processing[id] > 1 THEN lag ELSE Unstamped]
    ELSE IF Unclaimed(id) THEN [job[id] EXCEPT !.claimed = lag]
    ELSE job[id]

\* _RECOVER_PROCESSING_SCRIPT, run with a clock read lag ago.  The processing
\* list's order is not kept, so the requeued ids may come in any order.
SweepProcessing(lag) ==
    LET stranded == {id \in Jobs : Stale(id, lag)} IN
    /\ processing' = [id \in Jobs |->
          IF id \in stranded THEN processing[id] - 1
          ELSE IF Unfinished(id) THEN processing[id] ELSE 0]
    /\ job' = [id \in Jobs |-> Swept(id, lag)]
    /\ \E requeued \in Bijection(1..Cardinality(stranded), stranded) :
          queue' = queue \o requeued
    /\ UNCHANGED lock

\* The script's now was read at some time since the lock was taken.
RunSweep(w) ==
    /\ sweeper[w].pc = "locked"
    /\ \E lag \in 0..sweeper[w].timer : SweepProcessing(lag)

RecoverSweep(w) ==
    /\ RunSweep(w)
    /\ Recovered(w)
    /\ UNCHANGED disruptions

Killed(w) ==
    /\ phase' = [phase EXCEPT ![w] = "down"]
    /\ sweeper' = [sweeper EXCEPT ![w] = Asleep(0)]
    /\ consumer' = [c \in Consumers |->
                      IF WorkerOf(c) = w THEN At("exited") ELSE consumer[c]]

\* A Redis error in recovery, before or after Redis ran the command.  At start
\* it ends the process; later the loop sleeps and tries again.
RecoverFails(w) ==
    /\ Disrupt
    /\ \/ /\ RecoveryDue(w)
          /\ lock' \in {lock, IF lock = 0 THEN Lease ELSE lock}
          /\ UNCHANGED <<queue, processing, job>>
       \/ RunSweep(w)
       \/ sweeper[w].pc = "locked" /\ UNCHANGED redisVars
    /\ IF phase[w] = "starting" THEN Killed(w) ELSE Recovered(w)

\* A recovery command whose reply is lost and that the client sends again: the
\* second SET finds the lock taken, by itself; the script is run once more.
RecoverResent(w) ==
    /\ Disrupt
    /\ \/ /\ RecoveryDue(w)
          /\ lock = 0
          /\ lock' = Lease
          /\ Recovered(w)
          /\ UNCHANGED <<queue, processing, job>>
       \/ /\ RunSweep(w)
          /\ UNCHANGED <<phase, sweeper, consumer>>
-----------------------------------------------------------------------------
(* Worker processes and time.                                              *)

\* The pod is started: run_worker() goes straight into recovery.
Start(w) ==
    /\ phase[w] = "down"
    /\ phase' = [phase EXCEPT ![w] = "starting"]
    /\ UNCHANGED <<redisVars, sweeper, consumer, disruptions>>

\* SIGTERM or SIGINT sets the stop event.  Before the tasks have started the
\* process ends without a claim, which is what Crash does then.
Stop(w) ==
    /\ Disrupt
    /\ phase[w] = "running"
    /\ phase' = [phase EXCEPT ![w] = "stopping"]
    /\ UNCHANGED <<redisVars, sweeper, consumer>>

\* The task group ends when every task has seen the event.
Exit(w) ==
    /\ phase[w] = "stopping"
    /\ sweeper[w].pc = "asleep"
    /\ \A c \in Consumers : WorkerOf(c) = w => consumer[c].pc = "exited"
    /\ Killed(w)
    /\ UNCHANGED <<redisVars, disruptions>>

Crash(w) ==
    /\ Disrupt
    /\ phase[w] # "down"
    /\ Killed(w)
    /\ UNCHANGED redisVars

Handling(c) == consumer[c].id # None

Tick ==
    /\ \A w \in Workers : sweeper[w].pc = "locked" => sweeper[w].timer < MaxLag
    /\ Timely => \A c \in Consumers : Handling(c) => consumer[c].held < Deadline
    /\ lock' = IF lock > 0 THEN lock - 1 ELSE 0
    /\ job' = [id \in Jobs |->
          IF job[id].claimed = Unstamped THEN job[id]
          ELSE [job[id] EXCEPT !.claimed = Older(@)]]
    /\ sweeper' = [w \in Workers |->
          [sweeper[w] EXCEPT !.timer =
             IF sweeper[w].pc = "locked" THEN @ + 1
             ELSE IF @ > 0 THEN @ - 1 ELSE 0]]
    /\ consumer' = [c \in Consumers |->
          IF Timely /\ Handling(c) THEN [consumer[c] EXCEPT !.held = @ + 1]
          ELSE consumer[c]]
    /\ UNCHANGED <<queue, processing, phase, disruptions>>
-----------------------------------------------------------------------------
ConsumerStep(c) ==
    \/ ClaimPop(c) \/ ClaimTimeout(c) \/ ClaimRead(c) \/ ClaimDrop(c)
    \/ ClaimStamp(c) \/ ProcessJob(c) \/ Finish(c)

WorkerStep(w) ==
    \/ Start(w) \/ RecoverAcquire(w) \/ RecoverSweep(w) \/ Exit(w)

Disruption ==
    \/ \E c \in Consumers : CallLost(c) \/ ReplyLost(c)
    \/ \E w \in Workers : RecoverFails(w) \/ RecoverResent(w)
                        \/ Stop(w) \/ Crash(w)

Next ==
    \/ \E id \in Jobs : \E payload \in Payloads : Enqueue(id, payload)
    \/ \E id \in Jobs : Expire(id)
    \/ \E c \in Consumers : ConsumerStep(c)
    \/ \E w \in Workers : WorkerStep(w)
    \/ Disruption
    \/ Tick

Spec == Init /\ [][Next]_vars

\* Pods are restarted, tasks of a live process run, the runtime call ends by
\* its timeout, and time passes.  Clients, expiry and disruptions owe nothing.
Fairness ==
    /\ \A c \in Consumers : WF_vars(ConsumerStep(c))
    /\ \A w \in Workers : WF_vars(WorkerStep(w))
    /\ WF_vars(Tick)

FairSpec == Spec /\ Fairness
-----------------------------------------------------------------------------
(* Whatever workers do; SingleEntry as long as no record expires.          *)

Queued(id) == \E i \in 1..Len(queue) : queue[i] = id

\* An id is on the two lists at most once: claim, crash, recovery and repeated
\* enqueues never multiply a job.
SingleEntry ==
    /\ \A i, j \in 1..Len(queue) : queue[i] = queue[j] => i = j
    /\ \A id \in Jobs : /\ processing[id] <= 1
                        /\ Queued(id) => ~Listed(id)

\* recover_processing(): "at most one worker sweeps the processing list per
\* interval".  A lock is an interval: while a worker is between SET and the end
\* of the script its lock has not run out, and no other worker is there.  Time
\* passes, workers crash with the lock and commands are sent twice meanwhile;
\* that the script runs within MaxLag of the SET is assumed.
OneSweeper ==
    \A w \in Workers : sweeper[w].pc = "locked" =>
        /\ lock > 0
        /\ \A v \in Workers : sweeper[v].pc = "locked" => v = w
-----------------------------------------------------------------------------
(* In the timely regime, as long as no record expires.                     *)

\* A job that a live worker is handling is never handed to a second one.
ClaimIsExclusive ==
    \A c, d \in Consumers :
        Handling(c) /\ consumer[c].id = consumer[d].id => c = d

\* At least once: a job that was accepted and has no outcome is on one of the
\* lists, where a claim or a sweep will find it, wherever its worker died.
NothingStranded ==
    \A id \in Jobs : Unfinished(id) => Queued(id) \/ Listed(id)

\* What a poll has once shown as the outcome, every later poll shows.
OutcomeIsFinal ==
    [][\A id \in Jobs : Finished(id) => Poll(id)' = Poll(id)]_vars

\* A succeeded job shows the answer to its own request and no error, a failed
\* one the error and no answer, and a job without outcome neither.
OutcomeIsWhole ==
    \A id \in Jobs :
        /\ job[id].result = IF job[id].status = "succeeded"
                              THEN job[id].payload ELSE None
        /\ (job[id].status = "failed") = (job[id].error # "absent")

\* Every accepted job gets its outcome, through crashes, lost calls and stops.
EveryJobSettles == \A id \in Jobs : Unfinished(id) ~> Finished(id)

\* No id stays in the processing list: its worker finishes it or, when that
\* worker is gone, a later sweep takes it out.
ProcessingDrains == \A id \in Jobs : Listed(id) ~> ~Listed(id)

\* A worker told to stop ends: each of its tasks leaves the call it waits in,
\* finishes the job it has and sees the event, whatever is still queued.
StopCompletes ==
    \A w \in Workers : phase[w] = "stopping" ~> phase[w] = "down"

\* The queue and its workers implement the life cycle a client is promised.
Lifecycle == INSTANCE JobLifecycle WITH status <- [id \in Jobs |-> job[id].status]
ImplementsLifecycle == Lifecycle!Spec
-----------------------------------------------------------------------------
(* The inductive invariants behind the properties above.                   *)

\* A consumer has an id exactly while it handles a job.
PcInv ==
    \A c \in Consumers : Handling(c) <=> consumer[c].pc \notin {"exited", "claiming"}

\* A sweep runs while its lock does: the lock is as old as the sweep.
SweepInv ==
    /\ \A v, w \in Workers :
          sweeper[v].pc = "locked" /\ sweeper[w].pc = "locked" => v = w
    /\ \A w \in Workers : sweeper[w].pc = "locked" =>
          sweeper[w].timer <= MaxLag /\ lock = Lease - sweeper[w].timer

\* Without expiry an id that is anywhere has its record, so no enqueue finds
\* the key free and adds a second entry.
EntryInv ==
    /\ SingleEntry
    /\ \A id \in Jobs : Queued(id) \/ Listed(id) => Exists(id)
    /\ \A c \in Consumers : Handling(c) => Exists(consumer[c].id)

\* A consumer has the job's request, its entry is in the processing list, and
\* the stamp is at most as old as the handling; or its finish() was applied
\* and is being sent again.
InHand(c) ==
    LET id == consumer[c].id IN
    /\ consumer[c].pc \in {"popped", "read", "posting"} \cup Terminal
    /\ consumer[c].pc # "popped" => consumer[c].payload = job[id].payload
    /\ \/ /\ Unfinished(id) /\ Listed(id)
          /\ job[id].claimed <= consumer[c].held + MaxLag
          /\ consumer[c].pc \in {"posting"} \cup Terminal =>
                job[id].status = "running"
       \/ consumer[c].pc = job[id].status

TimelyInv ==
    /\ PcInv
    /\ EntryInv
    /\ NothingStranded
    /\ ClaimIsExclusive
    /\ OutcomeIsWhole
    /\ \A c \in Consumers : Handling(c) => InHand(c)
    /\ \A id \in Jobs :
          /\ Exists(id) => job[id].payload # None
          /\ Queued(id) => job[id].status = "queued" /\ job[id].claimed = Unstamped
          /\ Finished(id) => ~Listed(id)
-----------------------------------------------------------------------------
(* Promises of the documentation that the code does not keep.              *)

\* "claim rejects the terminal record on the next pop": a claim never takes a
\* job that has its outcome (docs/async-inference.md:24-25).
ClaimRejectsFinished ==
    [][\A id \in Jobs : Finished(id) => job'[id].status # "running"]_vars

\* The queue is bounded by its capacity (docs/architecture.md:87).
QueueIsBounded == Len(queue) <= Capacity

\* Every job record is TTL-bound (docs/architecture.md:87).
RecordsAreTtlBound == \A id \in Jobs : Exists(id) => job[id].ttl

\* "A job whose worker died is requeued once the lease lapses": a job without
\* outcome is on a list or in the hands of a live worker
\* (app/async_queue.py:213-214).
NothingForgotten ==
    \A id \in Jobs : Unfinished(id) =>
        Queued(id) \/ Listed(id) \/ \E c \in Consumers : consumer[c].id = id

\* As long as a job's outcome can be polled, an identical repeat of the request
\* gets the same job, not a 409 (docs/async-inference.md:8-9).
RepeatIsRecognised ==
    \A id \in Jobs : Finished(id) =>
        \E payload \in Payloads : EnqueueScript(id, payload) = 0
=============================================================================
