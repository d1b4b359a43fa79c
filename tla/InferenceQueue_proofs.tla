----------------------- MODULE InferenceQueue_proofs -----------------------
(***************************************************************************)
(* Proofs about InferenceQueue, for every number of jobs, workers and      *)
(* consumers and every capacity, lease, deadline and number of disruptions.*)
(***************************************************************************)
EXTENDS InferenceQueue, TLAPS, FiniteSetTheorems

\* An ordering of a set of ids, as a sweep appends it, is a sequence that holds
\* each of them exactly once.
LEMMA OrderingFacts ==
    ASSUME NEW S \in SUBSET Jobs,
           NEW s \in Bijection(1..Cardinality(S), S)
    PROVE  /\ s \in Seq(Jobs)
           /\ Len(s) = Cardinality(S)
           /\ \A i \in 1..Len(s) : s[i] \in S
           /\ \A i, j \in 1..Len(s) : s[i] = s[j] => i = j
<1>1. IsFiniteSet(S)
  BY QueueAssumption, FS_Subset
<1>2. Cardinality(S) \in Nat
  BY <1>1, FS_CardinalityType
<1>3. /\ s \in [1..Cardinality(S) -> S]
      /\ \A i, j \in 1..Cardinality(S) : s[i] = s[j] => i = j
  BY DEF Bijection, Injection, IsInjective
<1>4. s \in Seq(Jobs) /\ Len(s) = Cardinality(S)
  BY <1>2, <1>3
<1> QED
  BY <1>3, <1>4

\* The three things a step does to the queue, as seen through membership.
LEMMA AppendFacts ==
    ASSUME NEW q \in Seq(Jobs), NEW id \in Jobs
    PROVE  /\ Append(q, id) \in Seq(Jobs)
           /\ Len(Append(q, id)) = Len(q) + 1
           /\ \A i \in 1..Len(q) : Append(q, id)[i] = q[i]
           /\ Append(q, id)[Len(q) + 1] = id
  OBVIOUS

\* BLMOVE's view of the queue: its head, and what is left.
LEMMA TailFacts ==
    ASSUME NEW q \in Seq(Jobs), q # <<>>
    PROVE  /\ Head(q) \in Jobs /\ Head(q) = q[1]
           /\ Tail(q) \in Seq(Jobs)
           /\ Len(q) \in Nat /\ Len(q) > 0
           /\ Len(Tail(q)) = Len(q) - 1
           /\ \A i \in 1..Len(Tail(q)) : Tail(q)[i] = q[i + 1]
  OBVIOUS

\* The sweep's view of the queue: the requeued ids come after the others.
LEMMA ConcatFacts ==
    ASSUME NEW q \in Seq(Jobs), NEW s \in Seq(Jobs)
    PROVE  /\ q \o s \in Seq(Jobs)
           /\ Len(q \o s) = Len(q) + Len(s)
           /\ \A i \in 1..Len(q) : (q \o s)[i] = q[i]
           /\ \A i \in 1..Len(s) : (q \o s)[Len(q) + i] = s[i]
  OBVIOUS
-----------------------------------------------------------------------------
(* Type correctness.                                                       *)

\* What each group of variables is typed by.
RedisType ==
    /\ queue \in Seq(Jobs)
    /\ processing \in [Jobs -> Nat]
    /\ job \in [Jobs -> Record]
    /\ lock \in 0..Lease

WorkerType ==
    /\ phase \in [Workers -> {"down", "starting", "running", "stopping"}]
    /\ sweeper \in [Workers -> SweeperState]
    /\ consumer \in [Consumers -> ConsumerState]

\* The type invariant is that of Redis, of the workers and of the bound.
LEMMA TypeParts ==
    /\ TypeOK => RedisType /\ WorkerType /\ disruptions \in 0..MaxDisruptions
    /\ RedisType' /\ WorkerType' /\ disruptions' \in 0..MaxDisruptions => TypeOK'
  BY DEF TypeOK, RedisType, WorkerType

\* The hash fields the commands write are well typed.
LEMMA RecordTypes ==
    ASSUME NEW r \in Record
    PROVE  /\ \A st \in {"queued", "running"} : \A age \in Unstamped..OldestAge :
                [r EXCEPT !.status = st, !.claimed = age] \in Record
           /\ \A age \in Unstamped..OldestAge : [r EXCEPT !.claimed = age] \in Record
           /\ \A st \in Terminal : \A res \in Payloads \cup {None} :
                \A err \in {"absent", "sanitized"} :
                  [r EXCEPT !.status = st, !.result = res, !.error = err,
                            !.ttl = TRUE] \in Record
  BY DEF Record

\* What the assumptions say of leases, lags and ages of a claimed_at stamp.
LEMMA AgeTypes ==
    /\ Lease \in Nat /\ MaxLag \in Nat /\ MaxLag < Lease /\ OldestAge \in Nat
    /\ Unstamped \in Unstamped..OldestAge
    /\ \A lag \in 0..MaxLag : lag \in Unstamped..OldestAge
    /\ \A age \in Unstamped..OldestAge :
         age # Unstamped => Older(age) \in Unstamped..OldestAge
  BY QueueAssumption DEF Unstamped, OldestAge, Older

\* Each command of a consumer keeps Redis well typed.
LEMMA MoveHeadType ==
    ASSUME TypeOK, MoveHead PROVE RedisType' /\ Head(queue) \in Jobs
  BY TailFacts DEF MoveHead, TypeOK, RedisType

\* LREM keeps the processing list well typed.
LEMMA UnlinkType ==
    ASSUME TypeOK, NEW id \in Jobs, Unlink(id) PROVE processing' \in [Jobs -> Nat]
  BY DEF Unlink, TypeOK

\* claim()'s HSET keeps Redis well typed.
LEMMA StampType ==
    ASSUME TypeOK, NEW c \in Consumers, consumer[c].id \in Jobs, StampClaim(c)
    PROVE  RedisType'
<1>1. PICK lag \in 0..MaxLag :
        job' = [job EXCEPT ![consumer[c].id] =
                  [@ EXCEPT !.status = "running", !.claimed = lag]]
  BY DEF StampClaim
<1>2. [job[consumer[c].id] EXCEPT !.status = "running", !.claimed = lag] \in Record
  BY RecordTypes, AgeTypes DEF TypeOK
<1>3. job' \in [Jobs -> Record]
  BY <1>1, <1>2 DEF TypeOK
<1> QED
  BY <1>3 DEF StampClaim, RedisType, TypeOK

\* finish()'s MULTI block keeps Redis well typed.
LEMMA OutcomeType ==
    ASSUME TypeOK, NEW c \in Consumers, consumer[c].id \in Jobs,
           consumer[c].pc \in Terminal, StoreOutcome(c)
    PROVE  RedisType'
<1> DEFINE r == job[consumer[c].id]
           res == IF consumer[c].pc = "succeeded" THEN consumer[c].payload ELSE r.result
           err == IF consumer[c].pc = "failed" THEN "sanitized" ELSE r.error
<1>1. r \in Record /\ res \in Payloads \cup {None} /\ err \in {"absent", "sanitized"}
  BY DEF TypeOK, Record, ConsumerState
<1>2. job' = [job EXCEPT ![consumer[c].id] =
                [r EXCEPT !.status = consumer[c].pc, !.result = res, !.error = err,
                          !.ttl = TRUE]]
  BY DEF StoreOutcome
<1> HIDE DEF r, res, err
<1>3. [r EXCEPT !.status = consumer[c].pc, !.result = res, !.error = err,
                !.ttl = TRUE] \in Record
  BY <1>1, RecordTypes
<1>4. job' \in [Jobs -> Record]
  BY <1>2, <1>3 DEF TypeOK
<1> QED
  BY <1>4, UnlinkType DEF StoreOutcome, RedisType, TypeOK

\* So does the sweep.
LEMMA SweepType ==
    ASSUME TypeOK, NEW lag \in 0..MaxLag, SweepProcessing(lag)
    PROVE  RedisType'
<1> DEFINE stranded == {id \in Jobs : Stale(id, lag)}
<1>1. /\ \A id \in stranded : processing[id] - 1 \in Nat
      /\ \A id \in Jobs : processing[id] \in Nat
  BY DEF Stale, Listed, TypeOK
<1>2. \A id \in Jobs :
        /\ [job[id] EXCEPT !.status = "queued",
              !.claimed = IF processing[id] > 1 THEN lag ELSE Unstamped] \in Record
        /\ [job[id] EXCEPT !.claimed = lag] \in Record
        /\ job[id] \in Record
  BY RecordTypes, AgeTypes DEF TypeOK
<1>3. PICK s \in Bijection(1..Cardinality(stranded), stranded) : queue' = queue \o s
  BY DEF SweepProcessing
<1>4. queue' \in Seq(Jobs)
  BY <1>3, OrderingFacts, ConcatFacts DEF TypeOK
<1>5. /\ processing' = [id \in Jobs |->
            IF id \in stranded THEN processing[id] - 1
            ELSE IF Unfinished(id) THEN processing[id] ELSE 0]
      /\ job' = [id \in Jobs |->
            IF id \in stranded
              THEN [job[id] EXCEPT !.status = "queued",
                      !.claimed = IF processing[id] > 1 THEN lag ELSE Unstamped]
            ELSE IF Unclaimed(id) THEN [job[id] EXCEPT !.claimed = lag]
            ELSE job[id]]
      /\ lock' = lock
  BY DEF SweepProcessing, Swept
<1> HIDE DEF stranded
<1>6. processing' \in [Jobs -> Nat]
  BY <1>1, <1>5
<1>7. job' \in [Jobs -> Record]
  BY <1>2, <1>5
<1> QED
  BY <1>4, <1>5, <1>6, <1>7 DEF RedisType, TypeOK

\* A step that only moves consumer c, or restarts or ends the tasks of w.
LEMMA GotoType ==
    ASSUME TypeOK, NEW c \in Consumers, NEW state \in ConsumerState, Goto(c, state)
    PROVE  WorkerType'
  BY DEF Goto, TypeOK, WorkerType

\* Where a task or a sweeper without work is, is well typed.
LEMMA IdleTypes ==
    /\ \A pc \in {"exited", "claiming"} : At(pc) \in ConsumerState
    /\ \A c \in Consumers : LoopHead(c) \in ConsumerState
    /\ \A time \in 0..Lease : Asleep(time) \in SweeperState
  BY QueueAssumption DEF At, LoopHead, Asleep, ConsumerState, SweeperState

\* The end of a recovery keeps the processes well typed.
LEMMA RecoveredType ==
    ASSUME TypeOK, NEW w \in Workers, Recovered(w) PROVE WorkerType'
<1>1. Lease \in 0..Lease
  BY QueueAssumption
<1> QED
  BY <1>1, IdleTypes DEF Recovered, TypeOK, WorkerType

\* The end of a process keeps the processes well typed.
LEMMA KilledType ==
    ASSUME TypeOK, NEW w \in Workers, Killed(w) PROVE WorkerType'
<1>1. 0 \in 0..Lease
  BY QueueAssumption
<1> QED
  BY <1>1, IdleTypes DEF Killed, TypeOK, WorkerType

\* A disruption keeps their count within its bound.
LEMMA DisruptType ==
    ASSUME TypeOK, Disrupt PROVE disruptions' \in 0..MaxDisruptions
  BY QueueAssumption DEF Disrupt, TypeOK

\* The type invariant is inductive together with where a consumer has an id and
\* how long a sweep lasts.
BaseInv == TypeOK /\ PcInv /\ SweepInv

\* The clock of a sweep is at most MaxLag old when the script runs.
LEMMA SweepLag ==
    ASSUME TypeOK, SweepInv, NEW w \in Workers, RunSweep(w)
    PROVE  \E lag \in 0..MaxLag : SweepProcessing(lag)
<1>1. sweeper[w].timer \in 0..MaxLag
  BY AgeTypes DEF RunSweep, SweepInv, TypeOK, SweeperState
<1>2. \A lag \in 0..sweeper[w].timer : lag \in 0..MaxLag
  BY <1>1, AgeTypes
<1> QED
  BY <1>2 DEF RunSweep

\* Every step keeps the type invariant.
LEMMA TypeStep ==
    ASSUME BaseInv, [Next]_vars PROVE TypeOK'
<1>0. TypeOK /\ PcInv /\ SweepInv
  BY DEF BaseInv
<1> USE <1>0
<1>1. ASSUME NEW id \in Jobs, NEW payload \in Payloads, Enqueue(id, payload)
      PROVE  TypeOK'
  <2>1. [NoRecord EXCEPT !.status = "queued", !.payload = payload, !.ttl = TRUE] \in Record
    BY AgeTypes DEF NoRecord, Record
  <2>2. job' \in [Jobs -> Record]
    BY <1>1, <2>1 DEF Enqueue, TypeOK
  <2> QED
    BY <1>1, <2>2, AppendFacts DEF Enqueue, TypeOK
<1>2. ASSUME NEW id \in Jobs, Expire(id) PROVE TypeOK'
  <2>1. NoRecord \in Record
    BY AgeTypes DEF NoRecord, Record
  <2> QED
    BY <1>2, <2>1 DEF Expire, TypeOK
<1>3. ASSUME NEW c \in Consumers, ConsumerStep(c) PROVE TypeOK'
  <2> USE DEF Handling, PcInv
  <2>0. consumer[c] \in ConsumerState
    BY DEF TypeOK
  <2>1. CASE ClaimPop(c)
    <3>1. RedisType' /\ Head(queue) \in Jobs
      BY <2>1, MoveHeadType DEF ClaimPop
    <3>2. [At("popped") EXCEPT !.id = Head(queue)] \in ConsumerState
      BY <3>1, QueueAssumption DEF At, ConsumerState
    <3> QED
      BY <2>1, <3>1, <3>2, GotoType, TypeParts DEF ClaimPop
  <2>2. CASE ClaimTimeout(c)
    BY <2>2, IdleTypes, GotoType, TypeParts DEF ClaimTimeout, RedisType, redisVars
  <2>3. CASE ClaimRead(c)
    <3>1. /\ [consumer[c] EXCEPT !.pc = "read",
                 !.payload = job[consumer[c].id].payload] \in ConsumerState
          /\ [consumer[c] EXCEPT !.pc = "drop"] \in ConsumerState
      BY <2>0, <2>3 DEF ClaimRead, TypeOK, Record, ConsumerState
    <3> QED
      BY <2>3, <3>1, GotoType, TypeParts DEF ClaimRead, RedisType, redisVars
  <2>4. CASE ClaimDrop(c)
    <3>1. consumer[c].id \in Jobs
      BY <2>0, <2>4 DEF ClaimDrop, ConsumerState
    <3> QED
      BY <2>4, <3>1, IdleTypes, GotoType, UnlinkType, TypeParts
         DEF ClaimDrop, DropEntry, RedisType
  <2>5. CASE ClaimStamp(c)
    <3>1. consumer[c].id \in Jobs /\ [consumer[c] EXCEPT !.pc = "posting"] \in ConsumerState
      BY <2>0, <2>5 DEF ClaimStamp, ConsumerState
    <3> QED
      BY <2>5, <3>1, IdleTypes, GotoType, StampType, TypeParts DEF ClaimStamp
  <2>6. CASE ProcessJob(c)
    <3>1. \A outcome \in Terminal : [consumer[c] EXCEPT !.pc = outcome] \in ConsumerState
      BY <2>0 DEF ConsumerState
    <3> QED
      BY <2>6, <3>1, GotoType, TypeParts DEF ProcessJob, RedisType, redisVars
  <2>7. CASE Finish(c)
    <3>1. consumer[c].id \in Jobs
      BY <2>0, <2>7 DEF Finish, ConsumerState, Terminal
    <3> QED
      BY <2>7, <3>1, IdleTypes, GotoType, OutcomeType, TypeParts DEF Finish
  <2> QED
    BY <1>3, <2>1, <2>2, <2>3, <2>4, <2>5, <2>6, <2>7 DEF ConsumerStep
<1>4. ASSUME NEW w \in Workers, WorkerStep(w) PROVE TypeOK'
  <2>1. CASE Start(w)
    BY <2>1 DEF Start, TypeOK, redisVars
  <2>2. CASE RecoverAcquire(w)
    <3>1. CASE lock = 0 /\ lock' = Lease
               /\ sweeper' = [sweeper EXCEPT ![w] = [pc |-> "locked", timer |-> 0]]
               /\ UNCHANGED <<phase, consumer>>
      BY <2>2, <3>1, AgeTypes DEF RecoverAcquire, TypeOK, SweeperState
    <3>2. CASE Recovered(w) /\ UNCHANGED lock
      BY <2>2, <3>2, RecoveredType, TypeParts DEF RecoverAcquire, RedisType
    <3> QED
      BY <2>2, <3>1, <3>2 DEF RecoverAcquire
  <2>3. CASE RecoverSweep(w)
    BY <2>3, SweepLag, SweepType, RecoveredType, TypeParts DEF RecoverSweep
  <2>4. CASE Exit(w)
    BY <2>4, KilledType, TypeParts DEF Exit, RedisType, redisVars
  <2> QED
    BY <1>4, <2>1, <2>2, <2>3, <2>4 DEF WorkerStep
<1>5. ASSUME NEW c \in Consumers, CallLost(c) \/ ReplyLost(c) PROVE TypeOK'
  <2>0. consumer[c] \in ConsumerState
    BY DEF TypeOK
  <2>1. CASE CallLost(c)
    BY <2>1, IdleTypes, GotoType, DisruptType, TypeParts
       DEF CallLost, RedisType, redisVars
  <2>2. CASE ReplyLost(c)
    <3>1. WorkerType' /\ disruptions' \in 0..MaxDisruptions
      BY <2>0, <2>2, IdleTypes, GotoType, DisruptType DEF ReplyLost
    <3>2. RedisType'
      <4>1. CASE consumer[c].pc = "claiming" /\ MoveHead
        BY <4>1, MoveHeadType
      <4>2. CASE /\ consumer[c].pc \notin {"exited", "claiming"}
                 /\ \/ DropEntry(c) \/ StampClaim(c)
                    \/ consumer[c].pc \in Terminal /\ StoreOutcome(c)
        <5>1. consumer[c].id \in Jobs
          BY <2>0, <4>2 DEF PcInv, Handling, ConsumerState
        <5> QED
          BY <4>2, <5>1, UnlinkType, StampType, OutcomeType
             DEF DropEntry, RedisType, TypeOK
      <4> QED
        BY <2>2, <4>1, <4>2 DEF ReplyLost, Terminal
    <3> QED
      BY <3>1, <3>2, TypeParts
  <2> QED
    BY <1>5, <2>1, <2>2
<1>6. ASSUME NEW w \in Workers,
             RecoverFails(w) \/ RecoverResent(w) \/ Stop(w) \/ Crash(w)
      PROVE  TypeOK'
  <2>1. CASE RecoverFails(w)
    <3>1. WorkerType' /\ disruptions' \in 0..MaxDisruptions
      BY <2>1, KilledType, RecoveredType, DisruptType DEF RecoverFails
    <3>2. RedisType'
      BY <2>1, SweepLag, SweepType, AgeTypes DEF RecoverFails, RedisType, TypeOK, redisVars
    <3> QED
      BY <3>1, <3>2, TypeParts
  <2>2. CASE RecoverResent(w)
    <3>1. WorkerType' /\ disruptions' \in 0..MaxDisruptions
      BY <2>2, RecoveredType, DisruptType, TypeParts DEF RecoverResent, WorkerType
    <3>2. RedisType'
      BY <2>2, SweepLag, SweepType, AgeTypes DEF RecoverResent, RedisType, TypeOK
    <3> QED
      BY <3>1, <3>2, TypeParts
  <2>3. CASE Stop(w)
    BY <2>3, DisruptType DEF Stop, TypeOK, redisVars
  <2>4. CASE Crash(w)
    BY <2>4, DisruptType, KilledType, TypeParts DEF Crash, RedisType, redisVars
  <2> QED
    BY <1>6, <2>1, <2>2, <2>3, <2>4
<1>7. ASSUME Tick PROVE TypeOK'
  <2>1. job' \in [Jobs -> Record]
    <3>1. \A id \in Jobs : job[id] \in Record /\ job[id].claimed \in Unstamped..OldestAge
      BY DEF TypeOK, Record
    <3>2. \A id \in Jobs : job[id].claimed # Unstamped =>
            [job[id] EXCEPT !.claimed = Older(job[id].claimed)] \in Record
      BY <3>1, RecordTypes, AgeTypes
    <3> QED
      BY <1>7, <3>1, <3>2 DEF Tick
  <2>2. lock' \in 0..Lease
    BY <1>7, AgeTypes DEF Tick, TypeOK
  <2>3. sweeper' \in [Workers -> SweeperState]
    BY <1>7, AgeTypes DEF Tick, TypeOK, SweeperState
  <2>4. consumer' \in [Consumers -> ConsumerState]
    <3>0. \A c \in Consumers : /\ consumer[c] \in ConsumerState
                              /\ consumer[c].held \in 0..Deadline
      BY DEF TypeOK, ConsumerState
    <3>1. ASSUME NEW c \in Consumers, Timely, Handling(c)
          PROVE  [consumer[c] EXCEPT !.held = consumer[c].held + 1] \in ConsumerState
      <4>1. consumer[c].held + 1 \in 0..Deadline
        BY <1>7, <3>0, <3>1, QueueAssumption DEF Tick
      <4> QED
        BY <3>0, <4>1 DEF ConsumerState
    <3> QED
      BY <1>7, <3>1 DEF Tick, TypeOK
  <2> QED
    BY <1>7, <2>1, <2>2, <2>3, <2>4 DEF Tick, TypeOK
<1>8. CASE UNCHANGED vars
  BY <1>8 DEF vars, TypeOK
<1> QED
  BY <1>1, <1>2, <1>3, <1>4, <1>5, <1>6, <1>7, <1>8 DEF Next, Disruption

\* A step of a consumer or a failed call of it moves that consumer to a state
\* where it has an id exactly if it handles a job; it leaves the sweepers alone.
Coherent(state) == state.id # None <=> state.pc \notin {"exited", "claiming"}

\* claim(), process_job() and finish() keep a consumer's id with its job.
LEMMA ConsumerMoves ==
    ASSUME BaseInv, NEW c \in Consumers, ConsumerStep(c) \/ CallLost(c) \/ ReplyLost(c)
    PROVE  /\ \E state : Coherent(state) /\ Goto(c, state)
           /\ lock' = lock
<1>0. TypeOK /\ PcInv /\ consumer[c] \in ConsumerState /\ Coherent(consumer[c])
  BY DEF BaseInv, TypeOK, PcInv, Handling, Coherent
<1>1. Coherent(LoopHead(c))
  BY DEF Coherent, LoopHead, At
<1>2. CASE ClaimPop(c)
  <2>1. Head(queue) \in Jobs
    BY <1>0, <1>2, TailFacts DEF ClaimPop, MoveHead, TypeOK
  <2>2. Coherent([At("popped") EXCEPT !.id = Head(queue)])
    BY <2>1, QueueAssumption DEF Coherent, At
  <2> QED
    BY <1>2, <2>2 DEF ClaimPop, MoveHead
<1>3. CASE ClaimTimeout(c)
  BY <1>1, <1>3 DEF ClaimTimeout, redisVars
<1>4. CASE ClaimRead(c)
  <2>1. /\ Coherent([consumer[c] EXCEPT !.pc = "read",
                       !.payload = job[consumer[c].id].payload])
        /\ Coherent([consumer[c] EXCEPT !.pc = "drop"])
    BY <1>0, <1>4 DEF ClaimRead, Coherent, ConsumerState
  <2> QED
    BY <1>4, <2>1 DEF ClaimRead, redisVars
<1>5. CASE ClaimDrop(c)
  BY <1>1, <1>5 DEF ClaimDrop, DropEntry
<1>6. CASE ClaimStamp(c)
  <2>1. Coherent([consumer[c] EXCEPT !.pc = "posting"])
    BY <1>0, <1>6 DEF ClaimStamp, Coherent, ConsumerState
  <2> QED
    BY <1>1, <1>6, <2>1 DEF ClaimStamp, StampClaim
<1>7. CASE ProcessJob(c)
  <2>1. \A outcome \in Terminal : Coherent([consumer[c] EXCEPT !.pc = outcome])
    BY <1>0, <1>7 DEF ProcessJob, Coherent, ConsumerState, Terminal
  <2> QED
    BY <1>7, <2>1 DEF ProcessJob, redisVars
<1>8. CASE Finish(c)
  BY <1>1, <1>8 DEF Finish, StoreOutcome
<1>9. CASE CallLost(c)
  BY <1>1, <1>9 DEF CallLost, redisVars
<1>10. CASE ReplyLost(c)
  BY <1>0, <1>1, <1>10 DEF ReplyLost, MoveHead, DropEntry, StampClaim, StoreOutcome
<1> QED
  BY <1>2, <1>3, <1>4, <1>5, <1>6, <1>7, <1>8, <1>9, <1>10 DEF ConsumerStep

\* Every step keeps the ids of consumers with their jobs.
LEMMA PcStep ==
    ASSUME BaseInv, [Next]_vars PROVE PcInv'
<1>0. TypeOK /\ PcInv
  BY DEF BaseInv
<1>1. CASE consumer' = consumer
  BY <1>0, <1>1 DEF PcInv, Handling
<1>2. ASSUME NEW c \in Consumers, NEW state, Coherent(state), Goto(c, state)
      PROVE  PcInv'
  BY <1>0, <1>2 DEF Goto, Coherent, PcInv, Handling, TypeOK
<1>3. ASSUME NEW w \in Workers, Recovered(w) PROVE PcInv'
  BY <1>0, <1>3 DEF Recovered, At, PcInv, Handling, TypeOK
<1>4. ASSUME NEW w \in Workers, Killed(w) PROVE PcInv'
  BY <1>0, <1>4 DEF Killed, At, PcInv, Handling, TypeOK
<1>5. CASE Tick
  <2> SUFFICES ASSUME NEW c \in Consumers
               PROVE  consumer'[c].id # None <=> consumer'[c].pc \notin {"exited", "claiming"}
    BY DEF PcInv, Handling
  <2>1. consumer[c] \in ConsumerState
    BY <1>0 DEF TypeOK
  <2>2. consumer'[c].id = consumer[c].id /\ consumer'[c].pc = consumer[c].pc
    BY <1>5, <2>1 DEF Tick, ConsumerState
  <2> QED
    BY <1>0, <2>2 DEF PcInv, Handling
<1>6. ASSUME NEW c \in Consumers, ConsumerStep(c) \/ CallLost(c) \/ ReplyLost(c)
      PROVE  PcInv'
  BY <1>2, <1>6, ConsumerMoves
<1>7. ASSUME NEW w \in Workers,
             WorkerStep(w) \/ RecoverFails(w) \/ RecoverResent(w) \/ Stop(w) \/ Crash(w)
      PROVE  PcInv'
  BY <1>1, <1>3, <1>4, <1>7
     DEF WorkerStep, Start, RecoverAcquire, RecoverSweep, Exit, RecoverFails,
         RecoverResent, Stop, Crash
<1> QED
  BY <1>1, <1>5, <1>6, <1>7 DEF Next, Disruption, Enqueue, Expire, vars

\* Every step keeps at most one sweep under way, younger than its lock: a
\* process sets the lock only when it is free, and time waits for a sweep.
LEMMA SweepStep ==
    ASSUME BaseInv, [Next]_vars PROVE SweepInv'
<1>0. TypeOK /\ SweepInv
  BY DEF BaseInv, SweepInv
<1>1. CASE sweeper' = sweeper /\ lock' = lock
  BY <1>0, <1>1 DEF SweepInv
<1> DEFINE Only(w) == \A v \in Workers \ {w} : sweeper'[v] = sweeper[v]
<1>2. ASSUME NEW w \in Workers, Only(w), sweeper'[w].pc = "asleep", lock' = lock
      PROVE  SweepInv'
  BY <1>0, <1>2 DEF SweepInv
<1>3. lock = 0 => \A v \in Workers : sweeper[v].pc # "locked"
  BY <1>0, AgeTypes DEF SweepInv, TypeOK, SweeperState
<1>4. ASSUME NEW w \in Workers, Only(w), lock = 0, lock' = Lease,
             sweeper'[w].pc = "asleep" \/ sweeper'[w].timer = 0
      PROVE  SweepInv'
  BY <1>0, <1>3, <1>4, AgeTypes DEF SweepInv
<1>5. ASSUME NEW w \in Workers, Recovered(w) \/ Killed(w)
      PROVE  Only(w) /\ sweeper'[w].pc = "asleep"
  BY <1>0, <1>5 DEF Recovered, Killed, Asleep, TypeOK
<1>6. CASE Tick
  <2>1. \A w \in Workers : sweeper'[w].pc = sweeper[w].pc
    BY <1>0, <1>6 DEF Tick, TypeOK, SweeperState
  <2>2. \A w \in Workers : sweeper[w].pc = "locked" =>
          /\ sweeper'[w].timer = sweeper[w].timer + 1
          /\ sweeper'[w].timer <= MaxLag
          /\ lock' = Lease - sweeper'[w].timer
    BY <1>0, <1>6, AgeTypes DEF Tick, SweepInv, TypeOK, SweeperState
  <2> QED
    BY <1>0, <2>1, <2>2 DEF SweepInv
<1>7. ASSUME NEW c \in Consumers, ConsumerStep(c) \/ CallLost(c) \/ ReplyLost(c)
      PROVE  SweepInv'
  BY <1>1, <1>7, ConsumerMoves DEF Goto
<1>8. ASSUME NEW w \in Workers,
             WorkerStep(w) \/ RecoverFails(w) \/ RecoverResent(w) \/ Stop(w) \/ Crash(w)
      PROVE  SweepInv'
  <2>1. CASE Start(w) \/ Stop(w)
    BY <1>1, <2>1 DEF Start, Stop, redisVars
  <2>2. CASE RecoverAcquire(w)
    <3>1. CASE lock > 0 /\ Recovered(w) /\ UNCHANGED lock
      BY <1>2, <1>5, <3>1
    <3>2. CASE lock = 0 /\ lock' = Lease
               /\ sweeper' = [sweeper EXCEPT ![w] = [pc |-> "locked", timer |-> 0]]
      <4>1. Only(w) /\ sweeper'[w].timer = 0
        BY <1>0, <3>2 DEF TypeOK
      <4> QED
        BY <1>4, <3>2, <4>1
    <3> QED
      BY <2>2, <3>1, <3>2 DEF RecoverAcquire
  <2>3. CASE RecoverSweep(w) \/ Exit(w) \/ Crash(w)
    BY <1>2, <1>5, <2>3 DEF RecoverSweep, Exit, Crash, RunSweep, SweepProcessing, redisVars
  <2>4. CASE RecoverFails(w)
    BY <1>2, <1>4, <1>5, <2>4 DEF RecoverFails, RunSweep, SweepProcessing, redisVars
  <2>5. CASE RecoverResent(w)
    BY <1>1, <1>4, <1>5, <2>5 DEF RecoverResent, RunSweep, SweepProcessing
  <2> QED
    BY <1>8, <2>1, <2>2, <2>3, <2>4, <2>5 DEF WorkerStep
<1> QED
  BY <1>1, <1>6, <1>7, <1>8 DEF Next, Disruption, Enqueue, Expire, vars

\* The inductive invariant of every regime.
THEOREM BaseInvariance == Spec => []BaseInv
<1>1. Init => BaseInv
  <2> SUFFICES ASSUME Init PROVE BaseInv
    OBVIOUS
  <2>1. NoRecord \in Record
    BY AgeTypes DEF NoRecord, Record
  <2>2. 0 \in 0..Lease /\ 0 \in 0..MaxDisruptions /\ <<>> \in Seq(Jobs)
    BY QueueAssumption
  <2>3. TypeOK
    BY <2>1, <2>2, IdleTypes DEF Init, TypeOK
  <2>4. PcInv
    BY DEF Init, PcInv, Handling, At
  <2>5. SweepInv
    BY DEF Init, SweepInv, Asleep
  <2> QED
    BY <2>3, <2>4, <2>5 DEF BaseInv
<1>2. BaseInv /\ [Next]_vars => BaseInv'
  BY TypeStep, PcStep, SweepStep DEF BaseInv
<1> QED
  BY <1>1, <1>2, PTL DEF Spec

\* Type correctness: every step of enqueue, claim, finish, recovery, start,
\* stop and crash leaves well-formed lists, records and processes.
THEOREM TypeCorrect == Spec => []TypeOK
<1>1. BaseInv => TypeOK
  BY DEF BaseInv
<1> QED
  BY <1>1, BaseInvariance, PTL

\* recover_processing()'s SET NX EX: a sweep under way has its lock, which has
\* not run out, and is the only one, whatever crashes, lost replies and resent
\* commands happen.
THEOREM OneSweeperHolds == Spec => []OneSweeper
<1>1. BaseInv => OneSweeper
  BY AgeTypes DEF BaseInv, SweepInv, OneSweeper, TypeOK, SweeperState
<1> QED
  BY <1>1, BaseInvariance, PTL
-----------------------------------------------------------------------------
(* What a step does to the lists and records.                              *)

\* A command consumer c may send from where it is.
Command(c) ==
    /\ consumer[c].id \in Jobs
    /\ \/ consumer[c].pc = "drop" /\ DropEntry(c)
       \/ consumer[c].pc = "read" /\ StampClaim(c)
       \/ consumer[c].pc \in Terminal /\ StoreOutcome(c)

\* Every step is an enqueue, an expiry, a move of the queue's head, a command of
\* a consumer, a sweep, a tick, or leaves the lists and records alone.
LEMMA RedisSteps ==
    ASSUME BaseInv, [Next]_vars
    PROVE  \/ \E id \in Jobs : \E payload \in Payloads : Enqueue(id, payload)
           \/ \E id \in Jobs : Expire(id)
           \/ MoveHead
           \/ \E c \in Consumers : Command(c)
           \/ \E lag \in 0..MaxLag : SweepProcessing(lag)
           \/ Tick
           \/ UNCHANGED <<queue, processing, job>>
<1>0. TypeOK /\ PcInv /\ SweepInv
  BY DEF BaseInv
<1>1. \A c \in Consumers : consumer[c].pc \in {"read", "drop"} \cup Terminal =>
        consumer[c].id \in Jobs
  BY <1>0 DEF TypeOK, ConsumerState, PcInv, Handling, Terminal
<1>2. \A w \in Workers : RunSweep(w) => \E lag \in 0..MaxLag : SweepProcessing(lag)
  BY <1>0, SweepLag
<1>3. ASSUME NEW c \in Consumers, ConsumerStep(c) \/ CallLost(c) \/ ReplyLost(c)
      PROVE  MoveHead \/ Command(c) \/ UNCHANGED <<queue, processing, job>>
  BY <1>1, <1>3
     DEF ConsumerStep, ClaimPop, ClaimTimeout, ClaimRead, ClaimDrop, ClaimStamp,
         ProcessJob, Finish, CallLost, ReplyLost, Command, redisVars
<1>4. ASSUME NEW w \in Workers,
             WorkerStep(w) \/ RecoverFails(w) \/ RecoverResent(w) \/ Stop(w) \/ Crash(w)
      PROVE  \/ \E lag \in 0..MaxLag : SweepProcessing(lag)
             \/ UNCHANGED <<queue, processing, job>>
  BY <1>2, <1>4
     DEF WorkerStep, Start, RecoverAcquire, RecoverSweep, Exit, RecoverFails,
         RecoverResent, Stop, Crash, redisVars
<1> QED
  BY <1>3, <1>4 DEF Next, Disruption, vars

\* What one sweep does to one job.
LEMMA SweepEffect ==
    ASSUME TypeOK, NEW lag \in 0..MaxLag, SweepProcessing(lag), NEW id \in Jobs
    PROVE  /\ Stale(id, lag) => /\ processing'[id] = processing[id] - 1
                                /\ job'[id].status = "queued"
                                /\ processing[id] = 1 => job'[id].claimed = Unstamped
           /\ ~Stale(id, lag) =>
                /\ processing'[id] = IF Unfinished(id) THEN processing[id] ELSE 0
                /\ job'[id].status = job[id].status
                /\ job'[id].claimed = IF Unclaimed(id) THEN lag ELSE job[id].claimed
           /\ job'[id].payload = job[id].payload
           /\ job'[id].result = job[id].result
           /\ job'[id].error = job[id].error
<1>1. job[id] \in Record /\ processing[id] \in Nat
  BY DEF TypeOK
<1>2. CASE Stale(id, lag)
  <2>1. /\ processing'[id] = processing[id] - 1
        /\ job'[id] = [job[id] EXCEPT !.status = "queued",
                         !.claimed = IF processing[id] > 1 THEN lag ELSE Unstamped]
    BY <1>2 DEF SweepProcessing, Swept
  <2> QED
    BY <1>1, <1>2, <2>1 DEF Record
<1>3. CASE ~Stale(id, lag)
  <2>1. /\ processing'[id] = IF Unfinished(id) THEN processing[id] ELSE 0
        /\ job'[id] = IF Unclaimed(id) THEN [job[id] EXCEPT !.claimed = lag] ELSE job[id]
    BY <1>3 DEF SweepProcessing, Swept
  <2> QED
    BY <1>1, <1>3, <2>1 DEF Record
<1> QED
  BY <1>2, <1>3

\* What one command of a consumer does to one job.
LEMMA CommandEffect ==
    ASSUME TypeOK, NEW c \in Consumers, Command(c), NEW id \in Jobs
    PROVE  /\ queue' = queue
           /\ id # consumer[c].id => job'[id] = job[id] /\ processing'[id] = processing[id]
           /\ id = consumer[c].id =>
                /\ job'[id].payload = job[id].payload
                /\ CASE consumer[c].pc = "drop" ->
                          /\ job'[id] = job[id]
                          /\ processing'[id] = IF Listed(id) THEN processing[id] - 1 ELSE 0
                     [] consumer[c].pc = "read" ->
                          /\ job'[id].status = "running"
                          /\ job'[id].claimed \in 0..MaxLag
                          /\ job'[id].result = job[id].result
                          /\ job'[id].error = job[id].error
                          /\ processing'[id] = processing[id]
                     [] OTHER ->
                          /\ job'[id].status = consumer[c].pc
                          /\ job'[id].claimed = job[id].claimed
                          /\ job'[id].result = IF consumer[c].pc = "succeeded"
                                                 THEN consumer[c].payload ELSE job[id].result
                          /\ job'[id].error = IF consumer[c].pc = "failed"
                                                THEN "sanitized" ELSE job[id].error
                          /\ processing'[id] = IF Listed(id) THEN processing[id] - 1 ELSE 0
<1>1. job[id] \in Record /\ processing[id] \in Nat
  BY DEF TypeOK
<1>2. CASE consumer[c].pc = "drop" /\ DropEntry(c)
  BY <1>1, <1>2 DEF Command, DropEntry, Unlink, Listed, TypeOK, Terminal
<1>3. CASE consumer[c].pc = "read" /\ StampClaim(c)
  <2>1. PICK lag \in 0..MaxLag :
          job' = [job EXCEPT ![consumer[c].id] =
                    [@ EXCEPT !.status = "running", !.claimed = lag]]
    BY <1>3 DEF StampClaim
  <2>2. id # consumer[c].id => job'[id] = job[id]
    BY <2>1 DEF TypeOK
  <2>3. id = consumer[c].id =>
          job'[id] = [job[id] EXCEPT !.status = "running", !.claimed = lag]
    BY <2>1 DEF TypeOK
  <2> QED
    BY <1>1, <1>3, <2>2, <2>3 DEF StampClaim, Record
<1>4. CASE consumer[c].pc \in Terminal /\ StoreOutcome(c)
  <2> DEFINE res == IF consumer[c].pc = "succeeded"
                      THEN consumer[c].payload ELSE job[consumer[c].id].result
             err == IF consumer[c].pc = "failed"
                      THEN "sanitized" ELSE job[consumer[c].id].error
  <2>1. id # consumer[c].id => job'[id] = job[id]
    BY <1>4 DEF StoreOutcome, TypeOK
  <2>2. id = consumer[c].id => job'[id] =
          [job[id] EXCEPT !.status = consumer[c].pc, !.result = res, !.error = err,
                          !.ttl = TRUE]
    BY <1>4 DEF StoreOutcome, TypeOK
  <2>3. /\ id # consumer[c].id => processing'[id] = processing[id]
        /\ id = consumer[c].id =>
             processing'[id] = IF Listed(id) THEN processing[id] - 1 ELSE 0
    BY <1>4 DEF StoreOutcome, Unlink, Listed, TypeOK
  <2> HIDE DEF res, err
  <2>4. id = consumer[c].id =>
          /\ job'[id].status = consumer[c].pc /\ job'[id].payload = job[id].payload
          /\ job'[id].claimed = job[id].claimed
          /\ job'[id].result = res /\ job'[id].error = err
    BY <1>1, <2>2 DEF Record
  <2> QED
    BY <1>4, <2>1, <2>3, <2>4 DEF StoreOutcome, Terminal, res, err
<1> QED
  BY <1>2, <1>3, <1>4 DEF Command

\* A tick changes the age of a record and nothing else of it.
LEMMA TickEffect ==
    ASSUME TypeOK, Tick, NEW id \in Jobs
    PROVE  /\ queue' = queue /\ processing' = processing
           /\ job'[id].status = job[id].status /\ job'[id].payload = job[id].payload
           /\ job'[id].result = job[id].result /\ job'[id].error = job[id].error
           /\ job'[id].claimed = IF job[id].claimed = Unstamped
                                   THEN Unstamped ELSE Older(job[id].claimed)
<1>1. job[id] \in Record
  BY DEF TypeOK
<1>2. job'[id] = IF job[id].claimed = Unstamped THEN job[id]
                 ELSE [job[id] EXCEPT !.claimed = Older(job[id].claimed)]
  BY DEF Tick
<1> QED
  BY <1>1, <1>2 DEF Record, Tick
=============================================================================
