-------------------- MODULE InferenceQueueTimely_proofs --------------------
(***************************************************************************)
(* Proofs about InferenceQueue while no record expires: an id is on the    *)
(* lists at most once and, when workers are timely, a job is in one pair   *)
(* of hands, is never lost, and keeps the outcome it got.                  *)
(***************************************************************************)
EXTENDS InferenceQueue_proofs

Member(x, q) == \E i \in 1..Len(q) : q[i] = x
Distinct(q) == \A i, j \in 1..Len(q) : q[i] = q[j] => i = j

\* RPUSH of a new id keeps the ids of a list distinct.
LEMMA AppendMembers ==
    ASSUME NEW q \in Seq(Jobs), NEW id \in Jobs
    PROVE  /\ \A x : Member(x, Append(q, id)) <=> Member(x, q) \/ x = id
           /\ Distinct(q) /\ ~Member(id, q) => Distinct(Append(q, id))
<1> DEFINE r == Append(q, id)
<1>1. /\ Len(q) \in Nat /\ Len(r) = Len(q) + 1
      /\ \A i \in 1..Len(q) : r[i] = q[i]
      /\ r[Len(q) + 1] = id
  BY AppendFacts
<1> HIDE DEF r
<1>2. \A i \in 1..Len(r) : i \in 1..Len(q) \/ i = Len(q) + 1
  BY <1>1
<1>3. \A i \in 1..Len(q) : i \in 1..Len(r)
  BY <1>1
<1>4. Len(q) + 1 \in 1..Len(r)
  BY <1>1
<1>5. \A x : Member(x, r) <=> Member(x, q) \/ x = id
  BY <1>1, <1>2, <1>3, <1>4 DEF Member
<1>6. Distinct(q) /\ ~Member(id, q) => Distinct(r)
  BY <1>1, <1>2 DEF Member, Distinct
<1> QED
  BY <1>5, <1>6 DEF r

\* Taking the head keeps the others, and of distinct ids no second head.
LEMMA TailMembers ==
    ASSUME NEW q \in Seq(Jobs), q # <<>>
    PROVE  /\ Member(Head(q), q)
           /\ \A x : Member(x, Tail(q)) => Member(x, q)
           /\ \A x : Member(x, q) => x = Head(q) \/ Member(x, Tail(q))
           /\ Distinct(q) => Distinct(Tail(q)) /\ ~Member(Head(q), Tail(q))
<1> DEFINE r == Tail(q)
<1>1. /\ Head(q) = q[1] /\ Len(q) \in Nat /\ Len(q) > 0 /\ Len(r) = Len(q) - 1
      /\ \A i \in 1..Len(r) : r[i] = q[i + 1]
  BY TailFacts
<1> HIDE DEF r
<1>2. \A i \in 1..Len(r) : i \in Int /\ i + 1 \in 1..Len(q) /\ i + 1 # 1
  BY <1>1
<1>3. \A i \in 1..Len(q) : i # 1 => i - 1 \in 1..Len(r) /\ (i - 1) + 1 = i
  BY <1>1
<1>4. 1 \in 1..Len(q)
  BY <1>1
<1>5. \A x : Member(x, r) => Member(x, q)
  BY <1>1, <1>2 DEF Member
<1>6. ASSUME NEW x, Member(x, q) PROVE x = Head(q) \/ Member(x, r)
  <2>1. PICK i \in 1..Len(q) : q[i] = x
    BY <1>6 DEF Member
  <2>2. CASE i # 1
    <3>1. r[i - 1] = x
      BY <1>1, <1>3, <2>1, <2>2
    <3> QED
      BY <1>3, <2>2, <3>1 DEF Member
  <2> QED
    BY <1>1, <2>1, <2>2
<1>7. ASSUME Distinct(q) PROVE Distinct(r) /\ ~Member(q[1], r)
  <2>1. \A i, j \in 1..Len(r) : r[i] = r[j] => i + 1 = j + 1
    BY <1>1, <1>2, <1>7 DEF Distinct
  <2>2. Distinct(r)
    BY <1>2, <2>1 DEF Distinct
  <2>3. ~Member(q[1], r)
    BY <1>1, <1>2, <1>4, <1>7 DEF Distinct, Member
  <2> QED
    BY <2>2, <2>3
<1> QED
  BY <1>1, <1>4, <1>5, <1>6, <1>7 DEF r, Member

\* Requeueing a set of ids that were not on the list adds each of them once.
LEMMA RequeueMembers ==
    ASSUME NEW q \in Seq(Jobs), NEW S \in SUBSET Jobs,
           NEW s \in Bijection(1..Cardinality(S), S)
    PROVE  /\ \A x : Member(x, q \o s) <=> Member(x, q) \/ x \in S
           /\ Distinct(q) /\ (\A x \in S : ~Member(x, q)) => Distinct(q \o s)
<1> DEFINE r == q \o s
<1>1. /\ s \in Seq(Jobs) /\ \A i \in 1..Len(s) : s[i] \in S
      /\ \A i, j \in 1..Len(s) : s[i] = s[j] => i = j
      /\ Len(s) = Cardinality(S)
  BY OrderingFacts
<1>2. \A x \in S : \E i \in 1..Len(s) : s[i] = x
  <2>1. \A x \in S : \E i \in 1..Cardinality(S) : s[i] = x
    BY DEF Bijection, Surjection
  <2> QED
    BY <1>1, <2>1
<1>3. /\ Len(q) \in Nat /\ Len(s) \in Nat /\ Len(r) = Len(q) + Len(s)
      /\ \A i \in 1..Len(q) : r[i] = q[i]
      /\ \A i \in 1..Len(s) : r[Len(q) + i] = s[i]
  <2>1. Len(q) \in Nat /\ Len(s) \in Nat
    BY <1>1
  <2> QED
    BY <1>1, <2>1, ConcatFacts, Zenon
<1> HIDE DEF r
<1>4. /\ \A i \in 1..Len(q) : i \in 1..Len(r)
      /\ \A i \in 1..Len(s) : Len(q) + i \in 1..Len(r)
  BY <1>3
<1>5. \A i \in 1..Len(r) : \/ i \in 1..Len(q)
                           \/ i - Len(q) \in 1..Len(s) /\ Len(q) + (i - Len(q)) = i
  BY <1>3
<1>6. \A i \in 1..Len(r) : \/ i \in 1..Len(q) /\ r[i] = q[i]
                           \/ i - Len(q) \in 1..Len(s) /\ r[i] = s[i - Len(q)]
  BY <1>3, <1>5
<1>7. \A x : Member(x, r) => Member(x, q) \/ x \in S
  BY <1>1, <1>6 DEF Member
<1>8. \A x : Member(x, q) => Member(x, r)
  BY <1>3, <1>4 DEF Member
<1>9. \A x \in S : Member(x, r)
  BY <1>2, <1>3, <1>4 DEF Member
<1>10. ASSUME Distinct(q), \A x \in S : ~Member(x, q),
              NEW i \in 1..Len(r), NEW j \in 1..Len(r), r[i] = r[j]
       PROVE  i = j
  <2>1. CASE i \in 1..Len(q) /\ r[i] = q[i] /\ j \in 1..Len(q) /\ r[j] = q[j]
    BY <1>10, <2>1 DEF Distinct
  <2>2. CASE /\ i - Len(q) \in 1..Len(s) /\ r[i] = s[i - Len(q)]
             /\ j - Len(q) \in 1..Len(s) /\ r[j] = s[j - Len(q)]
    <3>1. i - Len(q) = j - Len(q)
      BY <1>1, <1>10, <2>2
    <3> QED
      BY <1>3, <3>1
  <2>3. CASE /\ i \in 1..Len(q) /\ r[i] = q[i]
             /\ j - Len(q) \in 1..Len(s) /\ r[j] = s[j - Len(q)]
    BY <1>1, <1>10, <2>3 DEF Member
  <2>4. CASE /\ j \in 1..Len(q) /\ r[j] = q[j]
             /\ i - Len(q) \in 1..Len(s) /\ r[i] = s[i - Len(q)]
    BY <1>1, <1>10, <2>4 DEF Member
  <2> QED
    BY <1>6, <2>1, <2>2, <2>3, <2>4
<1> QED
  BY <1>7, <1>8, <1>9, <1>10 DEF r, Distinct
-----------------------------------------------------------------------------
(* One entry per id.                                                       *)

\* A consumer gets an id only from the head of the queue, in claim()'s BLMOVE.
LEMMA HandsAreFilledByClaim ==
    ASSUME BaseInv, [Next]_vars, NEW c \in Consumers, Handling(c)'
    PROVE  \/ Handling(c) /\ consumer'[c].id = consumer[c].id
           \/ ClaimPop(c) /\ consumer'[c].id = Head(queue)
<1>0. TypeOK /\ PcInv
  BY DEF BaseInv
<1>1. ASSUME consumer' = consumer
      PROVE  Handling(c) /\ consumer'[c].id = consumer[c].id
  BY <1>1 DEF Handling
<1>2. ASSUME NEW d \in Consumers, Goto(d, LoopHead(d)) \/ Goto(d, consumer[d])
      PROVE  Handling(c) /\ consumer'[c].id = consumer[c].id
  BY <1>0, <1>2 DEF Goto, LoopHead, At, Handling, TypeOK
<1>3. ASSUME NEW d \in Consumers, NEW state, state.id = consumer[d].id, Goto(d, state)
      PROVE  Handling(c) /\ consumer'[c].id = consumer[c].id
  BY <1>0, <1>3 DEF Goto, Handling, TypeOK
<1>4. ASSUME NEW w \in Workers, Recovered(w) \/ Killed(w)
      PROVE  Handling(c) /\ consumer'[c].id = consumer[c].id
  BY <1>4 DEF Recovered, Killed, At, Handling
<1>5. CASE Tick
  <2>1. consumer[c] \in ConsumerState
    BY <1>0 DEF TypeOK
  <2> QED
    BY <1>5, <2>1 DEF Tick, Handling, ConsumerState
<1>6. ASSUME NEW d \in Consumers, ConsumerStep(d)
      PROVE  \/ Handling(c) /\ consumer'[c].id = consumer[c].id
             \/ ClaimPop(c) /\ consumer'[c].id = Head(queue)
  <2>0. consumer[d] \in ConsumerState
    BY <1>0 DEF TypeOK
  <2>1. CASE ClaimPop(d)
    <3>1. CASE c = d
      BY <1>0, <2>1, <3>1 DEF ClaimPop, Goto, At, TypeOK
    <3>2. CASE c # d
      BY <1>0, <2>1, <3>2 DEF ClaimPop, Goto, Handling, TypeOK
    <3> QED
      BY <3>1, <3>2
  <2>2. CASE ClaimTimeout(d) \/ ClaimDrop(d) \/ Finish(d)
    BY <1>2, <2>2 DEF ClaimTimeout, ClaimDrop, Finish
  <2>3. CASE ClaimRead(d)
    <3>1. /\ [consumer[d] EXCEPT !.pc = "read",
                 !.payload = job[consumer[d].id].payload].id = consumer[d].id
          /\ [consumer[d] EXCEPT !.pc = "drop"].id = consumer[d].id
      BY <2>0 DEF ConsumerState
    <3> QED
      BY <1>3, <2>3, <3>1 DEF ClaimRead
  <2>4. CASE ClaimStamp(d)
    <3>1. [consumer[d] EXCEPT !.pc = "posting"].id = consumer[d].id
      BY <2>0 DEF ConsumerState
    <3> QED
      BY <1>2, <1>3, <2>4, <3>1 DEF ClaimStamp
  <2>5. CASE ProcessJob(d)
    <3>1. \A outcome : [consumer[d] EXCEPT !.pc = outcome].id = consumer[d].id
      BY <2>0 DEF ConsumerState
    <3> QED
      BY <1>3, <2>5, <3>1 DEF ProcessJob
  <2> QED
    BY <1>6, <2>1, <2>2, <2>3, <2>4, <2>5 DEF ConsumerStep
<1>7. ASSUME NEW d \in Consumers, CallLost(d) \/ ReplyLost(d)
      PROVE  Handling(c) /\ consumer'[c].id = consumer[c].id
  BY <1>2, <1>7 DEF CallLost, ReplyLost
<1>8. ASSUME NEW w \in Workers,
             WorkerStep(w) \/ RecoverFails(w) \/ RecoverResent(w) \/ Stop(w) \/ Crash(w)
      PROVE  Handling(c) /\ consumer'[c].id = consumer[c].id
  BY <1>1, <1>4, <1>8
     DEF WorkerStep, Start, RecoverAcquire, RecoverSweep, Exit, RecoverFails,
         RecoverResent, Stop, Crash
<1> QED
  BY <1>1, <1>5, <1>6, <1>7, <1>8 DEF Next, Disruption, Enqueue, Expire, vars

\* Without expiry a record, once there, stays there.
LEMMA RecordsStay ==
    ASSUME ~TtlElapses, BaseInv, [Next]_vars, NEW id \in Jobs, Exists(id)
    PROVE  Exists(id)'
<1>0. TypeOK
  BY DEF BaseInv
<1>1. ASSUME NEW other \in Jobs, NEW payload \in Payloads, Enqueue(other, payload)
      PROVE  Exists(id)'
  BY <1>0, <1>1 DEF Enqueue, NoRecord, Exists, TypeOK
<1>2. CASE MoveHead \/ UNCHANGED <<queue, processing, job>>
  BY <1>2 DEF MoveHead, Exists
<1>3. ASSUME NEW c \in Consumers, Command(c) PROVE Exists(id)'
  BY <1>0, <1>3, CommandEffect DEF Command, Exists, Terminal
<1>4. ASSUME NEW lag \in 0..MaxLag, SweepProcessing(lag) PROVE Exists(id)'
  BY <1>0, <1>4, SweepEffect DEF Exists
<1>5. CASE Tick
  BY <1>0, <1>5, TickEffect DEF Exists
<1> QED
  BY <1>1, <1>2, <1>3, <1>4, <1>5, RedisSteps DEF Expire

\* What is distinct about the lists, in the words of the list lemmas.
LEMMA EntryParts ==
    /\ \A id : Queued(id) <=> Member(id, queue)
    /\ \A id : Queued(id)' <=> Member(id, queue')
    /\ SingleEntry => /\ Distinct(queue)
                      /\ \A id \in Jobs : /\ processing[id] <= 1
                                          /\ Queued(id) => ~Listed(id)
    /\ /\ Distinct(queue')
       /\ \A id \in Jobs : processing'[id] <= 1 /\ (Queued(id)' => ~Listed(id)')
       => SingleEntry'
  BY DEF Queued, Member, Distinct, SingleEntry

\* Every step keeps an id on the lists at most once, and only with its record.
LEMMA EntryStep ==
    ASSUME ~TtlElapses, BaseInv, EntryInv, [Next]_vars PROVE EntryInv'
<1> DEFINE Placed(id) == /\ processing'[id] <= 1
                         /\ Queued(id)' => ~Listed(id)'
                         /\ Queued(id)' \/ Listed(id)' => Exists(id)'
<1>0. /\ TypeOK /\ Distinct(queue)
      /\ \A id \in Jobs : /\ processing[id] \in Nat /\ processing[id] <= 1
                          /\ Queued(id) => ~Listed(id)
                          /\ Queued(id) \/ Listed(id) => Exists(id)
                          /\ Exists(id) => Exists(id)'
  BY EntryParts, RecordsStay DEF BaseInv, EntryInv, TypeOK
<1>1. ASSUME NEW other \in Jobs, NEW payload \in Payloads, Enqueue(other, payload)
      PROVE  Distinct(queue') /\ \A id \in Jobs : Placed(id)
  <2>1. ~Exists(other)
    BY <1>1 DEF Enqueue, EnqueueScript
  <2>2. /\ \A id : Member(id, queue') <=> Member(id, queue) \/ id = other
        /\ Distinct(queue')
    BY <1>0, <1>1, <2>1, AppendMembers, EntryParts DEF Enqueue, TypeOK
  <2>3. Exists(other)'
    BY <1>0, <1>1 DEF Enqueue, NoRecord, Exists, TypeOK
  <2> QED
    BY <1>0, <1>1, <2>1, <2>2, <2>3, EntryParts DEF Enqueue, Listed
<1>2. ASSUME MoveHead PROVE Distinct(queue') /\ \A id \in Jobs : Placed(id)
  <2> DEFINE head == Head(queue)
  <2>1. /\ head \in Jobs /\ Member(head, queue) /\ Distinct(queue')
        /\ ~Member(head, queue')
        /\ \A id : Member(id, queue') => Member(id, queue)
    BY <1>0, <1>2, TailFacts, TailMembers DEF MoveHead, TypeOK
  <2>2. /\ processing'[head] = processing[head] + 1
        /\ \A id \in Jobs : id # head => processing'[id] = processing[id]
    BY <1>0, <1>2, <2>1 DEF MoveHead, TypeOK
  <2> HIDE DEF head
  <2> QED
    BY <1>0, <2>1, <2>2, EntryParts DEF Listed
<1>3. ASSUME NEW c \in Consumers, Command(c)
      PROVE  Distinct(queue') /\ \A id \in Jobs : Placed(id)
  <2>1. queue' = queue /\ \A id \in Jobs : processing'[id] \in Nat
                                        /\ processing'[id] <= processing[id]
    BY <1>0, <1>3, CommandEffect DEF Command, Listed
  <2> QED
    BY <1>0, <2>1, EntryParts DEF Listed
<1>4. ASSUME NEW lag \in 0..MaxLag, SweepProcessing(lag)
      PROVE  Distinct(queue') /\ \A id \in Jobs : Placed(id)
  <2> DEFINE stranded == {id \in Jobs : Stale(id, lag)}
  <2>1. PICK s \in Bijection(1..Cardinality(stranded), stranded) : queue' = queue \o s
    BY <1>4 DEF SweepProcessing
  <2>2. \A id \in stranded : ~Member(id, queue)
    BY <1>0, EntryParts DEF Stale
  <2>3. /\ Distinct(queue')
        /\ \A id : Member(id, queue') <=> Member(id, queue) \/ id \in stranded
    BY <1>0, <2>1, <2>2, RequeueMembers DEF TypeOK
  <2>4. \A id \in Jobs : processing'[id] = IF Stale(id, lag) THEN processing[id] - 1
                           ELSE IF Unfinished(id) THEN processing[id] ELSE 0
    BY <1>0, <1>4, SweepEffect
  <2> QED
    BY <1>0, <2>3, <2>4, EntryParts DEF Listed, Stale
<1>5. ASSUME Tick \/ UNCHANGED <<queue, processing, job>>
      PROVE  Distinct(queue') /\ \A id \in Jobs : Placed(id)
  <2>1. queue' = queue /\ processing' = processing
    BY <1>5 DEF Tick
  <2> QED
    BY <1>0, <2>1, EntryParts DEF Listed
<1>6. Distinct(queue') /\ \A id \in Jobs : Placed(id)
  BY <1>1, <1>2, <1>3, <1>4, <1>5, RedisSteps DEF Expire
<1>7. ASSUME NEW c \in Consumers, Handling(c)' PROVE Exists(consumer[c].id)'
  <2>1. CASE Handling(c) /\ consumer'[c].id = consumer[c].id
    <3>1. consumer[c].id \in Jobs /\ Exists(consumer[c].id)
      BY <1>0, <2>1 DEF EntryInv, Handling, TypeOK, ConsumerState
    <3> QED
      BY <1>0, <2>1, <3>1 DEF Exists
  <2>2. CASE ClaimPop(c) /\ consumer'[c].id = Head(queue)
    <3>1. Head(queue) \in Jobs /\ Member(Head(queue), queue)
      BY <1>0, <2>2, TailFacts, TailMembers DEF ClaimPop, MoveHead, TypeOK
    <3> QED
      BY <1>0, <2>2, <3>1, EntryParts DEF Exists
  <2> QED
    BY <1>7, <2>1, <2>2, HandsAreFilledByClaim
<1> QED
  BY <1>6, <1>7, EntryParts DEF EntryInv

\* While no record expires, claims, crashes, sweeps and repeated requests leave
\* an id on the two lists at most once, however slow the workers are.
THEOREM SingleEntryHolds ==
    ASSUME ~TtlElapses PROVE Spec => []SingleEntry
<1>1. Init => EntryInv
  <2> SUFFICES ASSUME Init PROVE EntryInv
    OBVIOUS
  <2>1. queue = <<>> /\ \A id \in Jobs : processing[id] = 0
    BY DEF Init
  <2>2. \A c \in Consumers : ~Handling(c)
    BY DEF Init, Handling, At
  <2> QED
    BY <2>1, <2>2 DEF EntryInv, SingleEntry, Queued, Listed
<1>2. BaseInv /\ EntryInv /\ [Next]_vars => EntryInv'
  BY EntryStep
<1>3. EntryInv => SingleEntry
  BY DEF EntryInv
<1> QED
  BY <1>1, <1>2, <1>3, BaseInvariance, PTL DEF Spec
-----------------------------------------------------------------------------
(* Timely workers.                                                         *)

\* TimelyInv, by job and by consumer.
JobInv(id) ==
    /\ Unfinished(id) => Queued(id) \/ Listed(id)
    /\ job[id].result = IF job[id].status = "succeeded" THEN job[id].payload ELSE None
    /\ (job[id].status = "failed") = (job[id].error # "absent")
    /\ Exists(id) => job[id].payload # None
    /\ Queued(id) => job[id].status = "queued" /\ job[id].claimed = Unstamped
    /\ Finished(id) => ~Listed(id)

HandsInv ==
    /\ ClaimIsExclusive
    /\ \A c \in Consumers : Handling(c) => InHand(c)

\* The parts are together the timely invariant.
LEMMA TimelyParts ==
    /\ TimelyInv => HandsInv /\ EntryInv /\ \A id \in Jobs : JobInv(id)
    /\ PcInv' /\ EntryInv' /\ HandsInv' /\ (\A id \in Jobs : JobInv(id)') => TimelyInv'
  BY DEF TimelyInv, HandsInv, JobInv, NothingStranded, OutcomeIsWhole

\* The consumers that have a job after the step had it before, in the same place.
Quiet == \A c \in Consumers : Handling(c)' => consumer'[c] = consumer[c]

\* What the invariants say of a record, a list and a consumer, together.
TimelyFacts ==
    /\ TypeOK /\ PcInv /\ HandsInv /\ EntryInv
    /\ \A id \in Jobs : JobInv(id) /\ job[id] \in Record /\ processing[id] \in 0..1
    /\ \A c \in Consumers : /\ consumer[c] \in ConsumerState
                            /\ Handling(c) => consumer[c].id \in Jobs

\* They follow from the invariants.
LEMMA TimelyFactsHold ==
    ASSUME BaseInv, TimelyInv PROVE TimelyFacts
<1>1. TypeOK /\ PcInv /\ HandsInv /\ EntryInv /\ \A id \in Jobs : JobInv(id)
  BY TimelyParts DEF BaseInv
<1>2. \A id \in Jobs : job[id] \in Record /\ processing[id] \in 0..1
  BY <1>1 DEF EntryInv, SingleEntry, TypeOK
<1>3. \A c \in Consumers : /\ consumer[c] \in ConsumerState
                           /\ Handling(c) => consumer[c].id \in Jobs
  BY <1>1 DEF TypeOK, ConsumerState, Handling
<1> QED
  BY <1>1, <1>2, <1>3 DEF TimelyFacts

\* What they say of one job.
LEMMA FactsOfJob ==
    ASSUME TimelyFacts, NEW id \in Jobs
    PROVE  /\ JobInv(id) /\ job[id] \in Record /\ processing[id] \in 0..1
           /\ job[id].claimed \in Int /\ (Queued(id) => ~Listed(id))
<1>1. JobInv(id) /\ job[id] \in Record /\ processing[id] \in 0..1
  BY DEF TimelyFacts
<1>2. Queued(id) => ~Listed(id)
  BY DEF TimelyFacts, EntryInv, SingleEntry
<1>3. job[id].claimed \in Unstamped..OldestAge
  BY <1>1 DEF Record
<1>4. job[id].claimed \in Int
  BY <1>3
<1> QED
  BY <1>1, <1>2, <1>4

\* What they say of one consumer.
LEMMA FactsOfConsumer ==
    ASSUME TimelyFacts, NEW c \in Consumers
    PROVE  /\ consumer[c] \in ConsumerState /\ consumer[c].held \in 0..Deadline
           /\ Handling(c) => InHand(c) /\ consumer[c].id \in Jobs
<1>1. /\ consumer[c] \in ConsumerState
      /\ Handling(c) => InHand(c) /\ consumer[c].id \in Jobs
  BY DEF TimelyFacts, HandsInv
<1> QED
  BY <1>1 DEF ConsumerState

\* An age that grows with the time held stays within the lag of it.
LEMMA AgeSum ==
    ASSUME NEW age \in Int, NEW older \in Int, NEW held \in Int, NEW lag \in Int,
           older <= age + 1, age <= held + lag
    PROVE  older <= (held + 1) + lag
  OBVIOUS

\* A job that a step leaves alone stays in order.
LEMMA JobFrame ==
    ASSUME NEW id \in Jobs, JobInv(id), Queued(id)' <=> Queued(id),
           job'[id] = job[id], processing'[id] = processing[id]
    PROVE  JobInv(id)'
  BY DEF JobInv, Unfinished, Listed, Exists, Finished

\* So does a job in the hands of a consumer that the step leaves alone.
LEMMA HandFrame ==
    ASSUME NEW c \in Consumers, InHand(c), consumer'[c] = consumer[c],
           NEW id, id = consumer[c].id,
           job'[id] = job[id], processing'[id] = processing[id]
    PROVE  InHand(c)'
  BY DEF InHand, Unfinished, Listed

\* Who handles no other job than before is still the only one to handle it.
LEMMA ExclusiveFrame ==
    ASSUME TimelyFacts, \A c \in Consumers : consumer'[c].id \in {consumer[c].id, None}
    PROVE  ClaimIsExclusive'
<1>1. ClaimIsExclusive
  BY DEF TimelyFacts, HandsInv
<1> QED
  BY <1>1 DEF ClaimIsExclusive, Handling

\* Consumers that go back to the loop's head, stop or die leave the rest in
\* order: the lists and records do not depend on them.
LEMMA QuietStep ==
    ASSUME TimelyFacts, Quiet, UNCHANGED <<queue, processing, job>>
    PROVE  HandsInv' /\ \A id \in Jobs : JobInv(id)'
<1>1. \A id \in Jobs : JobInv(id)'
  BY DEF TimelyFacts, JobInv, Unfinished, Queued, Listed, Exists, Finished
<1>2. \A c \in Consumers : Handling(c)' => Handling(c) /\ consumer'[c] = consumer[c]
  BY DEF Quiet, Handling
<1>3. ClaimIsExclusive'
  BY <1>2 DEF TimelyFacts, HandsInv, ClaimIsExclusive, Handling
<1>4. \A c \in Consumers : Handling(c)' => InHand(c)'
  BY <1>2 DEF TimelyFacts, HandsInv, InHand, Unfinished, Listed
<1> QED
  BY <1>1, <1>3, <1>4 DEF HandsInv

\* A new job is on the queue, in nobody's hands, and has its request.
LEMMA EnqueueStep ==
    ASSUME TimelyFacts, NEW new \in Jobs, NEW payload \in Payloads, Enqueue(new, payload)
    PROVE  HandsInv' /\ \A id \in Jobs : JobInv(id)'
<1>1. ~Exists(new)
  BY DEF Enqueue, EnqueueScript
<1>2. /\ ~Queued(new) /\ ~Listed(new)
      /\ \A c \in Consumers : Handling(c) => consumer[c].id # new
  BY <1>1 DEF TimelyFacts, EntryInv
<1>3. \A id \in Jobs : Queued(id)' <=> Queued(id) \/ id = new
  BY AppendMembers, EntryParts DEF TimelyFacts, Enqueue, TypeOK
<1>4. /\ job'[new] = [NoRecord EXCEPT !.status = "queued", !.payload = payload, !.ttl = TRUE]
      /\ \A id \in Jobs : id # new => job'[id] = job[id]
      /\ processing' = processing /\ consumer' = consumer
  BY DEF TimelyFacts, Enqueue, TypeOK
<1>5. /\ job'[new].status = "queued" /\ job'[new].payload = payload
      /\ job'[new].claimed = Unstamped /\ job'[new].result = None
      /\ job'[new].error = "absent"
  BY <1>4 DEF NoRecord
<1>6. JobInv(new)'
  BY <1>2, <1>3, <1>4, <1>5, QueueAssumption
     DEF JobInv, Unfinished, Listed, Exists, Finished, Terminal
<1>7. ASSUME NEW id \in Jobs, id # new PROVE JobInv(id)'
  BY <1>3, <1>4, <1>7 DEF TimelyFacts, JobInv, Unfinished, Listed, Exists, Finished
<1>8. ClaimIsExclusive'
  BY <1>4 DEF TimelyFacts, HandsInv, ClaimIsExclusive, Handling
<1>9. \A c \in Consumers : Handling(c)' => InHand(c)'
  BY <1>2, <1>4 DEF TimelyFacts, HandsInv, InHand, Handling, Unfinished, Listed
<1> QED
  BY <1>6, <1>7, <1>8, <1>9 DEF HandsInv

\* The id at the head of the queue is in nobody's hands: whoever handles a job
\* without outcome has its entry in the processing list.
LEMMA HeadIsFree ==
    ASSUME TimelyFacts, NEW id \in Jobs, Queued(id)
    PROVE  /\ job[id].status = "queued" /\ job[id].claimed = Unstamped /\ ~Listed(id)
           /\ \A c \in Consumers : consumer[c].id # id
<1>1. job[id].status = "queued" /\ job[id].claimed = Unstamped /\ ~Listed(id)
  BY DEF TimelyFacts, JobInv, EntryInv, SingleEntry
<1>2. ASSUME NEW c \in Consumers, consumer[c].id = id PROVE FALSE
  <2>1. InHand(c)
    BY <1>2, QueueAssumption DEF TimelyFacts, HandsInv, Handling
  <2> QED
    BY <1>1, <1>2, <2>1 DEF InHand, Terminal
<1> QED
  BY <1>1, <1>2

\* BLMOVE, with or without its reply.
LEMMA MoveHeadStep ==
    ASSUME TimelyFacts, MoveHead,
           \/ Quiet
           \/ \E c \in Consumers : Goto(c, [At("popped") EXCEPT !.id = Head(queue)])
    PROVE  HandsInv' /\ \A id \in Jobs : JobInv(id)'
<1>0. PICK head : head = Head(queue)
  OBVIOUS
<1>1. /\ head \in Jobs /\ Queued(head) /\ ~Queued(head)'
      /\ \A id \in Jobs : id # head => (Queued(id)' <=> Queued(id))
  <2>1. queue \in Seq(Jobs) /\ queue # <<>> /\ Distinct(queue) /\ queue' = Tail(queue)
    BY EntryParts DEF TimelyFacts, MoveHead, TypeOK, EntryInv
  <2> QED
    BY <1>0, <2>1, TailFacts, TailMembers, EntryParts
<1>2. /\ processing'[head] = processing[head] + 1 /\ job' = job
      /\ \A id \in Jobs : id # head => processing'[id] = processing[id]
  BY <1>0, <1>1 DEF TimelyFacts, MoveHead, TypeOK
<1>3. /\ job[head].status = "queued" /\ job[head].claimed = Unstamped
      /\ Listed(head)' /\ \A c \in Consumers : consumer[c].id # head
  BY <1>1, <1>2, HeadIsFree DEF TimelyFacts, Listed
<1>4. JobInv(head)'
  BY <1>1, <1>2, <1>3 DEF TimelyFacts, JobInv, Unfinished, Exists, Finished, Terminal
<1>5. ASSUME NEW id \in Jobs, id # head PROVE JobInv(id)'
  BY <1>1, <1>2, <1>5 DEF TimelyFacts, JobInv, Unfinished, Listed, Exists, Finished
<1>6. ASSUME NEW c \in Consumers, Handling(c), consumer'[c] = consumer[c] PROVE InHand(c)'
  <2>1. InHand(c) /\ consumer[c].id \in Jobs /\ consumer[c].id # head
    BY <1>3, <1>6 DEF TimelyFacts, HandsInv
  <2> QED
    BY <1>2, <1>6, <2>1 DEF InHand, Unfinished, Listed
<1>7. CASE Quiet
  <2>1. \A c \in Consumers : Handling(c)' => Handling(c) /\ consumer'[c] = consumer[c]
    BY <1>7 DEF Quiet, Handling
  <2>2. ClaimIsExclusive'
    BY <2>1 DEF TimelyFacts, HandsInv, ClaimIsExclusive, Handling
  <2> QED
    BY <1>4, <1>5, <1>6, <2>1, <2>2, Zenon DEF HandsInv
<1>8. ASSUME NEW c \in Consumers, Goto(c, [At("popped") EXCEPT !.id = head])
      PROVE  HandsInv'
  <2>1. /\ consumer'[c].pc = "popped" /\ consumer'[c].id = head /\ consumer'[c].held = 0
        /\ \A d \in Consumers : d # c => consumer'[d] = consumer[d]
    BY <1>8 DEF TimelyFacts, Goto, At, TypeOK
  <2>2. ClaimIsExclusive'
    BY <1>3, <2>1 DEF TimelyFacts, HandsInv, ClaimIsExclusive, Handling
  <2>3. InHand(c)'
    BY <1>2, <1>3, <2>1, AgeTypes DEF InHand, Unfinished, Terminal, Unstamped
  <2>4. \A d \in Consumers : d # c /\ Handling(d)' => InHand(d)'
    BY <1>6, <2>1 DEF Handling
  <2> QED
    BY <2>2, <2>3, <2>4 DEF HandsInv
<1> QED
  BY <1>0, <1>4, <1>5, <1>7, <1>8

\* A consumer that goes on with its job keeps it to itself.
LEMMA StayExclusive ==
    ASSUME TimelyFacts, NEW c \in Consumers, NEW state, Goto(c, state),
           state.id \in {consumer[c].id, None}
    PROVE  /\ ClaimIsExclusive' /\ consumer'[c] = state
           /\ \A d \in Consumers : d # c => consumer'[d] = consumer[d]
<1>1. consumer'[c] = state /\ \A d \in Consumers : d # c => consumer'[d] = consumer[d]
  BY DEF TimelyFacts, Goto, TypeOK
<1>2. \A d \in Consumers : consumer'[d].id \in {consumer[d].id, None}
  BY <1>1
<1> QED
  BY <1>1, <1>2, ExclusiveFrame

\* Reading the record and waiting for the runtime: HGETALL finds the job without
\* outcome, so a claim is not dropped.
LEMMA ReadAndPostStep ==
    ASSUME TimelyFacts, NEW c \in Consumers, ClaimRead(c) \/ ProcessJob(c)
    PROVE  HandsInv' /\ \A id \in Jobs : JobInv(id)'
<1>1. /\ consumer[c].pc \in {"popped", "posting"} /\ consumer[c] \in ConsumerState
      /\ Handling(c) /\ InHand(c) /\ consumer[c].id \in Jobs
      /\ UNCHANGED <<queue, processing, job>>
  BY DEF ClaimRead, ProcessJob, TimelyFacts, PcInv, HandsInv, redisVars
<1>2. Unfinished(consumer[c].id) /\ Listed(consumer[c].id)
  BY <1>1 DEF TimelyFacts, InHand, Record, Terminal
<1>3. PICK state : /\ Goto(c, state) /\ state.id = consumer[c].id
                   /\ state.held = consumer[c].held
                   /\ \/ /\ state.pc = "read"
                         /\ state.payload = job[consumer[c].id].payload
                      \/ /\ state.pc \in Terminal /\ consumer[c].pc = "posting"
                         /\ state.payload = consumer[c].payload
  <2>1. CASE ClaimRead(c)
    <3> DEFINE read == [consumer[c] EXCEPT !.pc = "read",
                                           !.payload = job[consumer[c].id].payload]
    <3>1. Goto(c, read)
      BY <1>2, <2>1 DEF ClaimRead
    <3>2. /\ read.id = consumer[c].id /\ read.held = consumer[c].held /\ read.pc = "read"
          /\ read.payload = job[consumer[c].id].payload
      BY <1>1 DEF ConsumerState
    <3> QED
      BY <3>1, <3>2
  <2>2. CASE ProcessJob(c)
    BY <1>1, <2>2 DEF ProcessJob, ConsumerState
  <2> QED
    BY <2>1, <2>2
<1>4. /\ ClaimIsExclusive' /\ consumer'[c] = state
      /\ \A d \in Consumers : d # c => consumer'[d] = consumer[d]
  BY <1>3, StayExclusive
<1>5. InHand(c)'
  BY <1>1, <1>2, <1>3, <1>4 DEF InHand, Unfinished, Listed, Terminal
<1>6. ASSUME NEW d \in Consumers, d # c, Handling(d)' PROVE InHand(d)'
  <2>1. consumer'[d] = consumer[d]
    BY <1>4, <1>6
  <2>2. InHand(d)
    BY <1>6, <2>1, FactsOfConsumer DEF Handling
  <2> QED
    BY <1>1, <2>1, <2>2, HandFrame
<1>7. ASSUME NEW id \in Jobs PROVE JobInv(id)'
  <2>1. Queued(id)' <=> Queued(id)
    BY <1>1 DEF Queued
  <2> QED
    BY <1>1, <2>1, FactsOfJob, JobFrame
<1> QED
  BY <1>4, <1>5, <1>6, <1>7 DEF HandsInv

\* A command of consumer c touches the job in its hands and no other.
LEMMA CommandStep ==
    ASSUME TimelyFacts, NEW c \in Consumers, Handling(c), Command(c),
           NEW own \in Jobs, own = consumer[c].id, JobInv(own)',
           NEW state, Goto(c, state), state.id \in {own, None},
           Handling(c)' => InHand(c)'
    PROVE  HandsInv' /\ \A id \in Jobs : JobInv(id)'
<1>1. /\ ClaimIsExclusive'
      /\ \A d \in Consumers : d # c => consumer'[d] = consumer[d]
  BY StayExclusive
<1>2. /\ queue' = queue
      /\ \A id \in Jobs : id # own => job'[id] = job[id] /\ processing'[id] = processing[id]
  BY CommandEffect DEF TimelyFacts
<1>3. ASSUME NEW id \in Jobs, id # own PROVE JobInv(id)'
  <2>1. Queued(id)' <=> Queued(id)
    BY <1>2 DEF Queued
  <2> QED
    BY <1>2, <1>3, <2>1, FactsOfJob, JobFrame
<1>4. ASSUME NEW d \in Consumers, d # c, Handling(d)' PROVE InHand(d)'
  <2>1. Handling(d) /\ consumer'[d] = consumer[d]
    BY <1>1, <1>4 DEF Handling
  <2>2. InHand(d) /\ consumer[d].id \in Jobs /\ consumer[d].id # own
    BY <1>4, <2>1 DEF TimelyFacts, HandsInv, ClaimIsExclusive
  <2> QED
    BY <1>2, <2>1, <2>2 DEF InHand, Unfinished, Listed
<1> QED
  BY <1>1, <1>3, <1>4 DEF HandsInv

\* HSET status running, with or without its reply: the job is unfinished and in
\* the processing list, and its stamp is new.
LEMMA StampStep ==
    ASSUME TimelyFacts, NEW c \in Consumers, consumer[c].pc = "read", StampClaim(c),
           NEW state, Goto(c, state),
           \/ state.id = None
           \/ state \in {consumer[c], [consumer[c] EXCEPT !.pc = "posting"]}
    PROVE  HandsInv' /\ \A id \in Jobs : JobInv(id)'
<1>1. PICK own \in Jobs : own = consumer[c].id
  BY DEF TimelyFacts, PcInv
<1>2. Handling(c) /\ InHand(c) /\ Command(c) /\ consumer[c] \in ConsumerState
  BY <1>1 DEF TimelyFacts, PcInv, HandsInv, Command
<1>3. /\ Unfinished(own) /\ Listed(own) /\ ~Queued(own)
      /\ consumer[c].payload = job[own].payload
  BY <1>1, <1>2, HeadIsFree DEF TimelyFacts, InHand, Record, Terminal
<1>4. /\ job'[own].status = "running" /\ job'[own].claimed \in 0..MaxLag
      /\ job'[own].payload = job[own].payload /\ job'[own].result = job[own].result
      /\ job'[own].error = job[own].error /\ processing'[own] = processing[own]
      /\ queue' = queue
  BY <1>1, <1>2, CommandEffect DEF TimelyFacts
<1>5. JobInv(own)'
  BY <1>3, <1>4 DEF TimelyFacts, JobInv, Unfinished, Queued, Listed, Exists, Finished, Terminal
<1>6. state.id \in {own, None}
  BY <1>1, <1>2 DEF ConsumerState
<1>7. consumer'[c] = state
  BY <1>1, <1>6, StayExclusive
<1>8. ASSUME Handling(c)' PROVE InHand(c)'
  <2>1. /\ state.id = own /\ state.pc \in {"read", "posting"}
        /\ state.payload = consumer[c].payload /\ state.held \in Nat
    BY <1>1, <1>2, <1>7, <1>8, QueueAssumption DEF Handling, ConsumerState
  <2>2. job'[own].claimed <= state.held + MaxLag
    BY <1>4, <2>1, AgeTypes
  <2> QED
    BY <1>3, <1>4, <1>7, <2>1, <2>2 DEF InHand, Unfinished, Listed, Terminal
<1> QED
  BY <1>1, <1>2, <1>5, <1>6, <1>8, CommandStep

\* finish(), with or without its reply, once or again: the outcome is that of the
\* request in hand, and the entry is gone.
LEMMA OutcomeStep ==
    ASSUME TimelyFacts, NEW c \in Consumers, consumer[c].pc \in Terminal, StoreOutcome(c),
           NEW state, Goto(c, state), state.id = None \/ state = consumer[c]
    PROVE  HandsInv' /\ \A id \in Jobs : JobInv(id)'
<1>1. PICK own \in Jobs : own = consumer[c].id
  BY DEF TimelyFacts, PcInv, Terminal
<1>2. Handling(c) /\ InHand(c) /\ Command(c)
  BY <1>1 DEF TimelyFacts, PcInv, HandsInv, Command, Terminal
<1>3. /\ consumer[c].payload = job[own].payload /\ ~Queued(own)
      /\ Unfinished(own) \/ consumer[c].pc = job[own].status
  BY <1>1, <1>2, HeadIsFree DEF InHand, Terminal
<1>4. /\ job'[own].status = consumer[c].pc /\ job'[own].payload = job[own].payload
      /\ job'[own].result = IF consumer[c].pc = "succeeded"
                              THEN consumer[c].payload ELSE job[own].result
      /\ job'[own].error = IF consumer[c].pc = "failed" THEN "sanitized" ELSE job[own].error
      /\ processing'[own] = IF Listed(own) THEN processing[own] - 1 ELSE 0
      /\ queue' = queue
  BY <1>1, <1>2, CommandEffect DEF TimelyFacts, Terminal
<1>5. ~Listed(own)' /\ ~Queued(own)'
  <2>1. processing[own] \in 0..1
    BY FactsOfJob
  <2>2. ~Listed(own)'
    BY <1>4, <2>1 DEF Listed
  <2>3. ~Queued(own)'
    BY <1>3, <1>4 DEF Queued
  <2> QED
    BY <2>2, <2>3
<1>6. JobInv(own)'
  BY <1>3, <1>4, <1>5 DEF TimelyFacts, JobInv, Unfinished, Exists, Finished, Terminal
<1>7. state.id \in {own, None}
  BY <1>1
<1>8. consumer'[c] = state
  BY <1>1, <1>7, StayExclusive
<1>9. ASSUME Handling(c)' PROVE InHand(c)'
  <2>1. state = consumer[c]
    BY <1>8, <1>9 DEF Handling
  <2> QED
    BY <1>1, <1>3, <1>4, <1>8, <2>1 DEF InHand, Terminal
<1> QED
  BY <1>1, <1>2, <1>6, <1>7, <1>9, CommandStep

\* A sweep leaves what is in live hands alone: its stamp is younger than the
\* lease.  What it takes out of the processing list it puts on the queue.
LEMMA SweepQuietStep ==
    ASSUME Timely, TimelyFacts, Quiet, NEW lag \in 0..MaxLag, SweepProcessing(lag)
    PROVE  HandsInv' /\ \A id \in Jobs : JobInv(id)'
<1> DEFINE stranded == {id \in Jobs : Stale(id, lag)}
<1>1. ASSUME NEW id \in Jobs
      PROVE  /\ Stale(id, lag) => /\ processing'[id] = 0
                                  /\ job'[id].status = "queued"
                                  /\ job'[id].claimed = Unstamped
             /\ ~Stale(id, lag) =>
                  /\ processing'[id] = IF Unfinished(id) THEN processing[id] ELSE 0
                  /\ job'[id].status = job[id].status
                  /\ job'[id].claimed = IF Unclaimed(id) THEN lag ELSE job[id].claimed
             /\ job'[id].payload = job[id].payload
             /\ job'[id].result = job[id].result
             /\ job'[id].error = job[id].error
  <2>1. TypeOK /\ processing[id] \in 0..1
    BY <1>1, FactsOfJob DEF TimelyFacts
  <2>2. Stale(id, lag) => processing[id] = 1
    BY <2>1 DEF Stale, Listed
  <2>3. Stale(id, lag) => processing'[id] = processing[id] - 1
    BY <1>1, <2>1, SweepEffect
  <2>4. Stale(id, lag) => processing'[id] = 0
    BY <2>2, <2>3
  <2> QED
    BY <1>1, <2>1, <2>2, <2>4, SweepEffect
<1>2. \A id \in Jobs : Queued(id)' <=> Queued(id) \/ Stale(id, lag)
  <2>1. PICK s \in Bijection(1..Cardinality(stranded), stranded) : queue' = queue \o s
    BY DEF SweepProcessing
  <2>2. \A id : Member(id, queue') <=> Member(id, queue) \/ id \in stranded
    BY <2>1, RequeueMembers DEF TimelyFacts, TypeOK
  <2> QED
    BY <2>2, EntryParts
<1> HIDE DEF stranded
<1>3. ASSUME NEW id \in Jobs PROVE JobInv(id)'
  <2>0. JobInv(id) /\ (Queued(id) => ~Listed(id)) /\ processing[id] \in 0..1
    BY DEF TimelyFacts, EntryInv, SingleEntry
  <2>1. CASE Stale(id, lag)
    <3>1. Unfinished(id)
      BY <2>1 DEF Stale
    <3> QED
      BY <1>1, <1>2, <2>0, <2>1, <3>1
         DEF JobInv, Unfinished, Listed, Exists, Finished, Terminal
  <2>2. CASE ~Stale(id, lag)
    <3>1. /\ Queued(id)' <=> Queued(id)
          /\ job'[id].status = job[id].status /\ job'[id].payload = job[id].payload
          /\ job'[id].result = job[id].result /\ job'[id].error = job[id].error
      BY <1>1, <1>2, <2>2
    <3>2. processing'[id] = IF Unfinished(id) THEN processing[id] ELSE 0
      BY <1>1, <2>2
    <3>3. Listed(id)' <=> Listed(id) /\ Unfinished(id)
      BY <3>2 DEF Listed
    <3>4. Queued(id) => job'[id].claimed = job[id].claimed
      BY <1>1, <2>0, <2>2 DEF Unclaimed
    <3> QED
      BY <2>0, <3>1, <3>3, <3>4 DEF JobInv, Unfinished, Exists, Finished, Terminal
  <2> QED
    BY <2>1, <2>2
<1>4. \A c \in Consumers : Handling(c)' => Handling(c) /\ consumer'[c] = consumer[c]
  BY DEF Quiet, Handling
<1>5. ClaimIsExclusive'
  BY <1>4, ExclusiveFrame DEF Handling
<1>6. ASSUME NEW c \in Consumers, Handling(c)' PROVE InHand(c)'
  <2>1. PICK id \in Jobs : id = consumer[c].id
    BY <1>4, <1>6, FactsOfConsumer
  <2>2. InHand(c) /\ consumer'[c] = consumer[c] /\ consumer[c].held \in 0..Deadline
    BY <1>4, <1>6, FactsOfConsumer
  <2>3. CASE /\ Unfinished(id) /\ Listed(id)
             /\ job[id].claimed <= consumer[c].held + MaxLag
    <3>1. job[id].claimed < Lease /\ Lease + lag \in Int /\ job[id].claimed \in Int
      <4>1. job[id].claimed \in Int
        BY FactsOfJob
      <4> QED
        BY <2>2, <2>3, <4>1, QueueAssumption
    <3>2. ~Stale(id, lag)
      BY <3>1, AgeTypes DEF Stale
    <3>3. /\ Unfinished(id)' /\ Listed(id)' /\ job'[id].status = job[id].status
          /\ job'[id].payload = job[id].payload
      BY <1>1, <2>3, <3>2 DEF Unfinished, Listed
    <3>4. job'[id].claimed <= consumer[c].held + MaxLag
      <4>1. job'[id].claimed = lag \/ job'[id].claimed = job[id].claimed
        BY <1>1, <3>2
      <4>2. lag <= consumer[c].held + MaxLag
        BY <2>2, QueueAssumption
      <4> QED
        BY <2>3, <4>1, <4>2
    <3> QED
      BY <2>1, <2>2, <3>3, <3>4 DEF InHand, Terminal
  <2>4. CASE consumer[c].pc = job[id].status
    <3>1. job'[id].status = job[id].status /\ job'[id].payload = job[id].payload
      BY <1>1, <2>1, <2>2, <2>4 DEF InHand, Stale, Unfinished, Terminal
    <3> QED
      BY <2>1, <2>2, <2>4, <3>1 DEF InHand
  <2> QED
    BY <2>1, <2>2, <2>3, <2>4 DEF InHand
<1> QED
  BY <1>3, <1>5, <1>6 DEF HandsInv

\* A tick ages a stamp no more than the handling it belongs to.
LEMMA TickStep ==
    ASSUME Timely, TimelyFacts, Tick
    PROVE  HandsInv' /\ \A id \in Jobs : JobInv(id)'
<1>1. \A c \in Consumers :
        /\ consumer'[c].pc = consumer[c].pc /\ consumer'[c].id = consumer[c].id
        /\ consumer'[c].payload = consumer[c].payload
        /\ Handling(c) => consumer'[c].held = consumer[c].held + 1
  BY DEF TimelyFacts, Tick, ConsumerState
<1>2. \A id \in Jobs : JobInv(id)'
  <2> SUFFICES ASSUME NEW id \in Jobs PROVE JobInv(id)'
    OBVIOUS
  <2>1. /\ JobInv(id) /\ queue' = queue /\ processing' = processing
        /\ job'[id].status = job[id].status /\ job'[id].payload = job[id].payload
        /\ job'[id].result = job[id].result /\ job'[id].error = job[id].error
        /\ job[id].claimed = Unstamped => job'[id].claimed = Unstamped
    BY TickEffect DEF TimelyFacts
  <2> QED
    BY <2>1 DEF JobInv, Unfinished, Queued, Listed, Exists, Finished
<1>3. ClaimIsExclusive'
  BY <1>1, ExclusiveFrame
<1>4. ASSUME NEW c \in Consumers, Handling(c)' PROVE InHand(c)'
  <2>0. Handling(c)
    BY <1>1, <1>4 DEF Handling
  <2>1. PICK id \in Jobs : id = consumer[c].id
    BY <2>0, FactsOfConsumer
  <2>2. InHand(c) /\ consumer'[c].held = consumer[c].held + 1 /\ consumer[c].held \in Nat
    BY <1>1, <2>0, FactsOfConsumer
  <2>3. /\ processing' = processing /\ job'[id].status = job[id].status
        /\ job'[id].payload = job[id].payload
        /\ job'[id].claimed = IF job[id].claimed = Unstamped
                                THEN Unstamped ELSE Older(job[id].claimed)
    BY TickEffect DEF TimelyFacts
  <2>4. job[id].claimed <= consumer[c].held + MaxLag =>
          job'[id].claimed <= consumer'[c].held + MaxLag
    <3>1. job[id].claimed \in Int
      BY FactsOfJob
    <3>2. job'[id].claimed <= job[id].claimed + 1
      BY <2>3, <3>1 DEF Older, Unstamped
    <3>3. job'[id].claimed \in Int
      BY <2>3, <3>1 DEF Older, Unstamped
    <3>4. MaxLag \in Int /\ consumer[c].held \in Int
      BY <2>2, AgeTypes
    <3> QED
      BY <2>2, <3>1, <3>2, <3>3, <3>4, AgeSum
  <2> QED
    BY <1>1, <2>1, <2>2, <2>3, <2>4 DEF InHand, Unfinished, Listed
<1> QED
  BY <1>2, <1>3, <1>4 DEF HandsInv

\* Going back to the loop's head, the start of consumers and the end of a
\* process put nothing into anyone's hands.
LEMMA QuietMoves ==
    ASSUME TypeOK
    PROVE  /\ \A c \in Consumers : LoopHead(c).id = None
           /\ \A c \in Consumers : Goto(c, LoopHead(c)) \/ Goto(c, consumer[c]) => Quiet
           /\ \A w \in Workers : Recovered(w) \/ Killed(w) => Quiet
           /\ consumer' = consumer => Quiet
<1>1. \A c \in Consumers : LoopHead(c).id = None
  BY DEF LoopHead, At
<1>2. \A c \in Consumers : Goto(c, LoopHead(c)) \/ Goto(c, consumer[c]) => Quiet
  BY <1>1 DEF Goto, Quiet, Handling, TypeOK
<1>3. \A w \in Workers : Recovered(w) \/ Killed(w) => Quiet
  BY DEF Recovered, Killed, At, Quiet, Handling
<1>4. consumer' = consumer => Quiet
  BY DEF Quiet
<1> QED
  BY <1>1, <1>2, <1>3, <1>4

\* Every step keeps the timely invariant.
LEMMA TimelyStep ==
    ASSUME Timely, ~TtlElapses, BaseInv, TimelyInv, [Next]_vars PROVE TimelyInv'
<1> DEFINE Good == HandsInv' /\ \A id \in Jobs : JobInv(id)'
<1>0. TimelyFacts /\ TypeOK
  BY TimelyFactsHold DEF TimelyFacts
<1>1. ASSUME NEW c \in Consumers, ConsumerStep(c) PROVE Good
  <2>0. consumer[c].pc # "drop"
    BY <1>0 DEF TimelyFacts, HandsInv, PcInv, InHand, Terminal
  <2>1. CASE ClaimPop(c)
    BY <1>0, <2>1, MoveHeadStep DEF ClaimPop
  <2>2. CASE ClaimTimeout(c)
    BY <1>0, <2>2, QuietMoves, QuietStep DEF ClaimTimeout, redisVars
  <2>3. CASE ClaimRead(c) \/ ProcessJob(c)
    BY <1>0, <2>3, ReadAndPostStep
  <2>4. CASE ClaimStamp(c)
    BY <1>0, <2>4, QuietMoves, StampStep DEF ClaimStamp
  <2>5. CASE Finish(c)
    BY <1>0, <2>5, QuietMoves, OutcomeStep DEF Finish
  <2> QED
    BY <1>1, <2>0, <2>1, <2>2, <2>3, <2>4, <2>5 DEF ConsumerStep, ClaimDrop
<1>2. ASSUME NEW c \in Consumers, CallLost(c) PROVE Good
  BY <1>0, <1>2, QuietMoves, QuietStep DEF CallLost, redisVars
<1>3. ASSUME NEW c \in Consumers, ReplyLost(c) PROVE Good
  <2>0. consumer[c].pc # "drop"
    BY <1>0 DEF TimelyFacts, HandsInv, PcInv, InHand, Terminal
  <2>1. PICK next \in {consumer[c], LoopHead(c)} : Goto(c, next)
    BY <1>3 DEF ReplyLost
  <2>2. Quiet /\ (next.id = None \/ next = consumer[c])
    BY <1>0, <2>1, QuietMoves
  <2>3. CASE MoveHead
    BY <1>0, <2>2, <2>3, MoveHeadStep
  <2>4. CASE consumer[c].pc = "read" /\ StampClaim(c)
    BY <1>0, <2>1, <2>2, <2>4, StampStep
  <2>5. CASE consumer[c].pc \in Terminal /\ StoreOutcome(c)
    BY <1>0, <2>1, <2>2, <2>5, OutcomeStep
  <2> QED
    BY <1>3, <2>0, <2>3, <2>4, <2>5 DEF ReplyLost
<1>4. ASSUME NEW w \in Workers,
             WorkerStep(w) \/ RecoverFails(w) \/ RecoverResent(w) \/ Stop(w) \/ Crash(w)
      PROVE  Good
  <2>1. Quiet
    BY <1>0, <1>4, QuietMoves
       DEF WorkerStep, Start, RecoverAcquire, RecoverSweep, Exit, RecoverFails,
           RecoverResent, Stop, Crash
  <2>2. \/ \E lag \in 0..MaxLag : SweepProcessing(lag)
        \/ UNCHANGED <<queue, processing, job>>
    <3>1. RunSweep(w) => \E lag \in 0..MaxLag : SweepProcessing(lag)
      BY <1>0, SweepLag DEF BaseInv
    <3> QED
      BY <1>4, <3>1
         DEF WorkerStep, Start, RecoverAcquire, RecoverSweep, Exit, RecoverFails,
             RecoverResent, Stop, Crash, redisVars
  <2> QED
    BY <1>0, <2>1, <2>2, SweepQuietStep, QuietStep
<1>5. ASSUME Tick PROVE Good
  BY <1>0, <1>5, TickStep
<1>6. ASSUME NEW id \in Jobs, NEW payload \in Payloads, Enqueue(id, payload) PROVE Good
  BY <1>0, <1>6, EnqueueStep
<1>7. ASSUME UNCHANGED vars PROVE Good
  BY <1>0, <1>7, QuietMoves, QuietStep DEF vars
<1>8. Good
  BY <1>1, <1>2, <1>3, <1>4, <1>5, <1>6, <1>7 DEF Next, Disruption, Expire
<1> QED
  BY <1>8, TimelyParts, EntryStep, PcStep DEF TimelyInv

\* The timely invariant holds from the first state on.
THEOREM TimelyInvariance ==
    ASSUME Timely, ~TtlElapses PROVE Spec => []TimelyInv
<1>1. Init => TimelyInv
  <2> SUFFICES ASSUME Init PROVE TimelyInv
    OBVIOUS
  <2>1. queue = <<>> /\ \A id \in Jobs : processing[id] = 0 /\ job[id] = NoRecord
    BY DEF Init
  <2>2. \A c \in Consumers : consumer[c].id = None /\ consumer[c].pc = "exited"
    BY DEF Init, At
  <2>3. \A c \in Consumers : ~Handling(c)
    BY <2>2 DEF Handling
  <2>4. \A id \in Jobs : ~Queued(id) /\ ~Listed(id) /\ job[id].status = "none"
                         /\ job[id].result = None /\ job[id].error = "absent"
    BY <2>1 DEF Queued, Listed, NoRecord
  <2>5. PcInv /\ ClaimIsExclusive
    BY <2>2, <2>3 DEF PcInv, ClaimIsExclusive
  <2>6. EntryInv
    BY <2>1, <2>3, <2>4 DEF EntryInv, SingleEntry
  <2>7. NothingStranded /\ OutcomeIsWhole
    BY <2>4 DEF NothingStranded, OutcomeIsWhole, Unfinished
  <2> QED
    BY <2>3, <2>4, <2>5, <2>6, <2>7 DEF TimelyInv, Exists, Finished, Terminal
<1>2. BaseInv /\ TimelyInv /\ [Next]_vars => TimelyInv'
  BY TimelyStep
<1> QED
  BY <1>1, <1>2, BaseInvariance, PTL DEF Spec

\* With timely workers a job is in one pair of hands, is never lost while it has
\* no outcome, and shows the outcome of its own request.
THEOREM TimelySafety ==
    ASSUME Timely, ~TtlElapses
    PROVE  Spec => [](ClaimIsExclusive /\ NothingStranded /\ OutcomeIsWhole)
<1>1. TimelyInv => ClaimIsExclusive /\ NothingStranded /\ OutcomeIsWhole
  BY DEF TimelyInv
<1> QED
  BY <1>1, TimelyInvariance, PTL

\* With timely workers a job that a live worker is handling is in no other
\* worker's hands: neither a claim nor a sweep of the processing lists hands
\* it over.
THEOREM ClaimIsExclusiveHolds ==
    ASSUME Timely, ~TtlElapses
    PROVE  Spec => []ClaimIsExclusive
<1> QED  BY TimelySafety, PTL

\* With timely workers a succeeded job shows the answer to its own request, a
\* failed one its error, and a job without outcome neither.
THEOREM OutcomeIsWholeHolds ==
    ASSUME Timely, ~TtlElapses
    PROVE  Spec => []OutcomeIsWhole
<1> QED  BY TimelySafety, PTL

\* The commands of a consumer do to the statuses what the life cycle allows, and
\* a second finish() of a job writes what the first one wrote.
LEMMA CommandIsAllowed ==
    ASSUME TimelyFacts, NEW c \in Consumers, Command(c)
    PROVE  \E own \in Jobs :
             /\ \A id \in Jobs : id # own => job'[id] = job[id]
             /\ \/ job[own].status \in {"queued", "running"} /\ job'[own].status = "running"
                \/ job[own].status = "running" /\ job'[own].status \in Terminal
                \/ Finished(own) /\ Poll(own)' = Poll(own)
<1>1. PICK own \in Jobs : own = consumer[c].id
  BY DEF Command
<1>2. InHand(c)
  BY <1>1, QueueAssumption DEF TimelyFacts, HandsInv, Handling
<1>3. \A id \in Jobs : id # own => job'[id] = job[id]
  BY <1>1, CommandEffect DEF TimelyFacts
<1>4. CASE consumer[c].pc = "read"
  <2>1. job'[own].status = "running" /\ Unfinished(own)
    BY <1>1, <1>2, <1>4, CommandEffect DEF TimelyFacts, InHand, Record, Terminal
  <2> QED
    BY <1>3, <2>1 DEF Unfinished
<1>5. CASE consumer[c].pc \in Terminal
  <2>1. /\ job'[own].status = consumer[c].pc
        /\ job'[own].result = IF consumer[c].pc = "succeeded"
                                THEN consumer[c].payload ELSE job[own].result
        /\ job'[own].error = IF consumer[c].pc = "failed"
                               THEN "sanitized" ELSE job[own].error
    BY <1>1, <1>5, CommandEffect DEF TimelyFacts, Terminal
  <2>2. CASE job[own].status = "running"
    BY <1>3, <1>5, <2>1, <2>2
  <2>3. CASE consumer[c].pc = job[own].status
    <3>1. job[own].error \in {"absent", "sanitized"} /\ JobInv(own)
      BY DEF TimelyFacts, Record
    <3>2. job'[own].result = job[own].result /\ job'[own].error = job[own].error
      BY <1>1, <1>2, <1>5, <2>1, <2>3, <3>1 DEF InHand, JobInv, Terminal
    <3> QED
      BY <1>3, <1>5, <2>1, <2>3, <3>2 DEF Poll, Finished
  <2> QED
    BY <1>1, <1>2, <1>5, <2>2, <2>3 DEF InHand
<1> QED
  BY <1>1, <1>2, <1>4, <1>5 DEF Command, InHand, Terminal

\* What a poll once showed as the outcome of a job, it shows for good.
THEOREM OutcomeIsFinalHolds ==
    ASSUME Timely, ~TtlElapses PROVE Spec => OutcomeIsFinal
<1>1. BaseInv /\ TimelyInv /\ [Next]_vars =>
        [\A id \in Jobs : Finished(id) => Poll(id)' = Poll(id)]_vars
  <2> SUFFICES ASSUME BaseInv, TimelyInv, [Next]_vars, NEW id \in Jobs, Finished(id)
               PROVE  Poll(id)' = Poll(id)
    OBVIOUS
  <2>0. TimelyFacts /\ TypeOK
    BY TimelyFactsHold DEF TimelyFacts
  <2>1. ASSUME NEW other \in Jobs, NEW payload \in Payloads, Enqueue(other, payload)
        PROVE  Poll(id)' = Poll(id)
    <3>1. id # other
      BY <2>1 DEF Enqueue, EnqueueScript, Exists, Finished, Terminal
    <3> QED
      BY <2>0, <2>1, <3>1 DEF Enqueue, TypeOK, Poll
  <2>2. CASE MoveHead \/ UNCHANGED <<queue, processing, job>>
    BY <2>2 DEF MoveHead, Poll
  <2>3. ASSUME NEW c \in Consumers, Command(c) PROVE Poll(id)' = Poll(id)
    BY <2>0, <2>3, CommandIsAllowed DEF Poll, Finished, Terminal
  <2>4. ASSUME NEW lag \in 0..MaxLag, SweepProcessing(lag) PROVE Poll(id)' = Poll(id)
    BY <2>0, <2>4, SweepEffect DEF Stale, Unfinished, Finished, Terminal, Poll
  <2>5. CASE Tick
    BY <2>0, <2>5, TickEffect DEF Poll
  <2> QED
    BY <2>1, <2>2, <2>3, <2>4, <2>5, RedisSteps DEF Expire
<1> QED
  BY <1>1, BaseInvariance, TimelyInvariance, PTL DEF Spec, OutcomeIsFinal

\* The queue and its timely workers implement the life cycle of a job: every
\* step is a submission, a claim, an outcome or a requeue of it, or a stutter.
THEOREM LifecycleRefinement ==
    ASSUME Timely, ~TtlElapses PROVE Spec => ImplementsLifecycle
<1> DEFINE status == [id \in Jobs |-> job[id].status]
<1>1. Init => Lifecycle!Init
  BY DEF Init, NoRecord, Lifecycle!Init
<1>2. BaseInv /\ TimelyInv /\ [Next]_vars => [Lifecycle!Next]_status
  <2> SUFFICES ASSUME BaseInv, TimelyInv, [Next]_vars
               PROVE  Lifecycle!Next \/ status' = status
    OBVIOUS
  <2>0. TimelyFacts /\ TypeOK
    BY TimelyFactsHold DEF TimelyFacts
  <2>1. ASSUME NEW id \in Jobs, NEW payload \in Payloads, Enqueue(id, payload)
        PROVE  Lifecycle!Next
    <3>1. /\ job[id].status = "none" /\ job'[id].status = "queued"
          /\ \A other \in Jobs : other # id => job'[other] = job[other]
      BY <2>0, <2>1 DEF Enqueue, EnqueueScript, Exists, NoRecord, TypeOK
    <3>2. Lifecycle!Submit(id)
      BY <3>1 DEF Lifecycle!Submit
    <3> QED
      BY <3>2 DEF Lifecycle!Next
  <2>2. CASE MoveHead \/ UNCHANGED <<queue, processing, job>>
    BY <2>2 DEF MoveHead
  <2>3. ASSUME NEW c \in Consumers, Command(c) PROVE Lifecycle!Next \/ status' = status
    <3>1. PICK own \in Jobs :
             /\ \A id \in Jobs : id # own => job'[id] = job[id]
             /\ \/ job[own].status \in {"queued", "running"} /\ job'[own].status = "running"
                \/ job[own].status = "running" /\ job'[own].status \in Terminal
                \/ Finished(own) /\ Poll(own)' = Poll(own)
      BY <2>0, <2>3, CommandIsAllowed
    <3>2. CASE job'[own].status = job[own].status
      BY <3>1, <3>2
    <3>3. CASE job[own].status = "queued" /\ job'[own].status = "running"
      <4>1. Lifecycle!Begin(own)
        BY <3>1, <3>3 DEF Lifecycle!Begin
      <4> QED
        BY <4>1 DEF Lifecycle!Next
    <3>4. CASE job[own].status = "running" /\ job'[own].status \in Terminal
      <4>1. Lifecycle!Settle(own)
        BY <3>1, <3>4 DEF Lifecycle!Settle, Terminal
      <4> QED
        BY <4>1 DEF Lifecycle!Next
    <3> QED
      BY <3>1, <3>2, <3>3, <3>4 DEF Poll
  <2>4. ASSUME NEW lag \in 0..MaxLag, SweepProcessing(lag) PROVE Lifecycle!Next
    <3>1. PICK stranded \in SUBSET Jobs : \A id \in Jobs : id \in stranded <=> Stale(id, lag)
      <4>1. {id \in Jobs : Stale(id, lag)} \in SUBSET Jobs
        OBVIOUS
      <4> QED
        BY <4>1
    <3>2. \A id \in Jobs :
            job'[id].status = IF id \in stranded THEN "queued" ELSE job[id].status
      BY <2>0, <2>4, <3>1, SweepEffect
    <3>3. \A id \in stranded : job[id].status \in {"queued", "running"}
      BY <3>1 DEF Stale, Unfinished
    <3>4. Lifecycle!Requeue(stranded)
      BY <3>2, <3>3 DEF Lifecycle!Requeue
    <3> QED
      BY <3>4 DEF Lifecycle!Next
  <2>5. CASE Tick
    BY <2>0, <2>5, TickEffect
  <2> QED
    BY <2>1, <2>2, <2>3, <2>4, <2>5, RedisSteps DEF Expire
<1> QED
  BY <1>1, <1>2, BaseInvariance, TimelyInvariance, PTL
     DEF Spec, ImplementsLifecycle, Lifecycle!Spec
=============================================================================
