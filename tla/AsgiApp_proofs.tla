--------------------------- MODULE AsgiApp_proofs ---------------------------
(***************************************************************************)
(* The safety of the request body middleware, the lifespan and the         *)
(* readiness endpoint, for every limit, chunk size and bound.              *)
(***************************************************************************)
EXTENDS AsgiApp, FiniteSetTheorems, WellFoundedInduction, TLAPS

\* The middleware buffers what it receives, in order; the application starts
\* when the buffer ends the body or the connection, and reads the buffer first.
BodyInv ==
    /\ Len(buffered) <= Len(sent)
    /\ \A i \in 1..Len(buffered) : sent[i] = buffered[i]
    /\ \A i \in 1..Len(read) : i <= Len(buffered) => read[i] = buffered[i]
    /\ pc \in {"none", "call"} => sent = <<>>
    /\ pc \in {"none", "call", "buffering"} => sent = buffered /\ read = <<>>
    /\ pc = "app" \/ read # <<>> => Complete(buffered)

\* The running count is the number of buffered bytes, and within the limit
\* unless the request was rejected.
MemoryInv ==
    /\ declared \in {<<>>} \cup {<<n>> : n \in {MaxBytes, MaxBytes + 1}}
    /\ total \in Nat /\ total = Bytes(buffered)
    /\ pc # "rejected" => total <= MaxBytes
    /\ MemoryIsBounded

\* The lifespan: what is open is owned, the clean-up has passed what it closed,
\* and only a serving or draining application has a request.
LifeInv ==
    /\ service \in {"api", "runtime"}
    /\ phase \in {"open_gateway", "open_queue", "serving", "draining", "close_queue",
                  "close_gateway", "dispose_engine", "stopped", "load", "unready"}
    /\ service = "runtime" =>
         /\ phase \in {"load", "serving", "draining", "unready", "stopped"}
         /\ \A r \in Resources : res[r] = "none"
    /\ phase \in {"load", "unready"} => service = "runtime"
    /\ \A r \in Resources : res[r] = "open" => r \in Owned
    /\ \A r \in given : res[r] = "given"
    /\ phase \in {"close_gateway", "dispose_engine", "stopped"} => res["redis"] # "open"
    /\ phase \in {"dispose_engine", "stopped"} => res["kubernetes"] # "open"
    /\ phase = "stopped" => res["database"] # "open"
    /\ \A r \in Resources : res[r] = "closed" =>
         phase \in {"close_gateway", "dispose_engine", "stopped"}
    /\ phase \notin {"serving", "draining"} => pc \notin {"call", "buffering", "app"}

\* What ready() has found up when it looks at d.
Before(d) ==
    CASE d = "database" -> {}
      [] d = "kubernetes" -> {"database"}
      [] OTHER -> Needed \ {"redis"}

\* While ready() runs, seenUp holds what is up now and what was checked already.
CheckInv ==
    /\ enabled \subseteq {"kubernetes", "redis"} /\ given \subseteq Resources
    /\ pc \in {"none", "call", "buffering", "app"} => response = ""
    /\ dependency # "" =>
         /\ pc = "app" /\ path = "ready" /\ dependency \in Needed
         /\ Needed \ down \subseteq seenUp /\ Before(dependency) \subseteq seenUp
    /\ ReadinessIsTruthful

Inv == TypeOK /\ BodyInv /\ MemoryInv /\ LifeInv /\ CheckInv

-----------------------------------------------------------------------------
(* Numbers and messages. *)

\* A set of natural numbers that is not empty has a least element.
LEMMA LeastElement ==
    ASSUME NEW S \in SUBSET Nat, S # {}
    PROVE  \E x \in S : \A y \in S : x <= y
<1>1. IsWellFoundedOn(OpToRel(<, Nat), Nat)
  BY NatLessThanWellFounded, Zenon
<1>2. PICK x \in S : \A y \in S : <<y, x>> \notin OpToRel(<, Nat)
  BY <1>1, WFMin, Zenon
<1>3. ASSUME NEW y \in S, y < x  PROVE FALSE
  <2>1. <<y, x>> \in Nat \X Nat
    OBVIOUS
  <2>2. <<y, x>>[1] < <<y, x>>[2]
    BY <1>3
  <2>3. <<y, x>> \in OpToRel(<, Nat)
    BY <2>1, <2>2, Zenon DEF OpToRel
  <2> QED
    BY <2>3, <1>2, Zenon
<1> QED
  BY <1>3

\* There is a largest chunk, which Max names.
LEMMA LargestChunk ==
    /\ Max(ChunkSizes) \in Nat
    /\ \A n \in ChunkSizes : n \in Nat /\ n <= Max(ChunkSizes)
<1>1. PICK largest \in ChunkSizes : \A n \in ChunkSizes : n <= largest
  BY LimitAssumption
<1>2. \A n \in ChunkSizes : n \in Nat
  BY LimitAssumption
<1>3. \A n \in ChunkSizes : largest >= n
  BY <1>1, <1>2
<1>4. Max(ChunkSizes) \in ChunkSizes /\ \A n \in ChunkSizes : Max(ChunkSizes) >= n
  BY <1>3 DEF Max
<1> QED
  BY <1>2, <1>4

\* A message has a size that is 0 or that of a chunk.
LEMMA MessageFacts ==
    ASSUME NEW m \in Messages
    PROVE  /\ m.body \in Nat /\ m.body <= Max(ChunkSizes)
           /\ m.more_body \in BOOLEAN
           /\ m = Disconnect => m.body = 0 /\ ~m.more_body
<1>1. CASE m = Disconnect
  BY <1>1, LargestChunk DEF Disconnect
<1>2. CASE m # Disconnect
  <2>1. PICK n \in ChunkSizes \cup {0}, more \in BOOLEAN : m = Body(n, more)
    BY <1>2 DEF Messages
  <2> QED
    BY <2>1, <1>2, LargestChunk DEF Body
<1> QED
  BY <1>1, <1>2

\* What the server and the runtime's replay return are messages.
LEMMA SomeMessages ==
    /\ Disconnect \in Messages
    /\ Body(0, FALSE) \in Messages
    /\ \A n \in ChunkSizes, more \in BOOLEAN : Body(n, more) \in Messages
<1>1. 0 \in ChunkSizes \cup {0} /\ FALSE \in BOOLEAN
  OBVIOUS
<1>2. \A n \in ChunkSizes \cup {0}, more \in BOOLEAN : Body(n, more) \in Messages
  BY SMT DEF Messages
<1>3. Disconnect \in Messages
  BY SMT DEF Messages
<1> QED
  BY <1>1, <1>2, <1>3

-----------------------------------------------------------------------------
(* Counting bytes. *)

\* The bytes of a sequence of messages, each at its place.
Places(s) == UNION {{i} \X (1..s[i].body) : i \in DOMAIN s}

\* There are finitely many of them.
LEMMA PlacesFinite ==
    ASSUME NEW s \in Seq(Messages)
    PROVE  IsFiniteSet(Places(s))
<1> DEFINE grid == (1..Len(s)) \X (1..Max(ChunkSizes))
<1>1. IsFiniteSet(1..Len(s)) /\ IsFiniteSet(1..Max(ChunkSizes))
  BY FS_Interval, LargestChunk
<1>2. IsFiniteSet(grid)
  BY <1>1, FS_Product
<1>3. \A i \in DOMAIN s : s[i].body \in Nat /\ s[i].body <= Max(ChunkSizes)
  BY MessageFacts
<1>4. ASSUME NEW i \in DOMAIN s  PROVE {i} \X (1..s[i].body) \subseteq grid
  BY <1>3, LargestChunk
<1>5. Places(s) \subseteq grid
  BY <1>4 DEF Places
<1> QED
  BY <1>2, <1>5, FS_Subset

\* A message of k bytes has k places.
LEMMA Row ==
    ASSUME NEW n, NEW k \in Nat
    PROVE  IsFiniteSet({n} \X (1..k)) /\ Cardinality({n} \X (1..k)) = k
<1>1. IsFiniteSet(1..k) /\ Cardinality(1..k) = k
  <2>1. 1 \in Int /\ k \in Int /\ (IF 1 > k THEN 0 ELSE k - 1 + 1) = k
    OBVIOUS
  <2> QED
    BY <2>1, FS_Interval
<1>2. IsFiniteSet({n}) /\ Cardinality({n}) = 1
  BY FS_Singleton
<1>3. /\ IsFiniteSet({n} \X (1..k))
      /\ Cardinality({n} \X (1..k)) = Cardinality({n}) * Cardinality(1..k)
  BY <1>1, <1>2, FS_Product
<1> QED
  BY <1>1, <1>2, <1>3

\* An empty body has none.
LEMMA BytesOfNothing == Bytes(<<>>) = 0
<1>1. UNION {{i} \X (1..(<<>>)[i].body) : i \in DOMAIN <<>>} = {}
  OBVIOUS
<1> QED
  BY <1>1, FS_EmptySet DEF Bytes

\* A message adds its own.
LEMMA BytesOfAppend ==
    ASSUME NEW s \in Seq(Messages), NEW m \in Messages
    PROVE  Bytes(Append(s, m)) = Bytes(s) + m.body
<1> DEFINE t == Append(s, m)
           n == Len(s) + 1
           new == {n} \X (1..m.body)
<1>1. t \in Seq(Messages) /\ n \in DOMAIN t /\ t[n] = m
  OBVIOUS
<1>2. \A i \in DOMAIN s : i \in DOMAIN t /\ t[i] = s[i] /\ i # n
  OBVIOUS
<1>3. \A i \in DOMAIN t : i = n \/ i \in DOMAIN s
  OBVIOUS
<1> HIDE DEF t, n
<1>4. Places(t) = Places(s) \cup new
  <2>1. ASSUME NEW b \in Places(t)  PROVE b \in Places(s) \cup new
    <3>1. PICK i \in DOMAIN t : b \in {i} \X (1..t[i].body)
      BY <2>1 DEF Places
    <3>2. CASE i = n
      BY <3>1, <3>2, <1>1
    <3>3. CASE i \in DOMAIN s
      BY <3>1, <3>3, <1>2 DEF Places
    <3> QED
      BY <3>2, <3>3, <1>3
  <2>2. ASSUME NEW b \in Places(s)  PROVE b \in Places(t)
    <3>1. PICK i \in DOMAIN s : b \in {i} \X (1..s[i].body)
      BY <2>2 DEF Places
    <3>2. i \in DOMAIN t /\ b \in {i} \X (1..t[i].body)
      BY <3>1, <1>2
    <3> QED
      BY <3>2 DEF Places
  <2>3. new \subseteq Places(t)
    <3>1. n \in DOMAIN t
      BY <1>1
    <3>2. new = {n} \X (1..t[n].body)
      BY <1>1
    <3> QED
      BY <3>1, <3>2 DEF Places
  <2> QED
    BY <2>1, <2>2, <2>3
<1>5. Places(s) \cap new = {}
  <2>1. ASSUME NEW b \in Places(s), b \in new  PROVE FALSE
    <3>1. PICK i \in DOMAIN s : b \in {i} \X (1..s[i].body)
      BY <2>1 DEF Places
    <3>2. b[1] = i /\ b[1] = n
      BY <3>1, <2>1
    <3> QED
      BY <3>2, <1>2
  <2> QED
    BY <2>1
<1>6. m.body \in Nat
  BY MessageFacts
<1>7. IsFiniteSet(new) /\ Cardinality(new) = m.body
  BY <1>6, Row
<1>8. IsFiniteSet(Places(s))
  BY PlacesFinite
<1>9. Cardinality(Places(s)) \in Nat
  BY <1>8, FS_CardinalityType
<1>10. Cardinality(Places(t)) = Cardinality(Places(s)) + Cardinality(new) - Cardinality({})
  BY <1>4, <1>5, <1>7, <1>8, FS_Union
<1>11. Bytes(t) = Cardinality(Places(t)) /\ Bytes(s) = Cardinality(Places(s))
  BY Zenon DEF Bytes, Places
<1>12. Bytes(t) = Bytes(s) + m.body
  BY <1>6, <1>7, <1>9, <1>10, <1>11, FS_EmptySet
<1> QED
  BY <1>12 DEF t

-----------------------------------------------------------------------------
(* The request. *)

\* What a step does to the request: one operation of BodyLimit, or its end.
LEMMA RequestStep ==
    ASSUME [Next]_vars
    PROVE  /\ UNCHANGED service
           /\ \/ Arrive \/ CheckDeclared \/ BufferMessage \/ ClientLeaves \/ AppReceive
              \/ /\ pc' = pc \/ (pc # "rejected" /\ pc' \in {"done", "cancelled"})
                 /\ UNCHANGED <<declared, gone, sent, buffered, total, read>>
<1>1. CASE UNCHANGED vars
  BY <1>1 DEF vars, config, request
<1>2. CASE Lifespan \/ RuntimeLifespan \/ Signal
  BY <1>2 DEF Lifespan, RuntimeLifespan, Signal, config, request
<1>3. CASE Drained
  BY <1>3 DEF Drained, config
<1>4. CASE Accept
  BY <1>4 DEF Accept, config
<1>5. CASE Middleware
  BY <1>5 DEF Middleware, config
<1>6. CASE Endpoint
  BY <1>6 DEF Endpoint, config
<1>7. CASE ReadyBegin
  BY <1>7 DEF ReadyBegin, config, request
<1>8. CASE Ready
  BY <1>8 DEF Ready, config
<1>9. CASE \E d \in Needed : Flip(d)
  BY <1>9 DEF Flip, config, request
<1> QED
  BY <1>1, <1>2, <1>3, <1>4, <1>5, <1>6, <1>7, <1>8, <1>9 DEF Next

\* The sequences of messages, the part of TypeOK that BodyLimit needs.
SequencesOK == sent \in Seq(Messages) /\ buffered \in Seq(Messages) /\ read \in Seq(Messages)

\* One turn of the loop of __call__ extends the buffer by what was received.
LEMMA BufferMessageStep ==
    ASSUME SequencesOK, BodyInv, BufferMessage
    PROVE  \E m \in Messages :
             /\ sent' = Append(sent, m) /\ buffered' = Append(buffered, m)
             /\ total' = total + m.body
             /\ pc = "buffering" /\ sent = buffered /\ read = <<>>
             /\ pc' \in {"app", "rejected", "buffering"}
             /\ pc' = "app" => ~m.more_body /\ (m = Disconnect \/ ~(total' > MaxBytes))
             /\ pc' = "rejected" => total' > MaxBytes
             /\ pc' = "buffering" => ~(total' > MaxBytes)
             /\ UNCHANGED <<declared, gone, read>>
<1>1. PICK m \in Messages :
        /\ Receive(m)
        /\ buffered' = Append(buffered, m)
        /\ total' = total + m.body
        /\ pc' = CASE m = Disconnect -> "app"
                   [] m # Disconnect /\ total' > MaxBytes -> "rejected"
                   [] OTHER -> IF m.more_body THEN "buffering" ELSE "app"
  BY DEF BufferMessage
<1>2. sent' = Append(sent, m)
  BY <1>1 DEF Receive
<1>3. pc = "buffering" /\ sent = buffered /\ read = <<>> /\ UNCHANGED <<declared, gone, read>>
  BY DEF BufferMessage, BodyInv
<1>4. m.more_body \in BOOLEAN /\ (m = Disconnect => ~m.more_body)
  BY MessageFacts
<1>5. /\ pc' \in {"app", "rejected", "buffering"}
      /\ pc' = "app" => ~m.more_body /\ (m = Disconnect \/ ~(total' > MaxBytes))
      /\ pc' = "rejected" => total' > MaxBytes
      /\ pc' = "buffering" => ~(total' > MaxBytes)
  <2>1. CASE m = Disconnect
    BY <2>1, <1>1, <1>4
  <2>2. CASE m # Disconnect /\ total' > MaxBytes
    BY <2>2, <1>1
  <2>3. CASE m # Disconnect /\ ~(total' > MaxBytes) /\ m.more_body
    BY <2>3, <1>1
  <2>4. CASE m # Disconnect /\ ~(total' > MaxBytes) /\ ~m.more_body
    BY <2>4, <1>1
  <2> QED
    BY <2>1, <2>2, <2>3, <2>4
<1> QED
  BY <1>1, <1>2, <1>3, <1>5

\* A read of the application returns the next buffered message while there is
\* one, and leaves what the server returned before as it was.
LEMMA AppReceiveStep ==
    ASSUME SequencesOK, AppReceive
    PROVE  /\ pc = "app" /\ UNCHANGED <<declared, gone, pc, buffered, total>>
           /\ \E m \in Messages :
                /\ read' = Append(read, m)
                /\ Len(read) < Len(buffered) => m = buffered[Len(read) + 1]
                /\ sent' \in {sent, Append(sent, m)}
<1>1. pc = "app" /\ UNCHANGED <<declared, gone, pc, buffered, total>>
  BY DEF AppReceive
<1>2. Len(read) < Len(buffered) => buffered[Len(read) + 1] \in Messages
  BY DEF SequencesOK
<1>3. CASE ApiReplay
  <2>1. CASE Len(read) < Len(buffered)
    BY <2>1, <1>1, <1>2, <1>3 DEF ApiReplay
  <2>2. CASE ~(Len(read) < Len(buffered))
    <3>1. PICK m \in Messages : Receive(m) /\ read' = Append(read, m)
      BY <2>2, <1>3 DEF ApiReplay
    <3>2. sent' = Append(sent, m)
      BY <3>1 DEF Receive
    <3> QED
      BY <3>1, <3>2, <2>2, <1>1
  <2> QED
    BY <2>1, <2>2
<1>4. CASE RuntimeReplay
  <2>1. CASE Len(read) < Len(buffered)
    BY <2>1, <1>1, <1>2, <1>4 DEF RuntimeReplay
  <2>2. CASE ~(Len(read) < Len(buffered))
    BY <2>2, <1>1, <1>4, SomeMessages DEF RuntimeReplay
  <2> QED
    BY <2>1, <2>2
<1> QED
  BY <1>3, <1>4 DEF AppReceive

\* Every step keeps the buffer a prefix of what was sent, and what was read one
\* of the buffer.
LEMMA BodyStep ==
    ASSUME SequencesOK, BodyInv, [Next]_vars
    PROVE  SequencesOK' /\ BodyInv'
<1> USE DEF SequencesOK
<1>1. CASE Arrive
  BY <1>1 DEF Arrive, BodyInv, Complete
<1>2. CASE CheckDeclared
  <2>1. pc = "call" /\ pc' \in {"rejected", "buffering"}
    BY <1>2 DEF CheckDeclared
  <2> QED
    BY <2>1, <1>2 DEF CheckDeclared, BodyInv, Complete
<1>3. CASE ClientLeaves
  BY <1>3 DEF ClientLeaves, BodyInv, Complete
<1>4. CASE BufferMessage
  <2>1. PICK m \in Messages :
          /\ sent' = Append(sent, m) /\ buffered' = Append(buffered, m)
          /\ sent = buffered /\ read = <<>> /\ read' = read
          /\ pc' \in {"app", "rejected", "buffering"}
          /\ pc' = "app" => ~m.more_body
    BY <1>4, BufferMessageStep
  <2>2. SequencesOK'
    BY <2>1
  <2>3. sent' = buffered' /\ read' = <<>>
    BY <2>1
  <2>4. buffered' # <<>> /\ Last(buffered') = m
    BY <2>1 DEF Last
  <2>5. pc' = "app" \/ read' # <<>> => Complete(buffered')
    BY <2>1, <2>3, <2>4 DEF Complete
  <2> QED
    BY <2>1, <2>2, <2>3, <2>5 DEF BodyInv
<1>5. CASE AppReceive
  <2>1. pc = "app" /\ pc' = pc /\ buffered' = buffered
    BY <1>5, AppReceiveStep
  <2>2. PICK m \in Messages :
          /\ read' = Append(read, m)
          /\ Len(read) < Len(buffered) => m = buffered[Len(read) + 1]
          /\ sent' \in {sent, Append(sent, m)}
    BY <1>5, AppReceiveStep
  <2>3. /\ sent' \in Seq(Messages)
        /\ Len(sent) <= Len(sent') /\ \A i \in 1..Len(sent) : sent'[i] = sent[i]
    <3>1. CASE sent' = sent
      BY <3>1
    <3>2. CASE sent' = Append(sent, m)
      BY <3>2
    <3> QED
      BY <3>1, <3>2, <2>2
  <2>4. SequencesOK'
    <3>1. read' \in Seq(Messages)
      BY <2>2
    <3> QED
      BY <3>1, <2>1, <2>3
  <2>5. \A i \in 1..Len(read') : i <= Len(buffered) => read'[i] = buffered[i]
    <3>1. ASSUME NEW i \in 1..Len(read'), i <= Len(buffered)
          PROVE  read'[i] = buffered[i]
      <4>1. CASE i \in 1..Len(read)
        BY <4>1, <3>1, <2>2 DEF BodyInv
      <4>2. CASE i = Len(read) + 1
        BY <4>2, <3>1, <2>2
      <4> QED
        BY <4>1, <4>2, <2>2
    <3> QED
      BY <3>1
  <2>6. Len(buffered) <= Len(sent') /\ \A i \in 1..Len(buffered) : sent'[i] = buffered[i]
    BY <2>3, <2>4 DEF BodyInv
  <2>7. Complete(buffered)
    BY <2>1 DEF BodyInv
  <2> QED
    BY <2>1, <2>4, <2>5, <2>6, <2>7 DEF BodyInv
<1>6. CASE /\ pc' = pc \/ (pc # "rejected" /\ pc' \in {"done", "cancelled"})
           /\ UNCHANGED <<declared, gone, sent, buffered, total, read>>
  BY <1>6 DEF BodyInv, Complete
<1> QED
  BY <1>1, <1>2, <1>3, <1>4, <1>5, <1>6, RequestStep

\* The invariant gives AppReadsTheBody: the end of the body that the application
\* sees is one of the buffer, and the buffer is a prefix of what was sent.
LEMMA BodyInvGives ==
    ASSUME SequencesOK, BodyInv
    PROVE  AppReadsTheBody
<1> USE DEF SequencesOK
<1> DEFINE ends == {i \in DOMAIN read : ~read[i].more_body}
           seen == UpToEnd(read)
<1>1. CASE read = <<>>
  <2>1. seen = <<>>
    BY <1>1 DEF UpToEnd
  <2> QED
    BY <2>1 DEF AppReadsTheBody, IsPrefix
<1>2. CASE read # <<>>
  <2>1. /\ buffered # <<>> /\ Len(buffered) \in 1..Len(sent)
        /\ ~buffered[Len(buffered)].more_body
    BY <1>2 DEF BodyInv, Complete, Last
  <2>2. \E k \in 0..Len(read) : k <= Len(buffered) /\ seen = SubSeq(read, 1, k)
    <3>1. CASE ends = {}
      <4>1. seen = read
        BY <3>1 DEF UpToEnd
      <4>2. seen = SubSeq(read, 1, Len(read))
        BY <4>1
      <4>3. Len(read) < Len(buffered)
        <5>1. SUFFICES ASSUME Len(buffered) <= Len(read)  PROVE FALSE
          OBVIOUS
        <5>2. Len(buffered) \in DOMAIN read /\ ~read[Len(buffered)].more_body
          BY <5>1, <2>1 DEF BodyInv
        <5> QED
          BY <5>2, <3>1
      <4> QED
        BY <4>2, <4>3
    <3>2. CASE ends # {}
      <4> DEFINE first == CHOOSE i \in ends : \A j \in ends : i <= j
      <4>1. ends \in SUBSET Nat
        OBVIOUS
      <4>2. \E i \in ends : \A j \in ends : i <= j
        BY <4>1, <3>2, LeastElement
      <4>3. first \in ends /\ \A j \in ends : first <= j
        BY <4>2
      <4>4. seen = SubSeq(read, 1, first)
        BY <3>2 DEF UpToEnd
      <4> HIDE DEF first
      <4>5. first \in 0..Len(read)
        BY <4>3
      <4>6. first <= Len(buffered)
        <5>1. SUFFICES ASSUME Len(buffered) < first  PROVE FALSE
          BY <4>5
        <5>2. Len(buffered) \in ends
          BY <5>1, <4>5, <2>1 DEF BodyInv
        <5> QED
          BY <5>1, <5>2, <4>3, <4>5
      <4> QED
        BY <4>4, <4>5, <4>6
    <3> QED
      BY <3>1, <3>2
  <2>3. PICK k \in 0..Len(read) : k <= Len(buffered) /\ seen = SubSeq(read, 1, k)
    BY <2>2
  <2> HIDE DEF seen
  <2>4. seen \in Seq(Messages) /\ Len(seen) = k /\ \A i \in 1..k : seen[i] = read[i]
    BY <2>3
  <2>5. Len(seen) <= Len(sent) /\ \A i \in 1..Len(seen) : seen[i] = sent[i]
    <3>1. \A i \in 1..k : read[i] = buffered[i] /\ sent[i] = buffered[i]
      BY <2>3 DEF BodyInv
    <3>2. k <= Len(sent)
      BY <2>3, <2>1
    <3> QED
      BY <3>1, <3>2, <2>4
  <2>6. IsPrefix(seen, sent)
    BY <2>4, <2>5 DEF IsPrefix
  <2> QED
    BY <2>6 DEF AppReadsTheBody, seen
<1> QED
  BY <1>1, <1>2

-----------------------------------------------------------------------------
(* The limit. *)

\* A message past the limit is at most one more.
LEMMA OneMore ==
    ASSUME NEW n \in Nat, n <= MaxBytes, NEW m \in Messages
    PROVE  n + m.body \in Nat /\ n + m.body <= MaxBytes + Max(ChunkSizes)
<1>1. m.body \in Nat /\ m.body <= Max(ChunkSizes)
  BY MessageFacts
<1> DEFINE k == m.body
<1> HIDE DEF k
<1>2. k \in Nat /\ k <= Max(ChunkSizes)
  BY <1>1 DEF k
<1>3. n + k \in Nat /\ n + k <= MaxBytes + Max(ChunkSizes)
  BY <1>2, LargestChunk, LimitAssumption
<1> QED
  BY <1>3 DEF k

\* Every step keeps the count right and the buffer within the limit.
LEMMA MemoryStep ==
    ASSUME SequencesOK, BodyInv, MemoryInv, [Next]_vars
    PROVE  MemoryInv'
<1> USE DEF SequencesOK
<1>1. CASE Arrive
  BY <1>1 DEF Arrive, MemoryInv, MemoryIsBounded, Bytes
<1>2. CASE CheckDeclared
  <2>1. pc = "call" /\ pc' \in {"rejected", "buffering"}
    BY <1>2 DEF CheckDeclared
  <2>2. pc' = "rejected" => declared # <<>> /\ declared[1] > MaxBytes
    <3>1. CASE declared = <<>>
      BY <3>1, <1>2 DEF CheckDeclared
    <3>2. CASE declared # <<>>
      <4>1. DOMAIN declared = {1}
        BY <3>2 DEF MemoryInv
      <4> QED
        BY <4>1, <3>2, <1>2 DEF CheckDeclared
    <3> QED
      BY <3>1, <3>2
  <2>3. UNCHANGED <<declared, sent, buffered, total>>
    BY <1>2 DEF CheckDeclared
  <2> QED
    BY <2>1, <2>2, <2>3 DEF MemoryInv, MemoryIsBounded, Bytes
<1>3. CASE ClientLeaves
  BY <1>3 DEF ClientLeaves, MemoryInv, MemoryIsBounded, Bytes
<1>4. CASE BufferMessage
  <2>1. PICK m \in Messages :
          /\ sent' = Append(sent, m) /\ buffered' = Append(buffered, m)
          /\ total' = total + m.body
          /\ pc = "buffering" /\ sent = buffered
          /\ pc' \in {"app", "rejected", "buffering"}
          /\ pc' = "app" => m = Disconnect \/ ~(total' > MaxBytes)
          /\ pc' = "rejected" => total' > MaxBytes
          /\ pc' = "buffering" => ~(total' > MaxBytes)
          /\ declared' = declared
    BY <1>4, BufferMessageStep
  <2>2. total \in Nat /\ total <= MaxBytes /\ total = Bytes(buffered)
    BY <2>1 DEF MemoryInv
  <2>3. total' = Bytes(buffered')
    BY <2>1, <2>2, BytesOfAppend
  <2>4. total' \in Nat /\ total' <= MaxBytes + Max(ChunkSizes)
    BY <2>1, <2>2, OneMore
  <2>5. m = Disconnect => total' = total
    BY <2>1, <2>2, MessageFacts
  <2>6. pc' # "rejected" => total' <= MaxBytes
    BY <2>1, <2>2, <2>4, <2>5, LimitAssumption
  <2>7. sent' = buffered'
    BY <2>1
  <2>8. MemoryIsBounded'
    BY <2>1, <2>3, <2>4, <2>6, <2>7 DEF MemoryIsBounded
  <2> QED
    BY <2>1, <2>3, <2>4, <2>6, <2>8 DEF MemoryInv
<1>5. CASE AppReceive
  <2>1. pc = "app" /\ UNCHANGED <<declared, pc, buffered, total>>
    BY <1>5, AppReceiveStep
  <2> QED
    BY <2>1 DEF MemoryInv, MemoryIsBounded, Bytes
<1>6. CASE /\ pc' = pc \/ (pc # "rejected" /\ pc' \in {"done", "cancelled"})
           /\ UNCHANGED <<declared, gone, sent, buffered, total, read>>
  BY <1>6 DEF MemoryInv, MemoryIsBounded, Bytes
<1> QED
  BY <1>1, <1>2, <1>3, <1>4, <1>5, <1>6, RequestStep

-----------------------------------------------------------------------------
(* The lifespan. *)

\* The type of res, the part of TypeOK the lifespan needs.
ResOK == res \in [Resources -> {"none", "given", "open", "closed"}]

\* The resources are three.
LEMMA ThreeResources ==
    /\ "database" \in Resources /\ "kubernetes" \in Resources /\ "redis" \in Resources
    /\ \A r \in Resources : r = "database" \/ r = "kubernetes" \/ r = "redis"
BY DEF Resources

\* A step outside the lifespan that keeps the phase, or starts to drain.
LEMMA LifeKept ==
    ASSUME ResOK, LifeInv, UNCHANGED <<service, enabled, given, res>>,
           phase' = phase \/ (phase = "serving" /\ phase' = "draining"),
           pc' = pc \/ (phase \in {"serving", "draining"} /\ phase' \in {"serving", "draining"})
                    \/ pc' \notin {"call", "buffering", "app"}
    PROVE  ResOK' /\ LifeInv'
<1>1. ResOK'
  BY DEF ResOK
<1>2. service' = service /\ enabled' = enabled /\ given' = given /\ res' = res
  OBVIOUS
<1>3. Owned' = Owned
  BY <1>2 DEF Owned, Needed
<1>4. phase' \notin {"serving", "draining"} => pc' \notin {"call", "buffering", "app"}
  BY DEF LifeInv
<1>5. phase' = phase \/ (phase = "serving" /\ phase' = "draining")
  OBVIOUS
<1>6. /\ \A r \in Resources : res'[r] = "open" => r \in Owned'
      /\ \A r \in given' : res'[r] = "given"
  BY <1>2, <1>3 DEF LifeInv
<1>7. \A r \in Resources : res'[r] = "closed" =>
        phase' \in {"close_gateway", "dispose_engine", "stopped"}
  BY <1>2, <1>5 DEF LifeInv
<1>8. /\ service' = "runtime" =>
           /\ phase' \in {"load", "serving", "draining", "unready", "stopped"}
           /\ \A r \in Resources : res'[r] = "none"
      /\ phase' \in {"load", "unready"} => service' = "runtime"
  BY <1>2, <1>5 DEF LifeInv
<1>9. /\ phase' \in {"close_gateway", "dispose_engine", "stopped"} => res'["redis"] # "open"
      /\ phase' \in {"dispose_engine", "stopped"} => res'["kubernetes"] # "open"
      /\ phase' = "stopped" => res'["database"] # "open"
  BY <1>2, <1>5 DEF LifeInv
<1>10. /\ service' \in {"api", "runtime"}
       /\ phase' \in {"open_gateway", "open_queue", "serving", "draining", "close_queue",
                      "close_gateway", "dispose_engine", "stopped", "load", "unready"}
  BY <1>2, <1>5 DEF LifeInv
<1> QED
  BY <1>1, <1>4, <1>6, <1>7, <1>8, <1>9, <1>10 DEF LifeInv

\* A step of the control API's lifespan: it opens what it owns, and its clean-up
\* passes a resource only when it is no longer open.
LEMMA LifespanStep ==
    ASSUME ResOK, LifeInv, Lifespan
    PROVE  ResOK' /\ LifeInv'
<1>1. UNCHANGED <<service, enabled, given, pc>>
  BY DEF Lifespan, config, request
<1>2. service = "api"
  BY DEF Lifespan, OpenGateway, OpenQueue, CloseQueue, CloseGateway, DisposeEngine, LifeInv
<1>3. Owned' = Owned /\ (\A r \in Owned : r \notin given)
  BY <1>1 DEF Owned, Needed
<1>4. pc \notin {"call", "buffering", "app"}
  BY DEF Lifespan, OpenGateway, OpenQueue, CloseQueue, CloseGateway, DisposeEngine, LifeInv
<1>5. ASSUME NEW r \in {"kubernetes", "redis"}, NEW next \in {"open_queue", "serving"},
             phase \in {"open_gateway", "open_queue"}, Open(r, next)
      PROVE  ResOK' /\ LifeInv'
  <2>1. phase' \in {"open_queue", "serving", "close_queue"}
    BY <1>5 DEF Open
  <2>2. \A s \in Resources : res[s] # "closed"
    BY <1>5 DEF LifeInv
  <2>3. CASE UNCHANGED res
    BY <2>1, <2>2, <2>3, <1>1, <1>2, <1>3, <1>4 DEF LifeInv, ResOK
  <2>4. CASE r \in Owned /\ res' = [res EXCEPT ![r] = "open"]
    <3>1. ResOK'
      BY <2>4, ThreeResources DEF ResOK
    <3>2. \A s \in Resources : res'[s] = IF s = r THEN "open" ELSE res[s]
      BY <2>4 DEF ResOK
    <3>3. \A s \in given : res'[s] = "given"
      BY <2>4, <1>3 DEF LifeInv, ResOK
    <3> QED
      BY <3>1, <3>2, <3>3, <2>1, <2>2, <2>4, <1>1, <1>2, <1>3, <1>4 DEF LifeInv
  <2> QED
    BY <2>3, <2>4, <1>5 DEF Open
<1>6. ASSUME NEW r \in Resources, NEW next, Close(r, next),
             \/ r = "redis" /\ phase = "close_queue" /\ next = "close_gateway"
             \/ r = "kubernetes" /\ phase = "close_gateway" /\ next = "dispose_engine"
             \/ r = "database" /\ phase = "dispose_engine" /\ next = "stopped"
      PROVE  ResOK' /\ LifeInv'
  <2>1. phase' = next
    BY <1>6 DEF Close
  <2>2. \A s \in Resources :
          res'[s] = IF s = r /\ res[s] = "open" THEN "closed" ELSE res[s]
    BY <1>6 DEF Close, ResOK, LifeInv
  <2>3. ResOK'
    BY <1>6 DEF Close, ResOK
  <2>4. res'[r] # "open"
    BY <2>2
  <2>5. \A s \in given : res'[s] = "given"
    <3>1. \A s \in given : s # r \/ r \notin Owned
      BY <1>3
    <3> QED
      BY <3>1, <1>6 DEF Close, ResOK, LifeInv
  <2>6. phase' \in {"close_gateway", "dispose_engine", "stopped"}
    BY <2>1, <1>6
  <2>7. /\ phase' \in {"close_gateway", "dispose_engine", "stopped"} => res'["redis"] # "open"
        /\ phase' \in {"dispose_engine", "stopped"} => res'["kubernetes"] # "open"
        /\ phase' = "stopped" => res'["database"] # "open"
    BY <2>1, <2>2, <2>4, <1>6, ThreeResources DEF LifeInv
  <2>8. \A s \in Resources : res'[s] = "open" => s \in Owned
    BY <2>2 DEF LifeInv
  <2> QED
    BY <2>3, <2>5, <2>6, <2>7, <2>8, <1>1, <1>2, <1>3, <1>4 DEF LifeInv
<1> QED
  BY <1>5, <1>6, ThreeResources
     DEF Lifespan, OpenGateway, OpenQueue, CloseQueue, CloseGateway, DisposeEngine

\* Every step keeps the lifespan's invariant.
LEMMA LifeStep ==
    ASSUME ResOK, LifeInv, [Next]_vars
    PROVE  ResOK' /\ LifeInv'
<1>1. CASE UNCHANGED vars
  BY <1>1, LifeKept DEF vars, config, life, request
<1>2. CASE Lifespan
  BY <1>2, LifespanStep
<1>3. CASE RuntimeLifespan
  <2>1. UNCHANGED <<service, enabled, given, res, pc>>
    BY <1>3 DEF RuntimeLifespan, config, request
  <2>2. service = "runtime" /\ phase \in {"load", "unready"} /\ phase' \in {"serving", "stopped"}
    BY <1>3 DEF RuntimeLifespan, LifeInv
  <2>3. \A r \in Resources : res[r] = "none"
    BY <2>2 DEF LifeInv
  <2>4. pc \notin {"call", "buffering", "app"}
    BY <2>2 DEF LifeInv
  <2> QED
    BY <2>1, <2>2, <2>3, <2>4, ThreeResources DEF LifeInv, ResOK, Owned, Needed
<1>4. CASE Signal
  BY <1>4, LifeKept DEF Signal, config, request
<1>5. CASE Drained
  <2>1. UNCHANGED <<service, enabled, given, res>> /\ phase = "draining"
    BY <1>5 DEF Drained, config
  <2>2. pc' \notin {"call", "buffering", "app"}
    BY <1>5 DEF Drained
  <2>3. IF service = "api" THEN phase' = "close_queue" ELSE phase' = "unready"
    BY <1>5 DEF Drained
  <2>4. \A r \in Resources : res[r] # "closed"
    BY <2>1 DEF LifeInv
  <2> QED
    BY <2>1, <2>2, <2>3, <2>4 DEF LifeInv, ResOK, Owned, Needed
<1>6. CASE Accept
  BY <1>6, LifeKept DEF Accept, config, life
<1>7. CASE Middleware
  <2>1. UNCHANGED <<service, enabled, given, res, phase>>
    BY <1>7 DEF Middleware, config, life
  <2>2. pc \in {"call", "buffering", "app"}
    BY <1>7 DEF Middleware, CheckDeclared, BufferMessage, ClientLeaves
  <2>3. phase \in {"serving", "draining"}
    BY <2>2 DEF LifeInv
  <2> QED
    BY <2>1, <2>3, LifeKept
<1>8. CASE Endpoint
  <2>1. UNCHANGED <<service, enabled, given, res, phase>>
    BY <1>8 DEF Endpoint, config, life
  <2>2. pc' = pc \/ pc' = "done"
    BY <1>8 DEF Endpoint, AppReceive
  <2> QED
    BY <2>1, <2>2, LifeKept
<1>9. CASE ReadyBegin \/ \E d \in Needed : Flip(d)
  BY <1>9, LifeKept DEF ReadyBegin, Flip, config, life, request
<1>10. CASE Ready
  BY <1>10, LifeKept DEF Ready, config, life
<1> QED
  BY <1>1, <1>2, <1>3, <1>4, <1>5, <1>6, <1>7, <1>8, <1>9, <1>10 DEF Next

-----------------------------------------------------------------------------
(* Readiness. *)

\* The rest of TypeOK: what readiness is made of.
ReadyOK ==
    /\ {down, seenUp} \subseteq SUBSET Resources
    /\ response \in Resources \cup {"ready"} \/ (response = "" /\ (path = "ready" => pc # "done"))
    /\ dependency \in Resources \cup {""}

\* None of the dependencies is called "" or "ready".
LEMMA Names == "" \notin Resources /\ "ready" \notin Resources
BY DEF Resources

\* A step outside ready() leaves its variables, and does not bring an answered
\* request back.
LEMMA CheckKept ==
    ASSUME ReadyOK, CheckInv, UNCHANGED <<enabled, given, down, dependency, response, seenUp>>,
           path' = path \/ (pc = "none" /\ pc' = "call"),
           pc' = pc \/ (dependency = "" /\ pc \in {"none", "call", "buffering", "app"}),
           pc' = "done" => pc = "done" \/ path' = "other"
    PROVE  ReadyOK' /\ CheckInv'
<1>1. /\ enabled' = enabled /\ given' = given /\ down' = down /\ dependency' = dependency
      /\ response' = response /\ seenUp' = seenUp
  OBVIOUS
<1>2. Needed' = Needed /\ Before(dependency)' = Before(dependency)
  BY <1>1 DEF Needed, Before
<1>3. ReadinessIsTruthful'
  BY <1>1, <1>2 DEF CheckInv, ReadinessIsTruthful
<1>4. response = "" /\ path' = "ready" => pc' # "done"
  BY Names DEF ReadyOK
<1>5. ReadyOK'
  BY <1>1, <1>4 DEF ReadyOK
<1>6. pc' \in {"none", "call", "buffering", "app"} => response' = ""
  BY <1>1 DEF CheckInv
<1>7. dependency' # "" =>
        /\ pc' = "app" /\ path' = "ready" /\ dependency' \in Needed'
        /\ Needed' \ down' \subseteq seenUp' /\ Before(dependency)' \subseteq seenUp'
  BY <1>1, <1>2 DEF CheckInv
<1> QED
  BY <1>1, <1>3, <1>5, <1>6, <1>7 DEF CheckInv

\* What was checked when ready() goes on to the next dependency, or is through.
LEMMA AfterBefore ==
    ASSUME enabled \subseteq {"kubernetes", "redis"}, NEW d \in Needed
    PROVE  /\ After(d) \in Needed \cup {""}
           /\ After(d) # "" => Before(After(d)) \subseteq Before(d) \cup {d}
           /\ After(d) = "" => Needed \subseteq Before(d) \cup {d}
<1>1. CASE d = "database"
  <2>1. CASE "kubernetes" \in enabled
    <3>1. After(d) = "kubernetes" /\ "kubernetes" \in Needed
      BY <2>1, <1>1 DEF After, Needed
    <3>2. Before(After(d)) = {"database"}
      BY <3>1 DEF Before
    <3> QED
      BY <3>1, <3>2, <1>1
  <2>2. CASE "kubernetes" \notin enabled /\ "redis" \in enabled
    <3>1. After(d) = "redis" /\ Needed \ {"redis"} \subseteq {"database"}
      BY <2>2, <1>1 DEF After, Needed
    <3>2. Before(After(d)) = Needed \ {"redis"} /\ "redis" \in Needed
      BY <3>1, <2>2 DEF Before, Needed
    <3> QED
      BY <3>1, <3>2, <1>1
  <2>3. CASE "kubernetes" \notin enabled /\ "redis" \notin enabled
    BY <2>3, <1>1 DEF After, Before, Needed
  <2> QED
    BY <2>1, <2>2, <2>3
<1>2. CASE d = "kubernetes"
  BY <1>2 DEF After, Before, Needed
<1>3. CASE d = "redis"
  BY <1>3 DEF After, Before, Needed
<1> QED
  BY <1>1, <1>2, <1>3 DEF Needed

\* Every step keeps the readiness invariant.
LEMMA CheckStep ==
    ASSUME ReadyOK, CheckInv, [Next]_vars
    PROVE  ReadyOK' /\ CheckInv'
<1>1. CASE UNCHANGED vars
  BY <1>1, CheckKept DEF vars, config, check, request
<1>2. CASE Lifespan \/ RuntimeLifespan \/ Signal
  BY <1>2, CheckKept DEF Lifespan, RuntimeLifespan, Signal, config, check, request
<1>3. CASE Drained
  <2>1. /\ UNCHANGED <<enabled, given, down, path, response, seenUp>> /\ dependency' = ""
        /\ pc' = pc \/ pc' = "cancelled"
    BY <1>3 DEF Drained, config
  <2>2. Needed' = Needed
    BY <2>1 DEF Needed
  <2>3. ReadinessIsTruthful'
    BY <2>1, <2>2 DEF CheckInv, ReadinessIsTruthful
  <2>4. ReadyOK'
    BY <2>1 DEF ReadyOK
  <2> QED
    BY <2>1, <2>3, <2>4 DEF CheckInv
<1>4. CASE Accept
  <2>1. UNCHANGED <<enabled, given, down, dependency, response, seenUp>>
    BY <1>4 DEF Accept, config
  <2>2. pc = "none" /\ pc' = "call"
    BY <1>4 DEF Accept, Arrive
  <2>3. dependency = ""
    BY <2>2 DEF CheckInv
  <2> QED
    BY <2>1, <2>2, <2>3, CheckKept
<1>5. CASE Middleware
  <2>1. UNCHANGED <<enabled, given, down, dependency, response, seenUp, path>>
    BY <1>5 DEF Middleware, config, check
  <2>2. \/ pc' = pc
        \/ pc \in {"call", "buffering"} /\ pc' \in {"rejected", "buffering", "app"}
    BY <1>5 DEF Middleware, CheckDeclared, BufferMessage, ClientLeaves
  <2>3. pc \in {"call", "buffering"} => dependency = ""
    BY DEF CheckInv
  <2> QED
    BY <2>1, <2>2, <2>3, CheckKept
<1>6. CASE Endpoint
  <2>1. UNCHANGED <<enabled, given, down, dependency, response, seenUp, path>> /\ path = "other"
    BY <1>6 DEF Endpoint, config, check
  <2>2. pc = "app" /\ pc' \in {"app", "done"}
    BY <1>6 DEF Endpoint, AppReceive
  <2>3. dependency = ""
    BY <2>1 DEF CheckInv
  <2> QED
    BY <2>1, <2>2, <2>3, CheckKept
<1>7. CASE ReadyBegin
  <2>1. /\ UNCHANGED <<enabled, given, pc, path, response>> /\ pc = "app" /\ path = "ready"
        /\ dependency' = "database" /\ down' \subseteq Needed /\ seenUp' = Needed \ down'
    BY <1>7 DEF ReadyBegin, config, request
  <2>2. Needed' = Needed /\ "database" \in Needed /\ Needed \subseteq Resources
    BY <2>1 DEF Needed, CheckInv, Resources
  <2>3. response = "" /\ response' = ""
    BY <2>1 DEF CheckInv
  <2>4. ReadyOK'
    BY <2>1, <2>2, <2>3 DEF ReadyOK
  <2>5. ReadinessIsTruthful'
    BY <2>3, Names DEF ReadinessIsTruthful
  <2>6. Before(dependency)' = {}
    BY <2>1 DEF Before
  <2> QED
    BY <2>1, <2>2, <2>3, <2>4, <2>5, <2>6 DEF CheckInv
<1>8. CASE Ready
  <2>1. /\ UNCHANGED <<enabled, given, down, path, seenUp>> /\ pc = "app" /\ dependency # ""
        /\ pc' = IF dependency' = "" THEN "done" ELSE pc
    BY <1>8 DEF Ready, config
  <2>2. Needed' = Needed /\ Needed \subseteq Resources
    BY <2>1 DEF Needed, CheckInv, Resources
  <2>3. /\ path = "ready" /\ dependency \in Needed /\ enabled \subseteq {"kubernetes", "redis"}
        /\ Needed \ down \subseteq seenUp /\ Before(dependency) \subseteq seenUp
    BY <2>1 DEF CheckInv
  <2>4. CASE FailsOrTimesOut
    <3>1. response' = dependency /\ dependency' = "" /\ pc' = "done"
      BY <2>1, <2>4 DEF FailsOrTimesOut
    <3>2. dependency \in Resources /\ dependency # "ready"
      BY <2>2, <2>3, Names
    <3>3. ReadyOK'
      BY <2>1, <3>1, <3>2 DEF ReadyOK
    <3>4. ReadinessIsTruthful'
      BY <2>2, <2>3, <2>1, <3>1, <3>2 DEF ReadinessIsTruthful, Before
    <3> QED
      BY <2>1, <3>1, <3>3, <3>4 DEF CheckInv
  <2>5. CASE Answers
    <3>1. /\ dependency \notin down /\ dependency' = After(dependency)
          /\ response' = IF dependency' = "" THEN "ready" ELSE ""
      BY <2>5 DEF Answers, check_ready
    <3>2. Before(dependency) \cup {dependency} \subseteq seenUp
      BY <2>3, <3>1
    <3>3. /\ dependency' \in Needed \cup {""}
          /\ dependency' # "" => Before(dependency') \subseteq seenUp
          /\ dependency' = "" => Needed \subseteq seenUp
      BY <3>1, <3>2, <2>3, AfterBefore
    <3>4. Before(dependency)' = Before(dependency')
      BY <2>2 DEF Before
    <3>5. ReadyOK'
      BY <2>1, <2>2, <3>1, <3>3 DEF ReadyOK
    <3>6. ReadinessIsTruthful'
      BY <2>1, <2>2, <3>1, <3>3, Names DEF ReadinessIsTruthful
    <3>7. pc' \in {"none", "call", "buffering", "app"} => response' = ""
      BY <2>1, <3>1
    <3> QED
      BY <2>1, <2>2, <2>3, <3>3, <3>4, <3>5, <3>6, <3>7 DEF CheckInv
  <2> QED
    BY <2>4, <2>5, <1>8 DEF Ready
<1>9. CASE \E d \in Needed : Flip(d)
  <2>1. PICK d \in Needed : Flip(d)
    BY <1>9
  <2>2. /\ UNCHANGED <<enabled, given, path, dependency, response, pc>>
        /\ seenUp' = seenUp \cup (Needed \ down')
        /\ down' = IF d \in down THEN down \ {d} ELSE down \cup {d}
        /\ dependency # ""
    BY <2>1 DEF Flip, config, request
  <2>3. Needed' = Needed /\ Before(dependency)' = Before(dependency) /\ Needed \subseteq Resources
    BY <2>2 DEF Needed, Before, CheckInv, Resources
  <2>4. seenUp \subseteq seenUp' /\ Needed \ down' \subseteq seenUp'
    BY <2>2
  <2>5. ReadyOK'
    BY <2>1, <2>2, <2>3 DEF ReadyOK
  <2>6. response' = ""
    BY <2>2 DEF CheckInv
  <2>7. ReadinessIsTruthful'
    BY <2>6, Names DEF ReadinessIsTruthful
  <2> QED
    BY <2>2, <2>3, <2>4, <2>5, <2>6, <2>7 DEF CheckInv
<1> QED
  BY <1>1, <1>2, <1>3, <1>4, <1>5, <1>6, <1>7, <1>8, <1>9 DEF Next

-----------------------------------------------------------------------------
(* The theorems. *)

\* The initial states satisfy the invariant.
LEMMA InitInv ==
    ASSUME Init
    PROVE  Inv
<1>1. SequencesOK /\ BodyInv
  <2>1. sent = <<>> /\ buffered = <<>> /\ read = <<>> /\ pc = "none"
    BY DEF Init, RequestInit
  <2>2. SequencesOK
    BY <2>1 DEF SequencesOK
  <2> QED
    BY <2>1, <2>2 DEF BodyInv
<1>2. MemoryInv
  <2>1. declared = <<>> /\ sent = <<>> /\ buffered = <<>> /\ total = 0 /\ pc = "none"
    BY DEF Init, RequestInit
  <2> QED
    BY <2>1, BytesOfNothing, LargestChunk, LimitAssumption DEF MemoryInv, MemoryIsBounded
<1>3. ResOK
  BY DEF Init, ResOK
<1>4. LifeInv
  <2>1. \A r \in Resources :
          res[r] = CASE service = "runtime" -> "none"
                     [] r \in given -> "given"
                     [] OTHER -> IF r = "database" THEN "open" ELSE "none"
    BY DEF Init
  <2>2. pc = "none" /\ service \in {"api", "runtime"} /\ given \subseteq Resources
    BY DEF Init, RequestInit
  <2>3. CASE service = "runtime"
    <3>1. phase = "load" /\ given = {} /\ \A r \in Resources : res[r] = "none"
      BY <2>1, <2>3 DEF Init
    <3> QED
      BY <3>1, <2>2, <2>3 DEF LifeInv
  <2>4. CASE service = "api"
    <3>1. phase = "open_gateway"
      BY <2>4 DEF Init
    <3>2. \A r \in Resources :
            IF r \in given THEN res[r] = "given"
            ELSE res[r] = IF r = "database" THEN "open" ELSE "none"
      BY <2>1, <2>4
    <3> QED
      BY <3>1, <3>2, <2>2, <2>4 DEF LifeInv, Owned, Needed
  <2> QED
    BY <2>2, <2>3, <2>4
<1>5. ReadyOK /\ CheckInv
  BY Names DEF Init, RequestInit, ReadyOK, CheckInv, ReadinessIsTruthful
<1>6. TypeOK
  BY <1>1, <1>3, <1>5 DEF TypeOK, SequencesOK, ResOK, ReadyOK
<1> QED
  BY <1>1, <1>2, <1>4, <1>5, <1>6 DEF Inv

\* TypeOK is the types of the three parts.
LEMMA TypeParts == TypeOK <=> SequencesOK /\ ResOK /\ ReadyOK
BY DEF TypeOK, SequencesOK, ResOK, ReadyOK

\* Every step keeps the invariant.
LEMMA NextInv ==
    ASSUME Inv, [Next]_vars
    PROVE  Inv'
<1>1. SequencesOK /\ ResOK /\ ReadyOK /\ BodyInv /\ MemoryInv /\ LifeInv /\ CheckInv
  BY TypeParts DEF Inv
<1>2. SequencesOK' /\ BodyInv'
  BY <1>1, BodyStep
<1>3. MemoryInv'
  BY <1>1, MemoryStep
<1>4. ResOK' /\ LifeInv'
  BY <1>1, LifeStep
<1>5. ReadyOK' /\ CheckInv'
  BY <1>1, CheckStep
<1>6. TypeOK'
  BY <1>2, <1>4, <1>5 DEF TypeOK, SequencesOK, ResOK, ReadyOK
<1> QED
  BY <1>2, <1>3, <1>4, <1>5, <1>6 DEF Inv

\* The inductive invariant holds in every reachable state of the application.
THEOREM Invariance == Spec => []Inv
<1>1. Spec => Init /\ [][Next]_vars
  BY PTL DEF Spec
<1> QED
  BY <1>1, InitInv, NextInv, PTL

\* The variables keep their types, and a readiness request that is done has its
\* answer (ready() of both branches returns one).
THEOREM TypeOKHolds == Spec => []TypeOK
<1>1. Inv => TypeOK
  BY DEF Inv
<1> QED
  BY <1>1, Invariance, PTL

\* For every limit and chunking: whatever the client sends and whenever it leaves,
\* the application of either service reads a prefix of the body that was sent, and
\* sees its end only where it is (_replay, both middlewares).
THEOREM AppReadsTheBodyHolds == Spec => []AppReadsTheBody
<1>1. Inv => AppReadsTheBody
  BY BodyInvGives, TypeParts DEF Inv
<1> QED
  BY <1>1, Invariance, PTL

\* For every limit: __call__ buffers at most one message more than it, gives the
\* application no larger body, and rejects no smaller one.
THEOREM MemoryIsBoundedHolds == Spec => []MemoryIsBounded
<1>1. Inv => MemoryIsBounded
  BY DEF Inv, MemoryInv
<1> QED
  BY <1>1, Invariance, PTL

\* However opening or closing fails, an ended lifespan leaves nothing open that it
\* opened and touches nothing it was given, and no request outlives a resource.
THEOREM EverythingIsClosedHolds == Spec => []EverythingIsClosed
<1>1. Inv => EverythingIsClosed
  <2>1. SUFFICES ASSUME Inv  PROVE EverythingIsClosed
    OBVIOUS
  <2>2. LifeInv
    BY <2>1 DEF Inv
  <2>3. phase = "stopped" => \A r \in Resources : res[r] # "open"
    BY <2>2, ThreeResources DEF LifeInv
  <2>4. \A r \in given : res[r] = "given"
    BY <2>2 DEF LifeInv
  <2>5. (\E r \in Resources : res[r] = "closed") => pc \notin {"call", "buffering", "app"}
    BY <2>2 DEF LifeInv
  <2> QED
    BY <2>3, <2>4, <2>5 DEF EverythingIsClosed
<1> QED
  BY <1>1, Invariance, PTL

\* Dependencies may fail and heal at any moment: "ready" means each was up during
\* the request, and a 503 names one that is enabled after those before it were up.
THEOREM ReadinessIsTruthfulHolds == Spec => []ReadinessIsTruthful
<1>1. Inv => ReadinessIsTruthful
  BY DEF Inv, CheckInv
<1> QED
  BY <1>1, Invariance, PTL
=============================================================================
