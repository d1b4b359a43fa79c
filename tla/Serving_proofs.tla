--------------------------- MODULE Serving_proofs ---------------------------
(***************************************************************************)
(* What a rolling update promises, for any versions, images and number of  *)
(* replicas.                                                               *)
(***************************************************************************)
EXTENDS Serving, FiniteSetTheorems, TLAPS

Serves == {"ready", "leaving", "stopping"}

\* A pod that has ever been ready runs an image of its version.
PodInv ==
    /\ pods \in [Versions \X Phases -> Nat] /\ crashes \in Nat
    /\ \A v \in Versions, p \in Serves : pods[<<v, p>>] > 0 => Baked[v] = v

Deployments ==
    [gen: Nat, version: Versions,
     status: [observed: Nat, replicas: Nat, updated: Nat, ready: Nat]]

\* A Deployment whose status is of no later generation, and whose counts speak of
\* an available version only if that version starts.
Sound(d) ==
    /\ d \in Deployments /\ d.status.observed <= d.gen
    /\ Available(d) => Baked[d.version] = d.version

\* So are the Deployment and the reconciler's copy of it.
Inv ==
    /\ PodInv
    /\ specs \in Seq(Versions) /\ seen \in 1..Len(specs)
    /\ Sound(dep) /\ Sound(view)

-----------------------------------------------------------------------------
(* Pods. *)

\* The phases are four, and three of them follow readiness.
LEMMA PhaseFacts ==
    /\ Serves \subseteq Phases
    /\ {"starting", "ready", "leaving", "stopping"} \subseteq Phases
    /\ "starting" \notin Serves
BY DEF Serves, Phases

\* A pod that goes.
LEMMA Gone ==
    ASSUME PodInv, NEW v \in Versions, NEW p \in Phases, pods[<<v, p>>] > 0,
           pods' = [pods EXCEPT ![<<v, p>>] = @ - 1]
    PROVE  /\ pods' \in [Versions \X Phases -> Nat]
           /\ \A k \in Versions \X Phases :
                pods'[k] = IF k = <<v, p>> THEN pods[k] - 1 ELSE pods[k]
<1>1. <<v, p>> \in Versions \X Phases /\ pods \in [Versions \X Phases -> Nat]
  BY DEF PodInv
<1>2. pods[<<v, p>>] - 1 \in Nat
  BY <1>1
<1> QED
  BY <1>1, <1>2

\* A pod that changes its phase.
LEMMA Moved ==
    ASSUME PodInv, NEW v \in Versions, NEW from \in Phases, NEW to \in Phases, from # to,
           pods[<<v, from>>] > 0, pods' = Move(v, from, to)
    PROVE  /\ pods' \in [Versions \X Phases -> Nat]
           /\ \A k \in Versions \X Phases :
                pods'[k] = IF k = <<v, from>> THEN pods[k] - 1
                           ELSE IF k = <<v, to>> THEN pods[k] + 1 ELSE pods[k]
<1> DEFINE less == [pods EXCEPT ![<<v, from>>] = @ - 1]
<1>1. /\ <<v, from>> \in Versions \X Phases /\ <<v, to>> \in Versions \X Phases
      /\ <<v, from>> # <<v, to>> /\ pods \in [Versions \X Phases -> Nat]
  BY DEF PodInv
<1>2. pods[<<v, from>>] - 1 \in Nat
  BY <1>1
<1>3. /\ less \in [Versions \X Phases -> Nat]
      /\ \A k \in Versions \X Phases :
           less[k] = IF k = <<v, from>> THEN pods[k] - 1 ELSE pods[k]
  BY <1>1, <1>2
<1>4. pods' = [less EXCEPT ![<<v, to>>] = @ + 1]
  BY DEF Move
<1> HIDE DEF less
<1>5. less[<<v, to>>] + 1 \in Nat
  BY <1>1, <1>3
<1>6. pods' \in [Versions \X Phases -> Nat]
  BY <1>1, <1>3, <1>4, <1>5
<1>7. \A k \in Versions \X Phases :
        pods'[k] = IF k = <<v, to>> THEN less[k] + 1 ELSE less[k]
  BY <1>1, <1>3, <1>4
<1> QED
  BY <1>1, <1>3, <1>6, <1>7

\* The steps of Kubernetes that change pods, one by one.
KubernetesStep ==
    \/ UNCHANGED <<pods, crashes>>
    \/ pods' = [pods EXCEPT ![<<dep.version, "starting">>] = @ + 1] /\ UNCHANGED crashes
    \/ \E v \in Versions, p \in Phases \ {"ready"} :
         pods[<<v, p>>] > 0 /\ pods' = [pods EXCEPT ![<<v, p>>] = @ - 1] /\ UNCHANGED crashes
    \/ \E v \in Versions :
         \/ /\ pods[<<v, "ready">>] > 0 /\ Count(Versions, {"ready"}) > MinAvailable
            /\ pods' = Move(v, "ready", "leaving") /\ UNCHANGED crashes
         \/ /\ pods[<<v, "starting">>] > 0 /\ RuntimeStarts(v)
            /\ pods' = Move(v, "starting", "ready") /\ UNCHANGED crashes
         \/ /\ pods[<<v, "ready">>] > 0
            /\ pods' = Move(v, "ready", "starting") /\ crashes' = crashes + 1
         \/ /\ pods[<<v, "leaving">>] > 0
            /\ pods' = Move(v, "leaving", "stopping") /\ UNCHANGED crashes

\* There are no others.
LEMMA PodSteps ==
    ASSUME [Next]_vars
    PROVE  KubernetesStep
<1>1. CASE Kubernetes
  <2>1. CASE CreatePod \/ SyncStatus
    BY <2>1 DEF CreatePod, SyncStatus, KubernetesStep
  <2>2. ASSUME NEW v \in Versions, ScaleDown(v) \/ PodReady(v) \/ Crash(v) \/ PodStops(v)
        PROVE  KubernetesStep
    <3>1. "starting" \in Phases \ {"ready"} /\ "stopping" \in Phases \ {"ready"}
      BY DEF Phases
    <3>2. CASE ScaleDown(v)
      BY <3>1, <3>2 DEF ScaleDown, KubernetesStep
    <3>3. CASE PodReady(v)
      BY <3>3 DEF PodReady, KubernetesStep
    <3>4. CASE Crash(v)
      BY <3>4 DEF Crash, KubernetesStep
    <3>5. CASE PodStops(v)
      BY <3>1, <3>5 DEF PodStops, KubernetesStep
    <3> QED
      BY <3>2, <3>3, <3>4, <3>5, <2>2
  <2> QED
    BY <2>1, <2>2, <1>1 DEF Kubernetes
<1>2. CASE WatchSpec \/ WatchDeployment \/ Reconcile
  BY <1>2 DEF WatchSpec, WatchDeployment, Reconcile, cluster, KubernetesStep
<1>3. CASE Client
  BY <1>3 DEF Client, InferRoute, EnqueueRoute, ProxyPost, ProcessJob, Ask, Post, cluster,
              KubernetesStep
<1>4. CASE (\E v \in Versions : Put(v)) \/ UNCHANGED vars
  BY <1>4 DEF Put, vars, cluster, KubernetesStep
<1> QED
  BY <1>1, <1>2, <1>3, <1>4 DEF Next

-----------------------------------------------------------------------------
(* The pods of versions that start. *)

\* The initial pods are of a version whose image is its own.
LEMMA InitPods ==
    ASSUME Init
    PROVE  PodInv
<1>1. First \in Versions /\ Baked[First] = First
  BY ServingAssumption DEF First
<1>2. pods = [k \in Versions \X Phases |-> IF k = <<First, "ready">> THEN Replicas ELSE 0]
  BY DEF Init
<1>3. pods \in [Versions \X Phases -> Nat]
  BY <1>2, ServingAssumption
<1>4. ASSUME NEW v \in Versions, NEW p \in Serves, pods[<<v, p>>] > 0
      PROVE  Baked[v] = v
  <2>1. <<v, p>> \in Versions \X Phases
    BY PhaseFacts
  <2>2. <<v, p>> = <<First, "ready">>
    BY <2>1, <1>2, <1>4
  <2> QED
    BY <2>2, <1>1
<1>5. crashes \in Nat
  BY DEF Init
<1> QED
  BY <1>3, <1>4, <1>5 DEF PodInv

\* A pod is ready only when its runtime has started, and only a ready one goes on
\* to leave and to stop.
LEMMA PodsKept ==
    ASSUME PodInv, [Next]_vars
    PROVE  /\ pods' \in [Versions \X Phases -> Nat] /\ crashes' \in Nat
           /\ \A v \in Versions, p \in Serves : pods'[<<v, p>>] > 0 => Baked[v] = v
<1> DEFINE Typed == pods' \in [Versions \X Phases -> Nat]
           Held == \A v \in Versions, p \in Serves : pods'[<<v, p>>] > 0 => Baked[v] = v
<1>1. /\ pods \in [Versions \X Phases -> Nat] /\ crashes \in Nat
      /\ \A v \in Versions, p \in Serves : pods[<<v, p>>] > 0 => Baked[v] = v
  BY DEF PodInv
<1>2. \A v \in Versions, p \in Serves : <<v, p>> \in Versions \X Phases
  BY PhaseFacts
<1>3. crashes' \in Nat
  <2>1. crashes' = crashes \/ crashes' = crashes + 1
    BY PodSteps, Zenon DEF KubernetesStep
  <2> QED
    BY <2>1, <1>1
<1>4. CASE UNCHANGED pods
  BY <1>1, <1>3, <1>4
<1>5. CASE pods' = [pods EXCEPT ![<<dep.version, "starting">>] = @ + 1]
  <2>1. Typed
    <3> DEFINE key == <<dep.version, "starting">>
    <3> HIDE DEF key
    <3>1. pods' = [pods EXCEPT ![key] = @ + 1]
      BY <1>5 DEF key
    <3>2. CASE key \in Versions \X Phases
      <4>1. pods[key] + 1 \in Nat
        BY <3>2, <1>1
      <4> QED
        BY <4>1, <3>1, <1>1
    <3>3. CASE key \notin Versions \X Phases
      BY <3>1, <3>3, <1>1
    <3> QED
      BY <3>2, <3>3
  <2>2. \A v \in Versions, p \in Serves : pods'[<<v, p>>] = pods[<<v, p>>]
    <3>1. \A v \in Versions, p \in Serves : <<v, p>> # <<dep.version, "starting">>
      BY PhaseFacts
    <3> QED
      BY <3>1, <1>1, <1>2, <1>5
  <2> QED
    BY <2>1, <2>2, <1>1, <1>3
<1>6. ASSUME NEW v \in Versions, NEW p \in Phases, pods[<<v, p>>] > 0,
             pods' = [pods EXCEPT ![<<v, p>>] = @ - 1]
      PROVE  Typed /\ Held
  <2>1. Typed /\ \A k \in Versions \X Phases :
          pods'[k] = IF k = <<v, p>> THEN pods[k] - 1 ELSE pods[k]
    BY <1>6, Gone
  <2>2. \A k \in Versions \X Phases : pods'[k] > 0 => pods[k] > 0
    BY <2>1, <1>1
  <2> QED
    BY <2>1, <2>2, <1>1, <1>2
<1>7. ASSUME NEW v \in Versions, NEW from \in Phases, NEW to \in Phases, from # to,
             pods[<<v, from>>] > 0, pods' = Move(v, from, to),
             to \in Serves => Baked[v] = v
      PROVE  Typed /\ Held
  <2>1. Typed /\ \A k \in Versions \X Phases :
          pods'[k] = IF k = <<v, from>> THEN pods[k] - 1
                     ELSE IF k = <<v, to>> THEN pods[k] + 1 ELSE pods[k]
    BY <1>7, Moved DEF Move
  <2>2. \A k \in Versions \X Phases : pods'[k] > 0 => pods[k] > 0 \/ k = <<v, to>>
    BY <2>1, <1>1
  <2>3. ASSUME NEW w \in Versions, NEW p \in Serves, pods'[<<w, p>>] > 0
        PROVE  Baked[w] = w
    <3>1. pods[<<w, p>>] > 0 \/ (w = v /\ p = to)
      BY <2>2, <2>3, <1>2
    <3> QED
      BY <3>1, <1>1, <1>7
  <2> QED
    BY <2>1, <2>3
<1>8. \A v \in Versions : pods[<<v, "ready">>] > 0 \/ pods[<<v, "leaving">>] > 0 => Baked[v] = v
  BY <1>1 DEF Serves
<1>9. ASSUME NEW v \in Versions,
             \/ pods[<<v, "ready">>] > 0 /\ pods' = Move(v, "ready", "leaving")
             \/ /\ pods[<<v, "starting">>] > 0 /\ RuntimeStarts(v)
                /\ pods' = Move(v, "starting", "ready")
             \/ pods[<<v, "ready">>] > 0 /\ pods' = Move(v, "ready", "starting")
             \/ pods[<<v, "leaving">>] > 0 /\ pods' = Move(v, "leaving", "stopping")
      PROVE  Typed /\ Held
  <2>1. CASE pods[<<v, "ready">>] > 0 /\ pods' = Move(v, "ready", "leaving")
    BY <2>1, <1>7, <1>8, PhaseFacts
  <2>2. CASE /\ pods[<<v, "starting">>] > 0 /\ RuntimeStarts(v)
             /\ pods' = Move(v, "starting", "ready")
    BY <2>2, <1>7, PhaseFacts DEF RuntimeStarts
  <2>3. CASE pods[<<v, "ready">>] > 0 /\ pods' = Move(v, "ready", "starting")
    BY <2>3, <1>7, PhaseFacts
  <2>4. CASE pods[<<v, "leaving">>] > 0 /\ pods' = Move(v, "leaving", "stopping")
    BY <2>4, <1>7, <1>8, PhaseFacts
  <2> QED
    BY <2>1, <2>2, <2>3, <2>4, <1>9
<1> HIDE DEF Typed, Held
<1>10. Typed /\ Held
  <2>1. KubernetesStep
    BY PodSteps
  <2> QED
    BY <2>1, <1>4, <1>5, <1>6, <1>9 DEF KubernetesStep, Typed, Held
<1> QED
  BY <1>3, <1>10 DEF Typed, Held

\* Pods are of their versions, in every reachable state.
LEMMA PodInvariance == Spec => []PodInv
<1>1. ASSUME PodInv, [Next]_vars  PROVE PodInv'
  BY <1>1, PodsKept DEF PodInv
<1>2. Spec => Init /\ [][Next]_vars
  BY PTL DEF Spec
<1> QED
  BY <1>1, <1>2, InitPods, PTL

-----------------------------------------------------------------------------
(* Availability. *)

\* The pods of finitely many kinds are finitely many.
LEMMA CountedFinite ==
    ASSUME NEW ps \in [Versions \X Phases -> Nat],
           NEW K \in SUBSET (Versions \X Phases), IsFiniteSet(K)
    PROVE  IsFiniteSet(UNION {{k} \X (1..ps[k]) : k \in K})
<1> DEFINE family == {{k} \X (1..ps[k]) : k \in K}
           f == [k \in K |-> {k} \X (1..ps[k])]
<1>1. f \in Surjection(K, family)
  BY DEF Surjection
<1>2. IsFiniteSet(family)
  <2> HIDE DEF f, family
  <2> QED
    BY <1>1, FS_Surjection
<1>3. ASSUME NEW k \in K  PROVE IsFiniteSet({k} \X (1..ps[k]))
  <2>1. ps[k] \in Nat
    OBVIOUS
  <2>2. IsFiniteSet(1..ps[k])
    <3> DEFINE n == ps[k]
    <3>1. 1 \in Int /\ n \in Int
      BY <2>1
    <3> HIDE DEF n
    <3>2. IsFiniteSet(1..n)
      BY <3>1, FS_Interval
    <3> QED
      BY <3>2 DEF n
  <2>3. IsFiniteSet({k})
    BY FS_Singleton
  <2> QED
    BY <2>2, <2>3, FS_Product
<1>4. \A S \in family : IsFiniteSet(S)
  BY <1>3
<1> HIDE DEF family
<1>5. IsFiniteSet(UNION family)
  BY <1>2, <1>4, FS_UNION
<1> QED
  BY <1>5 DEF family

\* So are those of any versions in any phases.
LEMMA PodsFinite ==
    ASSUME PodInv, NEW vs \in SUBSET Versions, NEW phases \in SUBSET Phases
    PROVE  IsFiniteSet(Pods(vs, phases)) /\ Count(vs, phases) \in Nat
<1>1. IsFiniteSet(Phases)
  <2>1. Phases = ({"starting"} \cup {"ready"}) \cup ({"leaving"} \cup {"stopping"})
    BY DEF Phases
  <2>2. IsFiniteSet({"starting"} \cup {"ready"}) /\ IsFiniteSet({"leaving"} \cup {"stopping"})
    BY FS_Singleton, FS_Union
  <2> QED
    BY <2>1, <2>2, FS_Union
<1>2. IsFiniteSet(vs) /\ IsFiniteSet(phases)
  BY <1>1, ServingAssumption, FS_Subset
<1>3. IsFiniteSet(vs \X phases)
  BY <1>2, FS_Product
<1>4. vs \X phases \in SUBSET (Versions \X Phases)
  OBVIOUS
<1>5. IsFiniteSet(Pods(vs, phases))
  BY <1>3, <1>4, CountedFinite DEF Pods, PodInv
<1> QED
  BY <1>5, FS_CardinalityType DEF Count

\* A pod is the kind it is counted by and its number.
LEMMA PodOf ==
    ASSUME NEW vs, NEW phases, NEW b
    PROVE  b \in Pods(vs, phases) <=> \E k \in vs \X phases : b \in {k} \X (1..pods[k])
BY DEF Pods

\* When all live pods are of version v, and as many are ready, one of v is ready.
LEMMA ReadyOfVersion ==
    ASSUME PodInv, NEW v \in Versions,
           Count(Versions, Live) = Replicas, Count({v}, Live) = Replicas,
           Count(Versions, {"ready"}) = Replicas
    PROVE  Baked[v] = v
<1>1. /\ Live \subseteq Phases /\ {"ready"} \subseteq Live
      /\ {v} \subseteq Versions
  BY DEF Live, Phases
<1>2. Pods({v}, Live) \subseteq Pods(Versions, Live)
  BY <1>1, PodOf
<1>3. Pods(Versions, {"ready"}) \subseteq Pods(Versions, Live)
  BY <1>1, PodOf
<1>4. IsFiniteSet(Pods(Versions, Live))
  BY <1>1, PodsFinite
<1>5. Pods({v}, Live) = Pods(Versions, Live)
  BY <1>2, <1>4, FS_Subset DEF Count
<1>6. Pods(Versions, {"ready"}) # {}
  BY FS_EmptySet, ServingAssumption DEF Count
<1>7. PICK b : b \in Pods(Versions, {"ready"})
  BY <1>6
<1>8. PICK k \in Versions \X {"ready"} : b \in {k} \X (1..pods[k])
  BY <1>7, PodOf
<1>9. PICK l \in {v} \X Live : b \in {l} \X (1..pods[l])
  BY <1>3, <1>5, <1>7, PodOf
<1>10. k = l
  BY <1>8, <1>9
<1>11. k = <<v, "ready">>
  BY <1>8, <1>9, <1>10
<1>12. <<v, "ready">> \in Versions \X Phases /\ "ready" \in Serves
  BY PhaseFacts DEF Serves
<1>13. pods[<<v, "ready">>] \in Nat /\ 1..pods[<<v, "ready">>] # {}
  BY <1>8, <1>11, <1>12 DEF PodInv
<1>14. pods[<<v, "ready">>] > 0
  BY <1>13
<1> QED
  BY <1>12, <1>14 DEF PodInv

\* The status Kubernetes gives a Deployment is sound.
LEMMA SyncIsSound ==
    ASSUME PodInv, Sound(dep), dep' = [dep EXCEPT !.status = Observed]
    PROVE  Sound(dep')
<1>1. dep \in Deployments /\ dep.gen \in Nat /\ dep.version \in Versions
  BY DEF Sound, Deployments
<1>2. /\ Live \subseteq Phases /\ {"ready"} \subseteq Phases
      /\ {dep.version} \subseteq Versions
  BY <1>1 DEF Live, Phases
<1>3. /\ Count(Versions, Live) \in Nat /\ Count({dep.version}, Live) \in Nat
      /\ Count(Versions, {"ready"}) \in Nat
  BY <1>2, PodsFinite
<1>4. /\ Observed \in [observed: Nat, replicas: Nat, updated: Nat, ready: Nat]
      /\ Observed.observed = dep.gen /\ Observed.replicas = Count(Versions, Live)
      /\ Observed.updated = Count({dep.version}, Live)
      /\ Observed.ready = Count(Versions, {"ready"})
  BY <1>1, <1>3 DEF Observed
<1>5. /\ dep' \in Deployments /\ dep'.gen = dep.gen /\ dep'.version = dep.version
      /\ dep'.status = Observed
  <2> DEFINE now == Observed
  <2> HIDE DEF now
  <2>1. /\ dep' = [dep EXCEPT !.status = now]
        /\ now \in [observed: Nat, replicas: Nat, updated: Nat, ready: Nat]
    BY <1>4 DEF now
  <2>2. dep' \in Deployments /\ dep'.gen = dep.gen /\ dep'.version = dep.version
        /\ dep'.status = now
    BY <1>1, <2>1 DEF Deployments
  <2> QED
    BY <2>2 DEF now
<1>6. dep'.status.observed <= dep'.gen
  BY <1>1, <1>4, <1>5
<1>7. Available(dep') => Baked[dep.version] = dep.version
  BY <1>1, <1>4, <1>5, ReadyOfVersion DEF Available
<1> QED
  BY <1>5, <1>6, <1>7 DEF Sound

\* A Deployment that has just been written is not available.
LEMMA WrittenIsSound ==
    ASSUME Sound(dep), NEW v \in Versions,
           dep' = [dep EXCEPT !.gen = @ + 1, !.version = v]
    PROVE  Sound(dep') /\ ~Available(dep')
<1>1. dep \in Deployments /\ dep.status.observed <= dep.gen
  BY DEF Sound
<1>2. /\ dep' \in Deployments /\ dep'.gen = dep.gen + 1 /\ dep'.status = dep.status
      /\ dep.gen \in Nat /\ dep.status.observed \in Nat
  <2>1. dep.gen \in Nat /\ dep.status.observed \in Nat
    BY <1>1 DEF Deployments
  <2> DEFINE next == dep.gen + 1
             later == [dep EXCEPT !.gen = next]
  <2>2. next \in Nat
    BY <2>1
  <2>3. dep' = [later EXCEPT !.version = v]
    OBVIOUS
  <2> HIDE DEF next
  <2>4. later \in Deployments /\ later.gen = next /\ later.status = dep.status
    BY <1>1, <2>2 DEF Deployments
  <2> HIDE DEF later
  <2>5. dep' \in Deployments /\ dep'.gen = next /\ dep'.status = dep.status
    BY <2>3, <2>4 DEF Deployments
  <2> QED
    BY <2>1, <2>5 DEF next
<1>3. dep'.status.observed < dep'.gen
  BY <1>1, <1>2
<1>4. ~Available(dep')
  BY <1>2, <1>3 DEF Available
<1> QED
  BY <1>2, <1>3, <1>4 DEF Sound

\* The specs and what the cache has seen of them.
LEMMA SpecsKept ==
    ASSUME Inv, [Next]_vars
    PROVE  specs' \in Seq(Versions) /\ seen' \in 1..Len(specs')
<1>1. specs \in Seq(Versions) /\ seen \in 1..Len(specs) /\ Len(specs) \in Nat
  BY DEF Inv
<1>2. CASE UNCHANGED <<specs, seen>>
  BY <1>1, <1>2
<1>3. CASE WatchSpec
  BY <1>1, <1>3 DEF WatchSpec
<1>4. ASSUME NEW v \in Versions, Put(v)
      PROVE  specs' \in Seq(Versions) /\ seen' \in 1..Len(specs')
  <2>1. specs' = Append(specs, v) /\ seen' = seen
    BY <1>4 DEF Put, control
  <2> QED
    BY <1>1, <2>1
<1>5. CASE Kubernetes \/ WatchDeployment \/ Reconcile
  BY <1>2, <1>5 DEF Kubernetes, Elsewhere, control, WatchDeployment, Reconcile
<1>6. CASE Client \/ UNCHANGED vars
  BY <1>2, <1>6 DEF Client, InferRoute, EnqueueRoute, ProxyPost, ProcessJob, Ask, Post,
                    control, vars
<1> QED
  BY <1>3, <1>4, <1>5, <1>6 DEF Next

\* The Deployment and its copy stay sound.
LEMMA SoundKept ==
    ASSUME Inv, [Next]_vars
    PROVE  Sound(dep') /\ Sound(view')
<1>1. PodInv /\ Sound(dep) /\ Sound(view) /\ specs[seen] \in Versions
  BY DEF Inv
<1>2. CASE UNCHANGED <<dep, view>>
  BY <1>1, <1>2
<1>3. CASE WatchDeployment
  <2>1. dep' = dep /\ view' = dep
    BY <1>3 DEF WatchDeployment, cluster
  <2> QED
    BY <1>1, <2>1
<1>4. CASE SyncStatus /\ Elsewhere
  <2>1. view' = view /\ dep' = [dep EXCEPT !.status = Observed]
    BY <1>4 DEF SyncStatus, Elsewhere, control
  <2> QED
    BY <1>1, <2>1, SyncIsSound
<1>5. CASE Reconcile
  <2>1. /\ view' = view
        /\ \/ dep' = dep
           \/ dep' = [dep EXCEPT !.gen = @ + 1, !.version = specs[seen]]
    BY <1>5 DEF Reconcile
  <2> QED
    BY <1>1, <2>1, WrittenIsSound
<1>6. CASE Kubernetes /\ ~SyncStatus
  BY <1>2, <1>6 DEF Kubernetes, Elsewhere, control, CreatePod, ScaleDown, PodReady, Crash,
                    PodStops
<1>7. CASE Client \/ WatchSpec \/ (\E v \in Versions : Put(v)) \/ UNCHANGED vars
  BY <1>2, <1>7 DEF Client, InferRoute, EnqueueRoute, ProxyPost, ProcessJob, Ask, Post,
                    WatchSpec, Put, cluster, control, vars
<1> QED
  BY <1>3, <1>4, <1>5, <1>6, <1>7 DEF Next, Kubernetes

\* The inductive invariant holds in every reachable state.
THEOREM Invariance == Spec => []Inv
<1>1. ASSUME Init  PROVE Inv
  <2>1. PodInv
    BY <1>1, InitPods
  <2>2. First \in Versions /\ Baked[First] = First /\ Replicas \in Nat
    BY ServingAssumption DEF First
  <2>3. specs \in Seq(Versions) /\ seen \in 1..Len(specs)
    BY <1>1, <2>2 DEF Init
  <2>4. Sound(dep) /\ view = dep
    BY <1>1, <2>2 DEF Init, Sound, Deployments
  <2> QED
    BY <2>1, <2>3, <2>4 DEF Inv
<1>2. ASSUME Inv, [Next]_vars  PROVE Inv'
  <2>1. PodInv'
    BY <1>2, PodsKept DEF Inv, PodInv
  <2>2. Sound(dep)' /\ Sound(view)'
    BY <1>2, SoundKept DEF Sound, Available
  <2> QED
    BY <1>2, <2>1, <2>2, SpecsKept DEF Inv
<1>3. Spec => Init /\ [][Next]_vars
  BY PTL DEF Spec
<1> QED
  BY <1>1, <1>2, <1>3, PTL

\* For any versions, images and number of replicas: the status turns available only
\* of a version whose runtime starts (updateObservedStatus over a rolling update).
THEOREM OnlyStartedIsAvailableHolds == Spec => OnlyStartedIsAvailable
<1>1. ASSUME Inv, [Next]_vars, status' # status, status'.available
      PROVE  Baked[specs[seen]] = specs[seen]
  <2>1. Sound(dep) /\ Sound(view) /\ specs[seen] \in Versions
    BY <1>1 DEF Inv
  <2>2. Reconcile
    BY <1>1 DEF Next, Kubernetes, Elsewhere, WatchSpec, WatchDeployment, Client, InferRoute,
                EnqueueRoute, ProxyPost, ProcessJob, Ask, Post, Put, vars
  <2>3. CASE view.version = specs[seen]
    <3>1. status' = [available |-> Available(view), endpoint |-> TRUE]
      BY <1>1, <2>2, <2>3 DEF Reconcile, WriteStatus
    <3>2. Available(view)
      BY <1>1, <3>1
    <3> QED
      BY <2>1, <2>3, <3>2 DEF Sound
  <2>4. CASE view.version # specs[seen] /\ view = dep
    <3>1. /\ dep' = [dep EXCEPT !.gen = @ + 1, !.version = specs[seen]]
          /\ WriteStatus([available |-> Available(dep'), endpoint |-> TRUE])
      BY <2>2, <2>4 DEF Reconcile
    <3>2. ~Available(dep')
      BY <2>1, <3>1, WrittenIsSound
    <3>3. status' = [available |-> Available(dep'), endpoint |-> TRUE]
      BY <1>1, <3>1 DEF WriteStatus
    <3> QED
      BY <1>1, <3>2, <3>3
  <2>5. CASE view.version # specs[seen] /\ view # dep
    <3>1. status' = [status EXCEPT !.available = FALSE]
      BY <1>1, <2>2, <2>5 DEF Reconcile
    <3> QED
      BY <1>1, <3>1
  <2> QED
    BY <2>3, <2>4, <2>5
<1>2. Spec => Init /\ [][Next]_vars
  BY PTL DEF Spec
<1>3. ASSUME Inv, [Next]_vars
      PROVE  [status' # status /\ status'.available =>
                Baked[specs[seen]] = specs[seen]]_vars
  BY <1>1, <1>3
<1> QED
  BY <1>2, <1>3, Invariance, PTL DEF OnlyStartedIsAvailable
-----------------------------------------------------------------------------
(* Capacity. *)

\* The ready pods of the counts ps, one by one.
Ready == Versions \X {"ready"}
ReadyPods(ps) == UNION {{k} \X (1..ps[k]) : k \in Ready}

\* A pod is the key of its count and its number.
LEMMA PodIs ==
    ASSUME NEW ps, NEW b
    PROVE  b \in ReadyPods(ps) <=> \E k \in Ready : b \in {k} \X (1..ps[k])
BY DEF ReadyPods

\* There are finitely many.
LEMMA ReadyPodsFinite ==
    ASSUME NEW ps \in [Versions \X Phases -> Nat]
    PROVE  IsFiniteSet(ReadyPods(ps))
<1>1. Versions \X {"ready"} \subseteq Versions \X Phases
  BY PhaseFacts
<1>2. IsFiniteSet(Versions) /\ IsFiniteSet({"ready"})
  BY ServingAssumption, FS_Singleton
<1>3. IsFiniteSet(Ready)
  BY <1>2, FS_Product DEF Ready
<1> QED
  BY <1>1, <1>3, CountedFinite DEF ReadyPods, Ready

\* No count of ready pods falls: nor does their number.
LEMMA NoneLost ==
    ASSUME NEW ps \in [Versions \X Phases -> Nat], NEW qs \in [Versions \X Phases -> Nat],
           \A k \in Ready : ps[k] <= qs[k]
    PROVE  Cardinality(ReadyPods(qs)) >= Cardinality(ReadyPods(ps))
<1>1. ASSUME NEW b \in ReadyPods(ps)  PROVE b \in ReadyPods(qs)
  <2>1. PICK k \in Ready : b \in {k} \X (1..ps[k])
    BY PodIs
  <2>2. ps[k] \in Nat /\ qs[k] \in Nat /\ ps[k] <= qs[k]
    BY PhaseFacts DEF Ready
  <2>3. 1..ps[k] \subseteq 1..qs[k]
    BY <2>2
  <2>4. b \in {k} \X (1..qs[k])
    BY <2>1, <2>3
  <2> QED
    BY <2>4, PodIs
<1>2. ReadyPods(ps) \subseteq ReadyPods(qs)
  BY <1>1
<1>3. IsFiniteSet(ReadyPods(qs)) /\ IsFiniteSet(ReadyPods(ps))
  BY ReadyPodsFinite
<1>4. Cardinality(ReadyPods(ps)) <= Cardinality(ReadyPods(qs))
  BY <1>2, <1>3, FS_Subset
<1>5. Cardinality(ReadyPods(ps)) \in Nat /\ Cardinality(ReadyPods(qs)) \in Nat
  BY <1>3, FS_CardinalityType
<1> QED
  BY <1>4, <1>5

\* One ready pod that goes is one less.
LEMMA OneLost ==
    ASSUME NEW ps \in [Versions \X Phases -> Nat], NEW qs \in [Versions \X Phases -> Nat],
           NEW key \in Ready, ps[key] > 0,
           \A k \in Ready : qs[k] = IF k = key THEN ps[k] - 1 ELSE ps[k]
    PROVE  /\ Cardinality(ReadyPods(qs)) = Cardinality(ReadyPods(ps)) - 1
           /\ Cardinality(ReadyPods(ps)) \in Nat
<1> DEFINE last == <<key, ps[key]>>
<1>1. ps[key] \in Nat /\ qs[key] = ps[key] - 1 /\ ps[key] \in 1..ps[key]
  BY PhaseFacts DEF Ready
<1>2. 1..qs[key] = (1..ps[key]) \ {ps[key]}
  BY <1>1
<1>3. last \in ReadyPods(ps)
  BY <1>1, PodIs
<1>4. ASSUME NEW b \in ReadyPods(qs)  PROVE b \in ReadyPods(ps) \ {last}
  <2>1. PICK k \in Ready : b \in {k} \X (1..qs[k])
    BY PodIs
  <2>2. CASE k = key
    <3>1. b \in {key} \X (1..ps[key]) /\ b # last
      BY <2>1, <2>2, <1>2
    <3> QED
      BY <3>1, PodIs
  <2>3. CASE k # key
    <3>1. qs[k] = ps[k] /\ b \in {k} \X (1..ps[k]) /\ b # last
      BY <2>1, <2>3
    <3> QED
      BY <3>1, PodIs
  <2> QED
    BY <2>2, <2>3
<1>5. ASSUME NEW b \in ReadyPods(ps), b # last  PROVE b \in ReadyPods(qs)
  <2>1. PICK k \in Ready : b \in {k} \X (1..ps[k])
    BY PodIs
  <2>2. CASE k = key
    <3>1. b \in {key} \X (1..qs[key])
      BY <2>1, <2>2, <1>2, <1>5
    <3> QED
      BY <3>1, PodIs
  <2>3. CASE k # key
    <3>1. b \in {k} \X (1..qs[k])
      BY <2>1, <2>3
    <3> QED
      BY <3>1, PodIs
  <2> QED
    BY <2>2, <2>3
<1>6. ReadyPods(qs) = ReadyPods(ps) \ {last}
  BY <1>4, <1>5
<1>7. IsFiniteSet(ReadyPods(ps))
  BY ReadyPodsFinite
<1> HIDE DEF last
<1>8. Cardinality(ReadyPods(ps) \ {last}) = Cardinality(ReadyPods(ps)) - 1
  BY <1>3, <1>7, FS_RemoveElement
<1> QED
  BY <1>6, <1>7, <1>8, FS_CardinalityType

\* The surge is at least one pod, so that the floor is Replicas less a rounded-down
\* quarter.
LEMMA Floor ==
    /\ MinAvailable = Replicas - (Replicas * MaxUnavailablePercent) \div 100
    /\ MinAvailable \in Int
<1>1. Replicas \in Nat /\ Replicas >= 1
  BY ServingAssumption
<1>2. Surge >= 1
  BY <1>1 DEF Surge, MaxSurgePercent
<1>3. (Replicas * MaxUnavailablePercent) \div 100 \in Int
  BY <1>1 DEF MaxUnavailablePercent
<1> QED
  BY <1>1, <1>2, <1>3 DEF MinAvailable

\* Kubernetes takes a ready pod away only while there are more than the floor.
LEMMA CapacityStep ==
    ASSUME PodInv, [Next]_vars, crashes' = crashes
    PROVE  LET ready == Count(Versions, {"ready"})
           IN  \/ ready' >= ready
               \/ ready' >= Replicas - (Replicas * MaxUnavailablePercent) \div 100
<1> DEFINE now == Cardinality(ReadyPods(pods))
           then == Cardinality(ReadyPods(pods'))
           Kept == then >= now \/ then >= MinAvailable
<1>1. /\ Count(Versions, {"ready"}) = now
      /\ Count(Versions, {"ready"})' = then
  BY Zenon DEF Count, Pods, ReadyPods, Ready
<1>2. /\ pods \in [Versions \X Phases -> Nat] /\ crashes \in Nat
      /\ pods' \in [Versions \X Phases -> Nat]
  BY PodsKept DEF PodInv
<1>3. \A k \in Ready : k \in Versions \X Phases /\ pods[k] \in Nat /\ pods'[k] \in Nat
  BY <1>2, PhaseFacts DEF Ready
<1>4. (\A k \in Ready : pods[k] <= pods'[k]) => then >= now
  BY <1>2, NoneLost
<1>5. ASSUME UNCHANGED pods  PROVE Kept
  BY <1>3, <1>4, <1>5
<1>6. ASSUME pods' = [pods EXCEPT ![<<dep.version, "starting">>] = @ + 1]  PROVE Kept
  <2>1. \A k \in Ready : k # <<dep.version, "starting">>
    BY DEF Ready
  <2>2. \A k \in Ready : pods'[k] = pods[k]
    BY <2>1, <1>2, <1>3, <1>6
  <2> QED
    BY <2>2, <1>3, <1>4
<1>7. ASSUME NEW v \in Versions, NEW p \in Phases \ {"ready"}, pods[<<v, p>>] > 0,
             pods' = [pods EXCEPT ![<<v, p>>] = @ - 1]
      PROVE  Kept
  <2>1. \A k \in Ready : k # <<v, p>>
    BY DEF Ready
  <2>2. \A k \in Ready : pods'[k] = pods[k]
    BY <2>1, <1>3, <1>7, Gone
  <2> QED
    BY <2>2, <1>3, <1>4
<1>8. ASSUME NEW v \in Versions, NEW from \in Phases \ {"ready"}, NEW to \in Phases,
             from # to, pods[<<v, from>>] > 0, pods' = Move(v, from, to)
      PROVE  Kept
  <2>1. \A k \in Versions \X Phases :
          pods'[k] = IF k = <<v, from>> THEN pods[k] - 1
                     ELSE IF k = <<v, to>> THEN pods[k] + 1 ELSE pods[k]
    BY <1>8, Moved DEF Move
  <2>2. \A k \in Ready : k # <<v, from>>
    BY DEF Ready
  <2>3. \A k \in Ready : pods'[k] = pods[k] \/ pods'[k] = pods[k] + 1
    BY <2>1, <2>2, <1>3
  <2>4. \A k \in Ready : pods[k] <= pods'[k]
    BY <2>3, <1>3
  <2> QED
    BY <2>4, <1>4
<1>9. ASSUME NEW v \in Versions, pods[<<v, "ready">>] > 0,
             Count(Versions, {"ready"}) > MinAvailable,
             pods' = Move(v, "ready", "leaving")
      PROVE  Kept
  <2> DEFINE key == <<v, "ready">>
  <2>1. \A k \in Versions \X Phases :
          pods'[k] = IF k = <<v, "ready">> THEN pods[k] - 1
                     ELSE IF k = <<v, "leaving">> THEN pods[k] + 1 ELSE pods[k]
    BY <1>9, Moved, PhaseFacts DEF Move
  <2>2. key \in Ready /\ pods[key] > 0 /\ \A k \in Ready : k # <<v, "leaving">>
    BY <1>9 DEF Ready
  <2>3. \A k \in Ready : pods'[k] = IF k = key THEN pods[k] - 1 ELSE pods[k]
    BY <2>1, <2>2, <1>3
  <2> HIDE DEF key
  <2>4. then = now - 1 /\ now \in Nat
    BY <2>2, <2>3, <1>2, OneLost
  <2>5. now > MinAvailable
    BY <1>1, <1>9
  <2> HIDE DEF now, then
  <2>6. then >= MinAvailable
    BY <2>4, <2>5, Floor
  <2> QED
    BY <2>6
<1>10. ASSUME NEW v \in Versions, pods[<<v, "starting">>] > 0, pods' = Move(v, "starting", "ready")
       PROVE  Kept
  <2>1. "starting" \in Phases \ {"ready"} /\ "ready" \in Phases
    BY DEF Phases
  <2> HIDE DEF Kept
  <2> QED
    BY <2>1, <1>8, <1>10
<1>11. ASSUME NEW v \in Versions, pods[<<v, "leaving">>] > 0, pods' = Move(v, "leaving", "stopping")
       PROVE  Kept
  <2>1. "leaving" \in Phases \ {"ready"} /\ "stopping" \in Phases
    BY DEF Phases
  <2> HIDE DEF Kept
  <2> QED
    BY <2>1, <1>8, <1>11
<1>12. crashes' # crashes + 1
  BY <1>2
<1>13. Kept
  <2>1. KubernetesStep
    BY PodSteps
  <2>2. UNCHANGED pods => Kept
    BY <1>5
  <2>3. pods' = [pods EXCEPT ![<<dep.version, "starting">>] = @ + 1] => Kept
    BY <1>6
  <2> HIDE DEF Kept
  <2> QED
    BY <2>1, <2>2, <2>3, <1>7, <1>9, <1>10, <1>11, <1>12, Zenon DEF KubernetesStep
<1> QED
  BY <1>1, <1>13, Floor

\* For any number of replicas and any versions: without a crash the ready pods never
\* fall below the replicas less a rounded-down quarter, whether or not the new
\* version starts (the strategy and the probes of mutateDeployment).
THEOREM CapacityKeptHolds == Spec => CapacityKept
<1>1. ASSUME PodInv, [Next]_vars
      PROVE  [crashes' = crashes =>
                LET ready == Count(Versions, {"ready"})
                IN  \/ ready' >= ready
                    \/ ready' >= Replicas - (Replicas * MaxUnavailablePercent) \div 100]_vars
  BY <1>1, CapacityStep
<1>2. Spec => Init /\ [][Next]_vars
  BY PTL DEF Spec
<1> QED
  BY <1>1, <1>2, PodInvariance, PTL DEF CapacityKept
=============================================================================
