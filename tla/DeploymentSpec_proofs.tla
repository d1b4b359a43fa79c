------------------------ MODULE DeploymentSpec_proofs ------------------------
(* Proof about DeploymentSpec, for all resources, quantities and numbers.   *)
EXTENDS DeploymentSpec, TLAPS

\* An edited list of requests or limits is a list of quantities.
LEMMA WithType ==
    ASSUME NEW list \in ResourceList, NEW name \in Resources
    PROVE  With(list, name) \subseteq ResourceList
<1>1. PICK names \in SUBSET Resources : list \in [names -> Quantities]  BY DEF ResourceList
<1>2. ASSUME NEW q \in Quantities
      PROVE  [n \in DOMAIN list \cup {name} |-> IF n = name THEN q ELSE list[n]] \in ResourceList
  <2>1. names \cup {name} \in SUBSET Resources  OBVIOUS
  <2>2. [n \in DOMAIN list \cup {name} |-> IF n = name THEN q ELSE list[n]]
          \in [names \cup {name} -> Quantities]
    BY <1>1, <1>2
  <2> QED  BY <2>1, <2>2 DEF ResourceList
<1>3. [n \in DOMAIN list \ {name} |-> list[n]] \in ResourceList
  <2>1. names \ {name} \in SUBSET Resources  OBVIOUS
  <2>2. [n \in DOMAIN list \ {name} |-> list[n]] \in [names \ {name} -> Quantities]  BY <1>1
  <2> QED  BY <2>1, <2>2 DEF ResourceList
<1> QED  BY <1>2, <1>3 DEF With

TypeOK == spec \in Specs

\* Users keep to the CRD's schema.
LEMMA TypeCorrect == Spec => []TypeOK
<1>1. Init => TypeOK
  <2>1. NoResources \in [{} -> Quantities]  BY DEF NoResources
  <2>2. NoResources \in ResourceList  BY <2>1 DEF ResourceList
  <2> QED  BY <2>2 DEF Init, Specs, TypeOK
<1>2. TypeOK /\ [Next]_spec => TypeOK'
  <2> USE DEF TypeOK
  <2> SUFFICES ASSUME spec \in Specs, Next PROVE spec' \in Specs  OBVIOUS
  <2>1. PICK name \in Resources : EditRequests(name) \/ EditLimits(name)  BY DEF Next
  <2>2. spec.requests \in ResourceList /\ spec.limits \in ResourceList  BY DEF Specs
  <2>3. /\ With(spec.requests, name) \subseteq ResourceList
        /\ With(spec.limits, name) \subseteq ResourceList
    BY <2>2, WithType
  <2>4. CASE EditRequests(name)
    <3>1. PICK list \in ResourceList : spec' = [spec EXCEPT !.requests = list]
      BY <2>3, <2>4 DEF EditRequests
    <3> QED  BY <3>1 DEF Specs
  <2>5. CASE EditLimits(name)
    <3>1. PICK list \in ResourceList : spec' = [spec EXCEPT !.limits = list]
      BY <2>3, <2>5 DEF EditLimits
    <3> QED  BY <3>1 DEF Specs
  <2> QED  BY <2>1, <2>4, <2>5
<1> QED  BY <1>1, <1>2, PTL DEF Spec

\* The checks of validateSpec() on numbers and the image are the API server's.
LEMMA NumbersAreFit ==
    ASSUME NEW s \in Specs, validateSpec(s)
    PROVE  s.image /\ desiredReplicaCount(s) >= 0 /\ Within(desiredRuntimePort(s), 1, 65535)
<1>1. desiredReplicaCount(s) \in Int  BY SpecAssumption DEF Specs, desiredReplicaCount
<1>2. 1 <= desiredReplicaCount(s)  BY DEF validateSpec, Within
<1> QED  BY <1>1, <1>2 DEF validateSpec

\* A list is a function from resource names to integers.
LEMMA ListType ==
    ASSUME NEW list \in ResourceList
    PROVE  /\ DOMAIN list \subseteq Resources
           /\ \A name \in DOMAIN list : list[name] \in Int
<1>1. PICK names \in SUBSET Resources : list \in [names -> Quantities]  BY DEF ResourceList
<1>2. Quantities \subseteq Int  BY SpecAssumption DEF Quantities
<1> QED  BY <1>1, <1>2

\* What the Deployment's resources are, for a list that is omitted or given.
LEMMA DefaultsAre ==
    ASSUME NEW list, NEW value
    PROVE  /\ Omitted(list) => /\ DOMAIN Defaults(list, value) = {CPU, Memory}
                               /\ Defaults(list, value)[CPU] = value
                               /\ Defaults(list, value)[Memory] = value
           /\ ~Omitted(list) => Defaults(list, value) = list
  BY DEF Defaults

\* Of the specs that validateSpec() accepts, the API server refuses exactly those
\* with a value against a default of effectiveResources(), or with counted or
\* unknown resources as no container may have them.
THEOREM RefusedExactlyForHolds == Spec => []RefusedExactlyFor
<1>1. TypeOK => RefusedExactlyFor
  <2> SUFFICES ASSUME spec \in Specs, validateSpec(spec)
               PROVE  Admitted(mutateDeployment(spec)) <=>
                        ~DefaultsClash(spec) /\ ~CountsClash(spec) /\ ~NamesClash(spec)
    BY DEF RefusedExactlyFor, TypeOK
  <2> DEFINE R == spec.requests
             L == spec.limits
             ER == Defaults(R, DefaultRequest)
             EL == Defaults(L, DefaultLimit)
             Named == DOMAIN ER \cup DOMAIN EL
             Fits(name, q) == q >= 0 /\ (name \in Counted => Whole(q))
             NamesFit == /\ Named \cap Unknown = {}
                         /\ Named \cap HugePages # {} => CPU \in Named \/ Memory \in Named
             LimitsFit == \A name \in DOMAIN EL : Fits(name, EL[name])
             RequestsFit ==
               \A name \in DOMAIN ER :
                  /\ Fits(name, ER[name])
                  /\ name \in DOMAIN EL => ER[name] <= EL[name]
                  /\ name \in Counted => name \in DOMAIN EL /\ ER[name] = EL[name]
  <2>1. Admitted(mutateDeployment(spec)) <=> NamesFit /\ LimitsFit /\ RequestsFit
    <3>1. PICK d : d = mutateDeployment(spec)  OBVIOUS
    <3>2. /\ d.image = spec.image /\ d.replicas = desiredReplicaCount(spec)
          /\ d.port = desiredRuntimePort(spec)
          /\ d.resources.requests = ER /\ d.resources.limits = EL
      BY <3>1 DEF mutateDeployment, effectiveResources
    <3>3. d.image /\ d.replicas >= 0 /\ Within(d.port, 1, 65535)
      BY <3>2, NumbersAreFit
    <3> HIDE DEF ER, EL
    <3>4. Admitted(d) <=> NamesFit /\ LimitsFit /\ RequestsFit
      BY <3>2, <3>3 DEF Admitted
    <3> QED  BY <3>1, <3>4
  <2>2. /\ DOMAIN R \subseteq Resources /\ DOMAIN L \subseteq Resources
        /\ \A name \in DOMAIN R : R[name] \in Int
        /\ \A name \in DOMAIN L : L[name] \in Int
    BY ListType DEF Specs
  <2>3. /\ \A name \in DOMAIN R :
              R[name] >= 0 /\ (name \in DOMAIN L => R[name] <= L[name])
        /\ \A name \in DOMAIN L : L[name] >= 0
    BY DEF validateSpec
  <2>4. /\ Omitted(R) => DOMAIN ER = {CPU, Memory} /\ ER[CPU] = DefaultRequest
                                                  /\ ER[Memory] = DefaultRequest
        /\ ~Omitted(R) => ER = R
        /\ Omitted(L) => DOMAIN EL = {CPU, Memory} /\ EL[CPU] = DefaultLimit
                                                  /\ EL[Memory] = DefaultLimit
        /\ ~Omitted(L) => EL = L
    BY DefaultsAre
  <2>5. /\ CPU \notin Counted /\ Memory \notin Counted
        /\ CPU \notin Unknown /\ Memory \notin Unknown
        /\ CPU \notin HugePages /\ Memory \notin HugePages
        /\ DefaultRequest \in Nat /\ DefaultLimit \in Nat /\ DefaultRequest <= DefaultLimit
    BY SpecAssumption
  <2> HIDE DEF ER, EL
  <2>6. NamesFit <=> ~NamesClash(spec)
    <3>1. CASE Omitted(R) /\ Omitted(L)
      BY <2>4, <2>5, <3>1 DEF NamesClash, Omitted
    <3>2. CASE Omitted(R) /\ ~Omitted(L)
      BY <2>4, <2>5, <3>2 DEF NamesClash, Omitted
    <3>3. CASE ~Omitted(R) /\ Omitted(L)
      BY <2>4, <2>5, <3>3 DEF NamesClash, Omitted
    <3>4. CASE ~Omitted(R) /\ ~Omitted(L)
      BY <2>4, <2>5, <3>4 DEF NamesClash, Omitted
    <3> QED  BY <3>1, <3>2, <3>3, <3>4
  <2>7. LimitsFit /\ RequestsFit <=> ~DefaultsClash(spec) /\ ~CountsClash(spec)
    <3>1. CASE Omitted(R) /\ Omitted(L)
      BY <2>4, <2>5, <3>1 DEF DefaultsClash, CountsClash, Omitted
    <3>2. CASE Omitted(R) /\ ~Omitted(L)
      BY <2>2, <2>3, <2>4, <2>5, <3>2 DEF DefaultsClash, CountsClash, Omitted
    <3>3. CASE ~Omitted(R) /\ Omitted(L)
      <4>1. DOMAIN L = {}  BY <3>3 DEF Omitted
      <4>2. LimitsFit  BY <2>4, <2>5, <3>3
      <4>3. CountsClash(spec) <=> Counted \cap DOMAIN R # {}
        BY <4>1 DEF CountsClash
      <4>4. DefaultsClash(spec) <=>
              \E name \in {CPU, Memory} \cap DOMAIN R : R[name] > DefaultLimit
        BY <4>1, <3>3 DEF DefaultsClash
      <4>5. RequestsFit <=>
              \A name \in DOMAIN R :
                /\ name \notin Counted
                /\ name \in {CPU, Memory} => R[name] <= DefaultLimit
        BY <2>2, <2>3, <2>4, <2>5, <3>3
      <4> QED  BY <2>2, <2>5, <4>2, <4>3, <4>4, <4>5
    <3>4. CASE ~Omitted(R) /\ ~Omitted(L)
      <4>1. ~DefaultsClash(spec)  BY <3>4 DEF DefaultsClash
      <4>2. LimitsFit <=> \A name \in Counted \cap DOMAIN L : Whole(L[name])
        BY <2>2, <2>3, <2>4, <3>4
      <4>3. RequestsFit <=>
              \A name \in Counted \cap DOMAIN R :
                Whole(R[name]) /\ name \in DOMAIN L /\ R[name] = L[name]
        BY <2>2, <2>3, <2>4, <3>4
      <4> QED  BY <4>1, <4>2, <4>3 DEF CountsClash
    <3> QED  BY <3>1, <3>2, <3>3, <3>4
  <2> QED  BY <2>1, <2>6, <2>7
<1> QED  BY <1>1, TypeCorrect, PTL
=============================================================================
