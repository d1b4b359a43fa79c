---------------------------- MODULE DeploymentSpec ----------------------------
(***************************************************************************)
(* What the controller makes of a ModelDeployment's spec: validateSpec(),  *)
(* the defaults, and the fields of the Deployment that the API server      *)
(* validates (modeldeployment_controller.go).  A blank string is FALSE, an *)
(* omitted number is None, a quantity is an integer, Unit of them a whole.  *)
(***************************************************************************)
EXTENDS Integers, FiniteSets

CONSTANTS
    Resources,      \* resource names, of four kinds: the native ones, with
    CPU, Memory,    \*   those that have defaults;
    Counted,        \*   whole and never overcommitted: extended resources and
    HugePages,      \*   huge pages;
    Unknown,        \*   neither native nor qualified with a domain
    Amounts, Unit,  \* quantities that are not negative
    DefaultRequest, DefaultLimit,
    Replicas, Ports,    \* numbers a spec may name
    MaxNamed,       \* bound: resources in one list
    None

ASSUME SpecAssumption ==
    /\ {CPU, Memory} \subseteq Resources \ (Counted \cup Unknown)
    /\ Counted \cup Unknown \subseteq Resources /\ HugePages \subseteq Counted
    /\ Replicas \cup Ports \subseteq Int /\ Amounts \subseteq Nat
    /\ Unit \in Nat \ {0} /\ MaxNamed \in Nat
    /\ DefaultRequest \in Nat /\ DefaultLimit \in Nat /\ DefaultRequest <= DefaultLimit

VARIABLE spec   \* the spec of the ModelDeployment

Quantities == Amounts \cup {-1}
ResourceList == UNION {[names -> Quantities] : names \in SUBSET Resources}
Omitted(list) == DOMAIN list = {}

Specs == [named: BOOLEAN, image: BOOLEAN, replicas: Replicas \cup {None}, port: Ports,
          requests: ResourceList, limits: ResourceList]

desiredReplicaCount(s) == IF s.replicas = None THEN 1 ELSE s.replicas

desiredRuntimePort(s) == IF s.port = 0 THEN 8080 ELSE s.port

Within(n, low, high) == low <= n /\ n <= high

validateSpec(s) ==
    /\ s.named /\ s.image
    /\ Within(desiredReplicaCount(s), 1, 100)
    /\ Within(desiredRuntimePort(s), 1, 65535)
    /\ \A name \in DOMAIN s.requests :
          /\ s.requests[name] >= 0
          /\ name \in DOMAIN s.limits => s.requests[name] <= s.limits[name]
    /\ \A name \in DOMAIN s.limits : s.limits[name] >= 0

\* Mutant: each name that is left out gets its default.
DefaultsPerName(list, value) ==
    [name \in DOMAIN list \cup {CPU, Memory} |->
        IF name \in DOMAIN list THEN list[name] ELSE value]

Defaults(list, value) == IF Omitted(list) THEN [name \in {CPU, Memory} |-> value] ELSE list

effectiveResources(s) == [requests |-> Defaults(s.requests, DefaultRequest),
                          limits |-> Defaults(s.limits, DefaultLimit)]

mutateDeployment(s) == [image |-> s.image, replicas |-> desiredReplicaCount(s),
                        port |-> desiredRuntimePort(s), resources |-> effectiveResources(s)]

Whole(q) == q % Unit = 0

\* The API server's validation of a Deployment and its container's resources.
Admitted(d) ==
    LET requests == d.resources.requests
        limits == d.resources.limits
        named == DOMAIN requests \cup DOMAIN limits
        Fits(name, q) == q >= 0 /\ (name \in Counted => Whole(q))
    IN
    /\ d.image /\ d.replicas >= 0 /\ Within(d.port, 1, 65535)
    /\ named \cap Unknown = {}
    /\ named \cap HugePages # {} => CPU \in named \/ Memory \in named
    /\ \A name \in DOMAIN limits : Fits(name, limits[name])
    /\ \A name \in DOMAIN requests :
          /\ Fits(name, requests[name])
          /\ name \in DOMAIN limits => requests[name] <= limits[name]
          /\ name \in Counted =>
                name \in DOMAIN limits /\ requests[name] = limits[name]

NoResources == [name \in {} |-> 0]

Init == spec \in [named: BOOLEAN, image: BOOLEAN, replicas: Replicas \cup {None},
                  port: Ports, requests: {NoResources}, limits: {NoResources}]

\* A user gives or drops one quantity.
With(list, name) ==
    {[n \in DOMAIN list \cup {name} |-> IF n = name THEN q ELSE list[n]] : q \in Quantities}
        \cup {[n \in DOMAIN list \ {name} |-> list[n]]}

Bounded(list) == Cardinality(DOMAIN list) <= MaxNamed

EditRequests(name) ==
    \E list \in With(spec.requests, name) :
        Bounded(list) /\ spec' = [spec EXCEPT !.requests = list]

EditLimits(name) ==
    \E list \in With(spec.limits, name) :
        Bounded(list) /\ spec' = [spec EXCEPT !.limits = list]

Next == \E name \in Resources : EditRequests(name) \/ EditLimits(name)

Spec == Init /\ [][Next]_spec

-----------------------------------------------------------------------------
(* The specs that validateSpec() accepts and the API server refuses.       *)

\* A given value and the default for the list that was left out.
DefaultsClash(s) ==
    \/ /\ Omitted(s.limits)
       /\ \E name \in {CPU, Memory} \cap DOMAIN s.requests : s.requests[name] > DefaultLimit
    \/ /\ Omitted(s.requests)
       /\ \E name \in {CPU, Memory} \cap DOMAIN s.limits : s.limits[name] < DefaultRequest

\* A counted resource that is not whole, or is requested without that limit.
CountsClash(s) ==
    \/ \E name \in Counted \cap DOMAIN s.limits : ~Whole(s.limits[name])
    \/ \E name \in Counted \cap DOMAIN s.requests :
          ~(/\ Whole(s.requests[name])
            /\ name \in DOMAIN s.limits /\ s.requests[name] = s.limits[name])

\* A name outside Kubernetes, or huge pages alone where no default joins them.
NamesClash(s) ==
    LET named == DOMAIN s.requests \cup DOMAIN s.limits IN
    \/ named \cap Unknown # {}
    \/ /\ named \cap HugePages # {} /\ named \cap {CPU, Memory} = {}
       /\ ~Omitted(s.requests) /\ ~Omitted(s.limits)

\* Of the specs that validateSpec() accepts, effectiveResources() turns exactly
\* those into a Deployment the API server refuses whose own values clash with a
\* default, or name counted or unknown resources as no container may: every
\* other check of the API server is made by validateSpec(), and the defaults
\* never spoil a spec that gives both lists or neither.
RefusedExactlyFor ==
    validateSpec(spec) =>
        (Admitted(mutateDeployment(spec)) <=>
            ~DefaultsClash(spec) /\ ~CountsClash(spec) /\ ~NamesClash(spec))

\* "Invalid desired state is recorded and returns without a retry loop"
\* (docs/controller.md): what passes validateSpec() is not refused, and tried
\* again for ever, for being invalid.
ValidIsAdmitted == validateSpec(spec) => Admitted(mutateDeployment(spec))
=============================================================================
