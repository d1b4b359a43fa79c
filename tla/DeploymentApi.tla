---------------------------- MODULE DeploymentApi ----------------------------
(***************************************************************************)
(* The deployment routes (app/deployment_routes.py) and their Kubernetes   *)
(* gateway (app/kubernetes.py) on one ModelDeployment, shared by requests  *)
(* to any API replica, by kubectl users and by the controller.             *)
(*                                                                         *)
(* A request takes one step per call that it awaits.  The object is what   *)
(* server-side apply sees of it: a value and a set of managers per field.  *)
(* A call that the gateway gives up on may still be carried out.           *)
(***************************************************************************)
EXTENDS Integers

CONSTANTS
    Requests,
    Models, Versions,
    Replicas,       \* stands for replicas and port
    Quantities,     \* a CPU request, as a string
    Numbers,        \* a CPU request, as a number: the CRD takes both
    None,           \* an absent object, field or value
    MaxEdits        \* bound: writes of others than the API

VARIABLES
    registered,     \* model versions in the registry
    object,         \* the ModelDeployment's spec and managers
    request,        \* where each request is
    edits

vars == <<registered, object, request, edits>>

Fields == {"model", "version", "image", "replicas", "cpu"}
Managers == {"api", "other"}

\* The immutable image of a registered version (ModelRegistry).
Image(model, version) == <<model, version>>

Values(f) ==
    CASE f = "model" -> Models
      [] f = "version" -> Versions
      [] f = "image" -> Models \X Versions
      [] f = "replicas" -> Replicas
      [] f = "cpu" -> Quantities \cup Numbers \cup {None}

Specs == [model: Models, version: Versions, image: Models \X Versions,
          replicas: Replicas, cpu: Values("cpu")]
Objects == [spec: Specs, managers: [Fields -> SUBSET Managers]]

ASSUME ApiAssumption ==
    /\ MaxEdits \in Nat /\ Quantities \cap Numbers = {}
    /\ None \notin Models \cup Versions \cup Replicas \cup Quantities \cup Numbers
    /\ None \notin (Models \X Versions) \cup Specs \cup Objects

Unsent == [op |-> "none", stage |-> "unsent", config |-> None, current |-> FALSE,
           answer |-> None]

TypeOK ==
    /\ registered \subseteq Models \X Versions
    /\ object \in Objects \cup {None}
    /\ object # None => /\ \A f \in Fields \ {"cpu"} : object.managers[f] # {}
                        /\ object.spec.cpu = None => object.managers["cpu"] = {}
                        /\ object.spec.cpu \in Numbers => object.managers["cpu"] = {"other"}
    /\ request \in [Requests ->
          [op: {"none", "put", "rollback", "get", "delete"},
           stage: {"unsent", "read", "lookup", "apply", "reread", "delete", "done"},
           config: Specs \cup {None}, current: BOOLEAN,
           answer: {None, "ok", "model_version_not_found", "deployment_not_found",
                    "deployment_conflict", "invalid_deployment_state",
                    "unavailable"}]]
    /\ edits \in 0..MaxEdits

Init ==
    /\ registered = {}
    /\ object = None
    /\ request = [r \in Requests |-> Unsent]
    /\ edits = 0
-----------------------------------------------------------------------------
(* The API server.                                                         *)

\* Mutant: apply with force=True.
ConflictsForced(config) == FALSE

\* Without force, apply refuses to change a field that others manage.
Conflicts(config) ==
    /\ object # None
    /\ \E f \in Fields : /\ config[f] # None
                         /\ config[f] # object.spec[f]
                         /\ "other" \in object.managers[f]

\* Fields in the configuration are set and managed, fields that only this
\* manager had and that are not in it any more go.
Applied(config) ==
    IF object = None
      THEN [spec |-> config,
            managers |-> [f \in Fields |-> IF config[f] = None THEN {} ELSE {"api"}]]
      ELSE [spec |-> [f \in Fields |->
                        IF config[f] # None THEN config[f]
                        ELSE IF object.managers[f] = {"api"} THEN None ELSE object.spec[f]],
            managers |-> [f \in Fields |->
                        IF config[f] = None THEN object.managers[f] \ {"api"}
                        ELSE IF config[f] = object.spec[f] THEN object.managers[f] \cup {"api"}
                        ELSE {"api"}]]

\* A write gives the object a resourceVersion that no request has read.
Write(new, others) ==
    /\ object' = new
    /\ request' = [r \in Requests |->
          [others[r] EXCEPT !.current = @ /\ new = object]]

Set(r, stage, answer) ==
    [request EXCEPT ![r].stage = stage,
                    ![r].answer = IF request[r].answer = None THEN answer ELSE @]
-----------------------------------------------------------------------------
(* The routes.                                                             *)

Send(r) ==
    /\ request[r].stage = "unsent"
    /\ \/ \E config \in Specs :
             /\ config.image = Image(config.model, config.version)
             /\ config.cpu \notin Numbers
             /\ request' = [request EXCEPT ![r] =
                   [Unsent EXCEPT !.op = "put", !.stage = "lookup", !.config = config]]
       \/ \E op \in {"get", "rollback"} :
             request' = [request EXCEPT ![r] = [Unsent EXCEPT !.op = op, !.stage = "read"]]
       \/ request' = [request EXCEPT ![r] = [Unsent EXCEPT !.op = "delete", !.stage = "delete"]]
    /\ UNCHANGED <<registered, object, edits>>

\* Mutant: numbers are converted.
ReadableNumbers(spec) == TRUE

\* DeploymentResources takes strings only.
Readable(spec) == spec.cpu \notin Numbers

_resource_to_read(spec) == IF Readable(spec) THEN "ok" ELSE "invalid_deployment_state"

\* get_deployment(), the end of an apply() that created, and the first call of
\* rollback_deployment(), which keeps what it read, the resourceVersion too.
Get(r) ==
    /\ request[r].stage \in {"read", "reread"}
    /\ IF object = None THEN request' = Set(r, "done", "deployment_not_found")
       ELSE IF request[r].op = "rollback" /\ request[r].stage = "read"
       THEN request' = [request EXCEPT ![r].stage = "lookup", ![r].config = object.spec,
                                       ![r].current = TRUE]
       ELSE request' = Set(r, "done", _resource_to_read(object.spec))
    /\ UNCHANGED <<registered, object, edits>>

\* Mutant: a rollback keeps the image that it read.
RolledBackImageKept(config, version) == [config EXCEPT !.version = version]

\* DeploymentUpsert and _desired_resource() of a rollback
RolledBack(config, version) ==
    [config EXCEPT !.version = version, !.image = Image(config.model, version)]

\* RegistryRepository.get_version(), and the check of what was read
GetVersion(r) ==
    LET config == request[r].config IN
    /\ request[r].stage = "lookup"
    /\ \/ /\ request[r].op = "put"
          /\ request' = IF <<config.model, config.version>> \in registered
                          THEN Set(r, "apply", None)
                          ELSE Set(r, "done", "model_version_not_found")
       \/ /\ request[r].op = "rollback"
          /\ \E version \in Versions :
                request' = IF <<config.model, version>> \notin registered
                             THEN Set(r, "done", "model_version_not_found")
                           ELSE IF ~Readable(config)
                             THEN Set(r, "done", "invalid_deployment_state")
                           ELSE [request EXCEPT ![r].stage = "apply",
                                                ![r].config = RolledBack(config, version)]
    /\ UNCHANGED <<registered, object, edits>>

\* Mutant: the rollback's resourceVersion is not sent.
PreconditionDropped(r) == TRUE

\* A rollback names the resourceVersion that it read.
Precondition(r) == request[r].op = "rollback" => request[r].current

\* gateway.apply(); the client library drops the body of a 201, so that a
\* created object is read again.
Apply(r) ==
    LET new == Applied(request[r].config) IN
    /\ request[r].stage = "apply"
    /\ IF ~Precondition(r) \/ Conflicts(request[r].config)
         THEN request' = Set(r, "done", "deployment_conflict") /\ UNCHANGED object
         ELSE Write(new, IF object = None /\ request[r].answer = None
                           THEN Set(r, "reread", None)
                           ELSE Set(r, "done", _resource_to_read(new.spec)))
    /\ UNCHANGED <<registered, edits>>

\* delete_deployment(): a missing object is deleted, too.
Delete(r) ==
    /\ request[r].stage = "delete"
    /\ Write(None, Set(r, "done", "ok"))
    /\ UNCHANGED <<registered, edits>>

\* _execute() or the registry's session gives up.  A write that is under way
\* may still arrive.
GiveUp(r) ==
    /\ request[r].answer = None
    /\ request[r].stage \in {"read", "lookup", "reread", "apply", "delete"}
    /\ \E stage \in {"done", request[r].stage} :
          /\ stage \in {"done", "apply", "delete"}
          /\ request' = Set(r, stage, "unavailable")
    /\ UNCHANGED <<registered, object, edits>>
-----------------------------------------------------------------------------
(* Everybody else.                                                         *)

Register(model, version) ==
    /\ <<model, version>> \notin registered
    /\ registered' = registered \cup {<<model, version>>}
    /\ UNCHANGED <<object, request, edits>>

\* kubectl takes over a field, creates the object, deletes it; the
\* controller writes the status.
Edit ==
    /\ edits < MaxEdits
    /\ edits' = edits + 1
    /\ \/ \E f \in Fields : \E value \in Values(f) :
             /\ object # None /\ object.spec[f] # value
             /\ Write([spec |-> [object.spec EXCEPT ![f] = value],
                       managers |-> [object.managers EXCEPT ![f] =
                                       IF value = None THEN {} ELSE {"other"}]], request)
       \/ /\ object = None
          /\ \E spec \in Specs :
                Write([spec |-> spec, managers |-> [f \in Fields |->
                          IF spec[f] = None THEN {} ELSE {"other"}]], request)
       \/ object # None /\ Write(None, request)
       \/ /\ object # None
          /\ request' = [r \in Requests |-> [request[r] EXCEPT !.current = FALSE]]
          /\ UNCHANGED object
    /\ UNCHANGED registered

Next ==
    \/ \E r \in Requests : Send(r) \/ Get(r) \/ GetVersion(r) \/ Apply(r) \/ Delete(r) \/ GiveUp(r)
    \/ \E model \in Models, version \in Versions : Register(model, version)
    \/ Edit

Spec == Init /\ [][Next]_vars
-----------------------------------------------------------------------------
(* Properties                                                              *)

\* "Rollback preserves current replicas, port, and resources, changes
\* version/image" (docs/deployments.md): current when it is applied, whatever
\* puts, edits and late calls came between its read and its write.
RollbackKeepsTheRest ==
    [][\A r \in Requests :
         request[r].op = "rollback" /\ object' # object /\ edits' = edits
           /\ request[r].stage = "apply" /\ request'[r].stage # "apply"
         => /\ object # None
            /\ \A f \in {"model", "replicas", "cpu"} : object'.spec[f] = object.spec[f]]_vars

\* "A conflicting kubectl or other manager-owned field therefore returns 409
\* instead of being silently stolen" (docs/architecture.md), however the API
\* came to write it.
NothingStolen ==
    [][object # None /\ object' # None /\ edits' = edits
         => \A f \in Fields : "other" \in object.managers[f]
                => object'.spec[f] = object.spec[f]]_vars

\* "The runtime image is not caller-controlled": while the API manages model,
\* version and image, the image is the registered one of that version.
ImageIsRegistered ==
    object # None /\ (\A f \in {"model", "version", "image"} : "api" \in object.managers[f])
        => /\ object.spec.image = Image(object.spec.model, object.spec.version)
           /\ <<object.spec.model, object.spec.version>> \in registered

\* "Read returns the CR's desired spec" (docs/architecture.md): a read that
\* finds the object is answered with it.
ReadReturnsSpec ==
    \A r \in Requests :
        request[r].op = "get" => request[r].answer # "invalid_deployment_state"
=============================================================================
