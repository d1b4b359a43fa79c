------------------------ MODULE DeploymentApi_proofs ------------------------
(***************************************************************************)
(* What the deployment routes promise, for any number of requests, models, *)
(* versions and values and any number of writes of others.                 *)
(***************************************************************************)
EXTENDS DeploymentApi, TLAPS

Answers == {None, "ok", "model_version_not_found", "deployment_not_found",
            "deployment_conflict", "invalid_deployment_state", "unavailable"}
Stages == {"unsent", "read", "lookup", "apply", "reread", "delete", "done"}
RequestState ==
    [op: {"none", "put", "rollback", "get", "delete"}, stage: Stages,
     config: Specs \cup {None}, current: BOOLEAN, answer: Answers]

\* A configuration that may be applied, of a version that is registered.
Applicable(config) ==
    /\ config \in Specs /\ Readable(config)
    /\ config.image = Image(config.model, config.version)
    /\ <<config.model, config.version>> \in registered

\* What a request holds where it is.
Holds(r) ==
    /\ request[r].stage = "unsent" => ~request[r].current
    /\ request[r].stage \in {"lookup", "apply"} => request[r].config \in Specs
    /\ request[r].stage = "lookup" => request[r].op \in {"put", "rollback"}
    /\ request[r].stage = "lookup" /\ request[r].op = "put" =>
         /\ Readable(request[r].config)
         /\ request[r].config.image = Image(request[r].config.model, request[r].config.version)
    /\ request[r].stage = "apply" => Applicable(request[r].config)

\* As long as nobody wrote since a rollback read the object, what the rollback
\* keeps is what the object has.
StillCurrent(r) ==
    request[r].op = "rollback" /\ request[r].current
        /\ request[r].stage \in {"lookup", "apply"} =>
        /\ object # None
        /\ \A f \in {"model", "replicas", "cpu"} : request[r].config[f] = object.spec[f]

Inv ==
    /\ TypeOK /\ ImageIsRegistered
    /\ \A r \in Requests : Holds(r) /\ StillCurrent(r)
-----------------------------------------------------------------------------
(* The object.                                                             *)

\* What TypeOK says of the object.
ObjectOK(o) ==
    /\ o \in Objects \cup {None}
    /\ o # None => /\ \A f \in Fields \ {"cpu"} : o.managers[f] # {}
                   /\ o.spec.cpu = None => o.managers["cpu"] = {}
                   /\ o.spec.cpu \in Numbers => o.managers["cpu"] = {"other"}

\* A specification names every field, and only the CPU request may be absent.
LEMMA SpecFields ==
    ASSUME NEW c \in Specs
    PROVE  /\ c = [f \in Fields |-> c[f]]
           /\ c["model"] \in Models /\ c["version"] \in Versions
           /\ c["image"] \in Models \X Versions /\ c["replicas"] \in Replicas
           /\ c["cpu"] \in Quantities \cup Numbers \cup {None}
           /\ \A f \in Fields \ {"cpu"} : c[f] # None
BY ApiAssumption DEF Specs, Fields, Values

\* Five fields of the right types are a specification.
LEMMA IsSpec ==
    ASSUME NEW c, c = [f \in Fields |-> c[f]],
           c["model"] \in Models, c["version"] \in Versions,
           c["image"] \in Models \X Versions, c["replicas"] \in Replicas,
           c["cpu"] \in Quantities \cup Numbers \cup {None}
    PROVE  c \in Specs
BY DEF Specs, Fields, Values

\* Server-side apply of a readable configuration.
LEMMA AppliedIs ==
    ASSUME ObjectOK(object), NEW config \in Specs, Readable(config)
    PROVE  /\ ObjectOK(Applied(config)) /\ Applied(config) \in Objects
           /\ \A f \in {"model", "version", "image", "replicas"} :
                Applied(config).spec[f] = config[f]
<1> DEFINE new == Applied(config)
<1>1. /\ config["model"] \in Models /\ config["version"] \in Versions
      /\ config["image"] \in Models \X Versions /\ config["replicas"] \in Replicas
      /\ config["cpu"] \in Quantities \cup {None} /\ config["cpu"] \notin Numbers
      /\ \A f \in Fields \ {"cpu"} : config[f] # None
  BY SpecFields DEF Readable
<1>2. CASE object = None
  <2>1. /\ new.spec = config
        /\ new = [spec |-> config, managers |-> new.managers]
        /\ new.managers = [f \in Fields |-> IF config[f] = None THEN {} ELSE {"api"}]
    BY <1>2 DEF Applied
  <2> HIDE DEF new
  <2>2. new \in Objects  BY <2>1 DEF Objects, Managers
  <2>3. \A f \in Fields \ {"cpu"} : new.managers[f] = {"api"}  BY <1>1, <2>1
  <2>4. /\ new.spec.cpu = None => new.managers["cpu"] = {}
        /\ new.spec.cpu \notin Numbers
    BY <1>1, <2>1 DEF Fields, Readable
  <2>5. ObjectOK(new)  BY <2>2, <2>3, <2>4 DEF ObjectOK
  <2> QED  BY <2>1, <2>2, <2>5 DEF new
<1>3. CASE object # None
  <2> DEFINE spec == [f \in Fields |->
                 IF config[f] # None THEN config[f]
                 ELSE IF object.managers[f] = {"api"} THEN None ELSE object.spec[f]]
             managers == [f \in Fields |->
                 IF config[f] = None THEN object.managers[f] \ {"api"}
                 ELSE IF config[f] = object.spec[f] THEN object.managers[f] \cup {"api"}
                 ELSE {"api"}]
  <2>1. new = [spec |-> spec, managers |-> managers]  BY <1>3 DEF Applied
  <2>2. /\ object.spec \in Specs /\ object.managers \in [Fields -> SUBSET Managers]
        /\ object.spec["cpu"] = None => object.managers["cpu"] = {}
        /\ object.spec["cpu"] \in Numbers => object.managers["cpu"] = {"other"}
    BY <1>3 DEF ObjectOK, Objects, Specs
  <2>3. object.spec["cpu"] \in Quantities \cup Numbers \cup {None}  BY <2>2, SpecFields
  <2>4. /\ \A f \in Fields \ {"cpu"} : spec[f] = config[f]
        /\ spec["cpu"] = IF config["cpu"] # None THEN config["cpu"]
                         ELSE IF object.managers["cpu"] = {"api"} THEN None
                         ELSE object.spec["cpu"]
        /\ spec = [f \in Fields |-> spec[f]]
    BY <1>1 DEF Fields
  <2>5. /\ managers \in [Fields -> SUBSET Managers]
        /\ \A f \in Fields \ {"cpu"} : "api" \in managers[f]
        /\ managers["cpu"] = IF config["cpu"] = None THEN object.managers["cpu"] \ {"api"}
                             ELSE IF config["cpu"] = object.spec["cpu"]
                               THEN object.managers["cpu"] \cup {"api"} ELSE {"api"}
    BY <1>1, <2>2 DEF Fields, Managers
  <2> HIDE DEF spec, managers
  <2>6. spec \in Specs  BY <1>1, <2>3, <2>4, IsSpec DEF Fields
  <2>7. spec["cpu"] = None => managers["cpu"] = {}  BY <2>2, <2>4, <2>5
  <2>8. spec["cpu"] \in Numbers => managers["cpu"] = {"other"}
    <3>1. None \notin Numbers  BY ApiAssumption
    <3> QED  BY <1>1, <2>2, <2>4, <2>5, <3>1
  <2>9. new \in Objects /\ new.spec = spec /\ new.managers = managers
    BY <2>1, <2>5, <2>6 DEF Objects
  <2> HIDE DEF new
  <2>10. new.spec.cpu = spec["cpu"]  BY <2>6, <2>9 DEF Specs
  <2>11. ObjectOK(new)  BY <2>5, <2>7, <2>8, <2>9, <2>10 DEF ObjectOK
  <2> QED  BY <2>4, <2>9, <2>11 DEF new, Fields
<1> QED  BY <1>2, <1>3
-----------------------------------------------------------------------------
(* The requests.                                                           *)

\* What happens to a request that does not move: what it read may be outdated.
Bystander(s) ==
    /\ request'[s].op = request[s].op /\ request'[s].stage = request[s].stage
    /\ request'[s].config = request[s].config
    /\ request'[s].current => request[s].current /\ object' = object

\* A request that does not move keeps what it holds.
LEMMA BystanderKept ==
    ASSUME Inv, NEW s \in Requests, Bystander(s), registered \subseteq registered'
    PROVE  Holds(s)' /\ StillCurrent(s)'
<1>1. Holds(s) /\ StillCurrent(s)  BY DEF Inv
<1>2. Holds(s)'  BY <1>1 DEF Holds, Bystander, Applicable
<1>3. StillCurrent(s)'  BY <1>1 DEF StillCurrent, Bystander
<1> QED  BY <1>2, <1>3

\* A request moves on, and keeps the first answer that it got.
LEMMA SetIs ==
    ASSUME TypeOK, NEW r \in Requests, NEW stage \in Stages, NEW answer \in Answers
    PROVE  /\ Set(r, stage, answer) \in [Requests -> RequestState]
           /\ \A s \in Requests \ {r} : Set(r, stage, answer)[s] = request[s]
           /\ Set(r, stage, answer)[r].stage = stage
           /\ Set(r, stage, answer)[r].op = request[r].op
           /\ Set(r, stage, answer)[r].config = request[r].config
           /\ Set(r, stage, answer)[r].current = request[r].current
<1> DEFINE first == IF request[r].answer = None THEN answer ELSE request[r].answer
           q == [request[r] EXCEPT !.stage = stage]
           next == [q EXCEPT !.answer = first]
<1>1. request \in [Requests -> RequestState]
  BY DEF TypeOK, RequestState, Stages, Answers
<1>2. request[r] \in RequestState  BY <1>1
<1>3. first \in Answers  BY <1>2 DEF RequestState
<1>4. q \in RequestState  BY <1>2 DEF RequestState
<1>5. next \in RequestState
  <2> HIDE DEF q, first
  <2> QED  BY <1>3, <1>4 DEF RequestState
<1>6. /\ next.stage = stage /\ next.op = request[r].op
      /\ next.config = request[r].config /\ next.current = request[r].current
  BY <1>2 DEF RequestState
<1>7. Set(r, stage, answer) = [request EXCEPT ![r] = next]  BY <1>1 DEF Set
<1> HIDE DEF next
<1> QED  BY <1>1, <1>5, <1>6, <1>7

\* A write outdates what was read of the object, unless it changes nothing.
LEMMA WriteIs ==
    ASSUME NEW others \in [Requests -> RequestState], NEW new, Write(new, others)
    PROVE  /\ request' \in [Requests -> RequestState] /\ object' = new
           /\ \A s \in Requests :
                /\ request'[s].op = others[s].op /\ request'[s].stage = others[s].stage
                /\ request'[s].config = others[s].config
                /\ request'[s].current = (others[s].current /\ new = object)
<1> DEFINE next(s) == [others[s] EXCEPT !.current = @ /\ new = object]
<1>1. ASSUME NEW s \in Requests
      PROVE  /\ next(s) \in RequestState
             /\ next(s).op = others[s].op /\ next(s).stage = others[s].stage
             /\ next(s).config = others[s].config
             /\ next(s).current = (others[s].current /\ new = object)
  <2>1. others[s] \in RequestState  OBVIOUS
  <2> QED  BY <2>1 DEF RequestState
<1>2. request' = [s \in Requests |-> next(s)] /\ object' = new  BY DEF Write
<1> HIDE DEF next
<1> QED  BY <1>1, <1>2
-----------------------------------------------------------------------------
(* The steps.                                                              *)

\* The parts of TypeOK.
LEMMA TypeOKIs ==
    TypeOK <=> /\ registered \subseteq Models \X Versions /\ ObjectOK(object)
               /\ request \in [Requests -> RequestState] /\ edits \in 0..MaxEdits
BY DEF TypeOK, ObjectOK, RequestState, Stages, Answers

\* The same of the next state.
LEMMA TypeOKNext ==
    ASSUME registered' \subseteq Models \X Versions, ObjectOK(object'),
           request' \in [Requests -> RequestState], edits' \in 0..MaxEdits
    PROVE  TypeOK'
BY DEF TypeOK, ObjectOK, RequestState, Stages, Answers

\* A step of a request that writes nothing.
LEMMA ReadKeeps ==
    ASSUME Inv, NEW r \in Requests, UNCHANGED <<registered, object, edits>>,
           request' \in [Requests -> RequestState],
           \A s \in Requests \ {r} : request'[s] = request[s],
           Holds(r)', StillCurrent(r)'
    PROVE  Inv'
<1>1. TypeOK'
  <2>1. /\ registered \subseteq Models \X Versions /\ ObjectOK(object)
        /\ edits \in 0..MaxEdits
    BY TypeOKIs DEF Inv
  <2> QED  BY <2>1, TypeOKNext
<1>2. ImageIsRegistered'  BY DEF Inv, ImageIsRegistered
<1>3. ASSUME NEW s \in Requests \ {r} PROVE Holds(s)' /\ StillCurrent(s)'
  <2>1. Bystander(s)  BY <1>3 DEF Bystander
  <2> QED  BY <2>1, BystanderKept
<1> QED  BY <1>1, <1>2, <1>3 DEF Inv

\* A request that is done holds nothing.
LEMMA DoneKeeps ==
    ASSUME Inv, NEW r \in Requests, NEW answer \in Answers,
           UNCHANGED <<registered, object, edits>>, request' = Set(r, "done", answer)
    PROVE  Inv'
<1>1. TypeOK /\ "done" \in Stages  BY DEF Inv, Stages
<1>2. /\ request' \in [Requests -> RequestState] /\ request'[r].stage = "done"
      /\ \A s \in Requests \ {r} : request'[s] = request[s]
  BY <1>1, SetIs
<1>3. Holds(r)' /\ StillCurrent(r)'  BY <1>2 DEF Holds, StillCurrent
<1> QED  BY <1>2, <1>3, ReadKeeps

\* A request that is sent; the configuration of a put names the version's image.
LEMMA SendKeeps ==
    ASSUME Inv, NEW r \in Requests, Send(r)
    PROVE  Inv'
<1>1. request \in [Requests -> RequestState]  BY TypeOKIs DEF Inv
<1>2. CASE \E config \in Specs :
             /\ config.image = Image(config.model, config.version)
             /\ config.cpu \notin Numbers
             /\ request' = [request EXCEPT ![r] =
                   [Unsent EXCEPT !.op = "put", !.stage = "lookup", !.config = config]]
  <2>1. PICK config \in Specs :
             /\ config.image = Image(config.model, config.version)
             /\ config.cpu \notin Numbers
             /\ request' = [request EXCEPT ![r] =
                   [Unsent EXCEPT !.op = "put", !.stage = "lookup", !.config = config]]
    BY <1>2
  <2> DEFINE next == [Unsent EXCEPT !.op = "put", !.stage = "lookup", !.config = config]
  <2>2. /\ next \in RequestState /\ next.op = "put" /\ next.stage = "lookup"
        /\ next.config = config
    BY DEF Unsent, RequestState, Stages, Answers
  <2> HIDE DEF next
  <2>3. /\ request' \in [Requests -> RequestState] /\ request'[r] = next
        /\ \A s \in Requests \ {r} : request'[s] = request[s]
    BY <1>1, <2>1, <2>2 DEF next
  <2>4. Holds(r)' /\ StillCurrent(r)'
    BY <2>1, <2>2, <2>3 DEF Holds, StillCurrent, Readable
  <2> QED  BY <2>3, <2>4, ReadKeeps DEF Send
<1>3. ASSUME NEW op \in {"get", "rollback", "delete"}, NEW stage \in {"read", "delete"},
             request' = [request EXCEPT ![r] = [Unsent EXCEPT !.op = op, !.stage = stage]]
      PROVE  Inv'
  <2> DEFINE next == [Unsent EXCEPT !.op = op, !.stage = stage]
  <2>1. next \in RequestState /\ next.stage = stage
    BY DEF Unsent, RequestState, Stages, Answers
  <2> HIDE DEF next
  <2>2. /\ request' \in [Requests -> RequestState] /\ request'[r] = next
        /\ \A s \in Requests \ {r} : request'[s] = request[s]
    BY <1>1, <1>3, <2>1 DEF next
  <2>3. Holds(r)' /\ StillCurrent(r)'  BY <2>1, <2>2 DEF Holds, StillCurrent
  <2> QED  BY <2>2, <2>3, ReadKeeps DEF Send
<1> QED  BY <1>2, <1>3 DEF Send

\* A read of the object; a rollback remembers it.
LEMMA GetKeeps ==
    ASSUME Inv, NEW r \in Requests, Get(r)
    PROVE  Inv'
<1>1. request \in [Requests -> RequestState] /\ ObjectOK(object)  BY TypeOKIs DEF Inv
<1>2. UNCHANGED <<registered, object, edits>>  BY DEF Get
<1>3. CASE object = None
  BY <1>2, <1>3, DoneKeeps DEF Get, Answers
<1>4. CASE object # None /\ ~(request[r].op = "rollback" /\ request[r].stage = "read")
  <2>1. request' = Set(r, "done", _resource_to_read(object.spec))  BY <1>4 DEF Get
  <2>2. _resource_to_read(object.spec) \in Answers  BY DEF _resource_to_read, Answers
  <2> QED  BY <1>2, <2>1, <2>2, DoneKeeps
<1>5. CASE object # None /\ request[r].op = "rollback" /\ request[r].stage = "read"
  <2> DEFINE p == [request[r] EXCEPT !.stage = "lookup"]
             q == [p EXCEPT !.config = object.spec]
             next == [q EXCEPT !.current = TRUE]
  <2>1. request' = [request EXCEPT ![r] = next]  BY <1>1, <1>5 DEF Get
  <2>2. object.spec \in Specs  BY <1>1, <1>5 DEF ObjectOK, Objects
  <2>3. p \in RequestState  BY <1>1 DEF RequestState, Stages
  <2>4. q \in RequestState
    <3> HIDE DEF p
    <3> QED  BY <2>2, <2>3 DEF RequestState
  <2>5. next \in RequestState
    <3> HIDE DEF q
    <3> QED  BY <2>4 DEF RequestState
  <2>6. /\ next.op = "rollback" /\ next.stage = "lookup" /\ next.config = object.spec
    BY <1>1, <1>5 DEF RequestState
  <2> HIDE DEF next
  <2>7. /\ request' \in [Requests -> RequestState] /\ request'[r] = next
        /\ \A s \in Requests \ {r} : request'[s] = request[s]
    BY <1>1, <2>1, <2>5
  <2>8. Holds(r)' /\ StillCurrent(r)'
    BY <1>2, <1>5, <2>2, <2>6, <2>7 DEF Holds, StillCurrent
  <2> QED  BY <1>2, <2>7, <2>8, ReadKeeps
<1> QED  BY <1>3, <1>4, <1>5

\* The version is looked up; a rollback takes its image from the registry.
LEMMA GetVersionKeeps ==
    ASSUME Inv, NEW r \in Requests, GetVersion(r)
    PROVE  Inv'
<1> DEFINE config == request[r].config
<1>1. request \in [Requests -> RequestState] /\ TypeOK  BY TypeOKIs DEF Inv
<1>2. UNCHANGED <<registered, object, edits>> /\ request[r].stage = "lookup"
  BY DEF GetVersion
<1>3. Holds(r) /\ StillCurrent(r) /\ config \in Specs  BY <1>2 DEF Inv, Holds
<1>4. ASSUME NEW answer \in Answers, request' = Set(r, "done", answer) PROVE Inv'
  BY <1>2, <1>4, DoneKeeps
<1>5. CASE /\ request[r].op = "put" /\ <<config.model, config.version>> \in registered
           /\ request' = Set(r, "apply", None)
  <2>1. "apply" \in Stages /\ None \in Answers  BY DEF Stages, Answers
  <2>2. /\ request' \in [Requests -> RequestState]
        /\ \A s \in Requests \ {r} : request'[s] = request[s]
        /\ request'[r].stage = "apply" /\ request'[r].op = "put"
        /\ request'[r].config = config
    BY <1>1, <1>5, <2>1, SetIs
  <2>3. Holds(r)' /\ StillCurrent(r)'
    BY <1>2, <1>3, <1>5, <2>2 DEF Holds, StillCurrent, Applicable
  <2> QED  BY <1>2, <2>2, <2>3, ReadKeeps
<1>6. ASSUME NEW version \in Versions, request[r].op = "rollback",
             <<config.model, version>> \in registered, Readable(config),
             request' = [request EXCEPT ![r].stage = "apply",
                                        ![r].config = RolledBack(config, version)]
      PROVE  Inv'
  <2> DEFINE rolled == RolledBack(config, version)
             q == [request[r] EXCEPT !.stage = "apply"]
             next == [q EXCEPT !.config = rolled]
  <2>1. request' = [request EXCEPT ![r] = next]  BY <1>1, <1>6
  <2>2. /\ rolled \in Specs
        /\ rolled.model = config.model /\ rolled.version = version
        /\ rolled.image = Image(config.model, version) /\ rolled.cpu = config.cpu
        /\ \A f \in {"model", "replicas", "cpu"} : rolled[f] = config[f]
    <3>1. config \in [model: Models, version: Versions, image: Models \X Versions,
                      replicas: Replicas, cpu: Quantities \cup Numbers \cup {None}]
      BY <1>3 DEF Specs, Values
    <3> QED  BY <3>1 DEF RolledBack, Image, Specs, Values
  <2> HIDE DEF rolled
  <2>3. q \in RequestState  BY <1>1 DEF RequestState, Stages
  <2>4. next \in RequestState
    <3> HIDE DEF q
    <3> QED  BY <2>2, <2>3 DEF RequestState
  <2>5. /\ next.op = "rollback" /\ next.stage = "apply" /\ next.config = rolled
        /\ next.current = request[r].current
    BY <1>1, <1>6 DEF RequestState
  <2> HIDE DEF next, q
  <2>6. /\ request' \in [Requests -> RequestState] /\ request'[r] = next
        /\ \A s \in Requests \ {r} : request'[s] = request[s]
    BY <1>1, <2>1, <2>4
  <2>7. <<config.model, version>> \in registered /\ Readable(config)
        /\ request[r].op = "rollback"
    BY <1>6
  <2>8. Applicable(rolled)  BY <2>2, <2>7 DEF Applicable, Readable
  <2>9. Holds(r)'  BY <1>2, <2>2, <2>5, <2>6, <2>8 DEF Holds, Applicable
  <2>10. StillCurrent(r)'
    BY <1>2, <1>3, <2>2, <2>5, <2>6, <2>7 DEF StillCurrent
  <2> QED  BY <1>2, <2>6, <2>9, <2>10, ReadKeeps
<1>7. "model_version_not_found" \in Answers /\ "invalid_deployment_state" \in Answers
  BY DEF Answers
<1> QED  BY <1>4, <1>5, <1>6, <1>7 DEF GetVersion

\* What ImageIsRegistered says of an object.
ImageOK(o) ==
    o # None /\ (\A f \in {"model", "version", "image"} : "api" \in o.managers[f])
        => /\ o.spec.image = Image(o.spec.model, o.spec.version)
           /\ <<o.spec.model, o.spec.version>> \in registered

\* A write of a well-formed object, by a request that is through with it or by
\* somebody else.
LEMMA WriteKeeps ==
    ASSUME Inv, NEW others \in [Requests -> RequestState], NEW new, ObjectOK(new),
           ImageOK(new), Write(new, others), UNCHANGED registered, edits' \in 0..MaxEdits,
           \A s \in Requests : others[s] = request[s] \/ others[s].stage \in {"done", "reread"}
    PROVE  Inv'
<1>1. /\ request' \in [Requests -> RequestState] /\ object' = new
      /\ \A s \in Requests :
           /\ request'[s].op = others[s].op /\ request'[s].stage = others[s].stage
           /\ request'[s].config = others[s].config
           /\ request'[s].current = (others[s].current /\ new = object)
  BY WriteIs
<1>2. TypeOK'  BY <1>1, TypeOKIs, TypeOKNext DEF Inv
<1>3. ImageIsRegistered'  BY <1>1 DEF ImageOK, ImageIsRegistered
<1>4. ASSUME NEW s \in Requests PROVE Holds(s)' /\ StillCurrent(s)'
  <2>1. CASE others[s] = request[s]
    <3>1. Bystander(s)  BY <1>1, <2>1 DEF Bystander
    <3> QED  BY <3>1, BystanderKept
  <2>2. CASE others[s].stage \in {"done", "reread"}
    <3>1. request'[s].stage \in {"done", "reread"}  BY <1>1, <2>2
    <3> QED  BY <3>1 DEF Holds, StillCurrent
  <2> QED  BY <2>1, <2>2
<1> QED  BY <1>2, <1>3, <1>4 DEF Inv

\* The API's write: it manages the model, the version and the image it names.
LEMMA ApplyKeeps ==
    ASSUME Inv, NEW r \in Requests, Apply(r)
    PROVE  Inv'
<1> DEFINE config == request[r].config
           new == Applied(config)
           others == IF object = None /\ request[r].answer = None
                       THEN Set(r, "reread", None)
                       ELSE Set(r, "done", _resource_to_read(new.spec))
<1>1. TypeOK /\ ObjectOK(object) /\ edits \in 0..MaxEdits  BY TypeOKIs DEF Inv
<1>2. request[r].stage = "apply" /\ UNCHANGED <<registered, edits>>  BY DEF Apply
<1>3. /\ config \in Specs /\ Readable(config)
      /\ config.image = Image(config.model, config.version)
      /\ <<config.model, config.version>> \in registered
  BY <1>2 DEF Inv, Holds, Applicable
<1>4. CASE request' = Set(r, "done", "deployment_conflict") /\ UNCHANGED object
  BY <1>2, <1>4, DoneKeeps DEF Answers
<1>5. CASE Write(new, others)
  <2>1. ObjectOK(new) /\ new \in Objects
        /\ \A f \in {"model", "version", "image", "replicas"} : new.spec[f] = config[f]
    BY <1>1, <1>3, AppliedIs
  <2>2. ImageOK(new)
    <3>1. new.spec \in Specs  BY <2>1 DEF Objects
    <3> HIDE DEF new, config
    <3>2. /\ new.spec.model = config.model /\ new.spec.version = config.version
          /\ new.spec.image = config.image
      BY <1>3, <2>1, <3>1 DEF Specs
    <3> QED  BY <1>3, <3>2 DEF ImageOK
  <2>3. _resource_to_read(new.spec) \in Answers /\ None \in Answers
    BY DEF _resource_to_read, Answers
  <2>4. "done" \in Stages /\ "reread" \in Stages  BY DEF Stages
  <2>5. /\ others \in [Requests -> RequestState]
        /\ \A s \in Requests : others[s] = request[s] \/ others[s].stage \in {"done", "reread"}
    <3>1. CASE object = None /\ request[r].answer = None
      <4>1. others = Set(r, "reread", None)  BY <3>1
      <4> HIDE DEF others, new
      <4> QED  BY <1>1, <2>3, <2>4, <4>1, SetIs
    <3>2. CASE ~(object = None /\ request[r].answer = None)
      <4>1. others = Set(r, "done", _resource_to_read(new.spec))  BY <3>2
      <4> HIDE DEF others, new
      <4> QED  BY <1>1, <2>3, <2>4, <4>1, SetIs
    <3> QED  BY <3>1, <3>2
  <2> HIDE DEF new, others
  <2>6. registered' = registered /\ edits' \in 0..MaxEdits  BY <1>1, <1>2
  <2> QED  BY <1>5, <2>1, <2>2, <2>5, <2>6, WriteKeeps
<1> QED  BY <1>4, <1>5 DEF Apply

\* The object is deleted.
LEMMA DeleteKeeps ==
    ASSUME Inv, NEW r \in Requests, Delete(r)
    PROVE  Inv'
<1>1. TypeOK /\ edits \in 0..MaxEdits  BY TypeOKIs DEF Inv
<1>2. "done" \in Stages /\ "ok" \in Answers  BY DEF Stages, Answers
<1> DEFINE others == Set(r, "done", "ok")
<1>3. /\ others \in [Requests -> RequestState]
      /\ \A s \in Requests : others[s] = request[s] \/ others[s].stage \in {"done", "reread"}
  BY <1>1, <1>2, SetIs
<1>4. Write(None, others) /\ UNCHANGED <<registered, edits>>  BY DEF Delete
<1>5. ObjectOK(None) /\ ImageOK(None)  BY DEF ObjectOK, ImageOK
<1> HIDE DEF others
<1> QED  BY <1>1, <1>3, <1>4, <1>5, WriteKeeps

\* A request whose call is given up on is done, or its call is still under way.
LEMMA GiveUpKeeps ==
    ASSUME Inv, NEW r \in Requests, GiveUp(r)
    PROVE  Inv'
<1>1. TypeOK /\ UNCHANGED <<registered, object, edits>>  BY DEF Inv, GiveUp
<1>2. "unavailable" \in Answers  BY DEF Answers
<1>3. PICK stage \in {"done", request[r].stage} : request' = Set(r, stage, "unavailable")
  BY DEF GiveUp
<1>4. CASE stage = "done"  BY <1>1, <1>2, <1>3, <1>4, DoneKeeps
<1>5. CASE stage = request[r].stage
  <2>1. stage \in Stages  BY <1>5 DEF GiveUp, Stages
  <2>2. /\ request' \in [Requests -> RequestState]
        /\ \A s \in Requests \ {r} : request'[s] = request[s]
        /\ request'[r].stage = request[r].stage /\ request'[r].op = request[r].op
        /\ request'[r].config = request[r].config
        /\ request'[r].current = request[r].current
    BY <1>1, <1>2, <1>3, <1>5, <2>1, SetIs
  <2>3. Bystander(r)  BY <1>1, <2>2 DEF Bystander
  <2>4. Holds(r)' /\ StillCurrent(r)'  BY <1>1, <2>3, BystanderKept
  <2> QED  BY <1>1, <2>2, <2>4, ReadKeeps
<1> QED  BY <1>3, <1>4, <1>5

\* A version is registered.
LEMMA RegisterKeeps ==
    ASSUME Inv, NEW model \in Models, NEW version \in Versions, Register(model, version)
    PROVE  Inv'
<1>1. UNCHANGED <<object, request, edits>> /\ registered \subseteq registered'
      /\ registered' \subseteq Models \X Versions
  BY DEF Inv, TypeOK, Register
<1>2. TypeOK'  BY <1>1, TypeOKIs, TypeOKNext DEF Inv
<1>3. ImageIsRegistered'  BY <1>1 DEF Inv, ImageIsRegistered
<1>4. ASSUME NEW s \in Requests PROVE Holds(s)' /\ StillCurrent(s)'
  <2>1. Bystander(s)  BY <1>1 DEF Bystander
  <2> QED  BY <1>1, <2>1, BystanderKept
<1> QED  BY <1>2, <1>3, <1>4 DEF Inv

\* A field of the object gets a value of its type.
LEMMA FieldSet ==
    ASSUME NEW spec \in Specs, NEW f \in Fields, NEW value \in Values(f)
    PROVE  /\ [spec EXCEPT ![f] = value] \in Specs
           /\ value = None => f = "cpu"
           /\ [spec EXCEPT ![f] = value].cpu = IF f = "cpu" THEN value ELSE spec.cpu
<1> DEFINE next == [spec EXCEPT ![f] = value]
<1>1. /\ spec = [g \in Fields |-> spec[g]]
      /\ spec["model"] \in Models /\ spec["version"] \in Versions
      /\ spec["image"] \in Models \X Versions /\ spec["replicas"] \in Replicas
      /\ spec["cpu"] \in Quantities \cup Numbers \cup {None}
  BY SpecFields
<1>2. /\ f = "model" => value \in Models
      /\ f = "version" => value \in Versions
      /\ f = "image" => value \in Models \X Versions
      /\ f = "replicas" => value \in Replicas
      /\ f = "cpu" => value \in Quantities \cup Numbers \cup {None}
  BY DEF Values
<1>3. f \in {"model", "version", "image", "replicas", "cpu"}  BY DEF Fields
<1>4. \A g \in Fields : next[g] = IF g = f THEN value ELSE spec[g]  BY <1>1
<1>5. next = [g \in Fields |-> next[g]]  BY <1>1
<1> HIDE DEF next
<1>6. next \in Specs  BY <1>1, <1>2, <1>4, <1>5, IsSpec DEF Fields
<1>7. value = None => f = "cpu"  BY <1>2, <1>3, ApiAssumption
<1>8. next.cpu = next["cpu"] /\ spec.cpu = spec["cpu"]  BY <1>6 DEF Specs
<1> QED  BY <1>4, <1>6, <1>7, <1>8 DEF next, Fields

\* A kubectl user takes over a field.
LEMMA EditedIs ==
    ASSUME ObjectOK(object), object # None, NEW f \in Fields, NEW value \in Values(f),
           NEW new,
           new = [spec |-> [object.spec EXCEPT ![f] = value],
                  managers |-> [object.managers EXCEPT ![f] =
                                  IF value = None THEN {} ELSE {"other"}]],
           ImageIsRegistered
    PROVE  ObjectOK(new) /\ ImageOK(new)
<1> DEFINE spec == [object.spec EXCEPT ![f] = value]
           by == IF value = None THEN {} ELSE {"other"}
           managers == [object.managers EXCEPT ![f] = by]
<1>1. /\ object.spec \in Specs /\ object.managers \in [Fields -> SUBSET Managers]
      /\ \A g \in Fields \ {"cpu"} : object.managers[g] # {}
      /\ object.spec.cpu = None => object.managers["cpu"] = {}
      /\ object.spec.cpu \in Numbers => object.managers["cpu"] = {"other"}
  BY DEF ObjectOK, Objects
<1>2. /\ spec \in Specs
      /\ spec.cpu = IF f = "cpu" THEN value ELSE object.spec.cpu
      /\ value = None => f = "cpu"
  BY <1>1, FieldSet
<1>3. by \in SUBSET Managers /\ "api" \notin by /\ (by = {} => value = None)
      /\ (value = None => by = {}) /\ (value # None => by = {"other"})
  BY DEF Managers
<1> HIDE DEF by
<1>4. /\ managers \in [Fields -> SUBSET Managers]
      /\ \A g \in Fields : managers[g] = IF g = f THEN by ELSE object.managers[g]
  BY <1>1, <1>3
<1>5. new = [spec |-> spec, managers |-> managers]  BY DEF by
<1> HIDE DEF spec, managers
<1>6. new \in Objects /\ new.spec = spec /\ new.managers = managers
  <2>1. [spec |-> spec, managers |-> managers] \in Objects  BY <1>2, <1>4 DEF Objects
  <2>2. new.spec = spec /\ new.managers = managers  BY <1>5
  <2> QED  BY <1>5, <2>1, <2>2
<1>7. \A g \in Fields \ {"cpu"} : managers[g] # {}  BY <1>1, <1>2, <1>3, <1>4
<1>8. /\ spec.cpu = None => managers["cpu"] = {}
      /\ spec.cpu \in Numbers => managers["cpu"] = {"other"}
  BY <1>1, <1>2, <1>3, <1>4, ApiAssumption DEF Fields
<1>9. ObjectOK(new)  BY <1>6, <1>7, <1>8 DEF ObjectOK
<1>10. ASSUME \A g \in {"model", "version", "image"} : "api" \in managers[g]
       PROVE  /\ spec.image = Image(spec.model, spec.version)
              /\ <<spec.model, spec.version>> \in registered
  <2>1. f \notin {"model", "version", "image"}  BY <1>3, <1>4, <1>10 DEF Fields
  <2>2. \A g \in {"model", "version", "image"} : "api" \in object.managers[g]
    BY <1>4, <1>10, <2>1 DEF Fields
  <2>3. /\ spec.model = object.spec.model /\ spec.version = object.spec.version
        /\ spec.image = object.spec.image
    BY <1>1, <2>1 DEF spec, Specs
  <2> QED  BY <2>2, <2>3 DEF ImageIsRegistered
<1>11. ImageOK(new)  BY <1>6, <1>10 DEF ImageOK
<1> QED  BY <1>9, <1>11

\* A kubectl user creates the object.
LEMMA CreatedIs ==
    ASSUME NEW spec \in Specs, NEW new,
           new = [spec |-> spec, managers |-> [f \in Fields |->
                          IF spec[f] = None THEN {} ELSE {"other"}]]
    PROVE  ObjectOK(new) /\ ImageOK(new)
<1> DEFINE managers == [f \in Fields |-> IF spec[f] = None THEN {} ELSE {"other"}]
<1>1. /\ managers \in [Fields -> SUBSET Managers]
      /\ \A f \in Fields : managers[f] = IF spec[f] = None THEN {} ELSE {"other"}
  BY DEF Managers
<1> HIDE DEF managers
<1>2. new \in Objects /\ new.spec = spec /\ new.managers = managers
  BY <1>1 DEF Objects, managers
<1>3. \A f \in Fields \ {"cpu"} : managers[f] = {"other"}  BY <1>1, SpecFields
<1>4. spec.cpu = spec["cpu"] /\ "cpu" \in Fields /\ "model" \in Fields \ {"cpu"}
  BY DEF Specs, Fields
<1>5. /\ spec.cpu = None => managers["cpu"] = {}
      /\ spec.cpu \in Numbers => managers["cpu"] = {"other"}
  BY <1>1, <1>4, ApiAssumption
<1>6. ObjectOK(new)  BY <1>2, <1>3, <1>5 DEF ObjectOK
<1>7. "api" \notin new.managers["model"]  BY <1>2, <1>3, <1>4
<1>8. ImageOK(new)  BY <1>7 DEF ImageOK
<1> QED  BY <1>6, <1>8

\* Everybody else writes.
LEMMA EditKeeps ==
    ASSUME Inv, Edit
    PROVE  Inv'
<1>1. /\ ObjectOK(object) /\ request \in [Requests -> RequestState]
      /\ edits \in 0..MaxEdits /\ registered \subseteq Models \X Versions
  BY TypeOKIs DEF Inv
<1>2. edits' \in 0..MaxEdits /\ UNCHANGED registered  BY <1>1, ApiAssumption DEF Edit
<1>3. ASSUME NEW new, ObjectOK(new), ImageOK(new), Write(new, request) PROVE Inv'
  BY <1>1, <1>2, <1>3, WriteKeeps
<1>4. ASSUME NEW f \in Fields, NEW value \in Values(f), object # None,
             Write([spec |-> [object.spec EXCEPT ![f] = value],
                    managers |-> [object.managers EXCEPT ![f] =
                                    IF value = None THEN {} ELSE {"other"}]], request)
      PROVE  Inv'
  <2> DEFINE new == [spec |-> [object.spec EXCEPT ![f] = value],
                     managers |-> [object.managers EXCEPT ![f] =
                                     IF value = None THEN {} ELSE {"other"}]]
  <2>1. ObjectOK(new) /\ ImageOK(new)  BY <1>1, <1>4, EditedIs DEF Inv
  <2>2. Write(new, request)  BY <1>4
  <2> HIDE DEF new
  <2> QED  BY <1>3, <2>1, <2>2
<1>5. ASSUME NEW spec \in Specs,
             Write([spec |-> spec, managers |-> [f \in Fields |->
                          IF spec[f] = None THEN {} ELSE {"other"}]], request)
      PROVE  Inv'
  <2> DEFINE new == [spec |-> spec, managers |-> [f \in Fields |->
                          IF spec[f] = None THEN {} ELSE {"other"}]]
  <2>1. ObjectOK(new) /\ ImageOK(new)  BY CreatedIs
  <2>2. Write(new, request)  BY <1>5
  <2> HIDE DEF new
  <2> QED  BY <1>3, <2>1, <2>2
<1>6. CASE Write(None, request)
  <2>1. ObjectOK(None) /\ ImageOK(None)  BY DEF ObjectOK, ImageOK
  <2> QED  BY <1>3, <1>6, <2>1
<1>7. CASE /\ request' = [r \in Requests |-> [request[r] EXCEPT !.current = FALSE]]
           /\ UNCHANGED object
  <2>1. ASSUME NEW s \in Requests
        PROVE  /\ request'[s] \in RequestState /\ Bystander(s)
    <3>1. request'[s] = [request[s] EXCEPT !.current = FALSE]  BY <1>7
    <3>2. request[s] \in RequestState  BY <1>1
    <3> QED  BY <3>1, <3>2 DEF RequestState, Bystander
  <2>2. request' \in [Requests -> RequestState]  BY <1>7, <2>1
  <2>3. TypeOK'  BY <1>1, <1>2, <1>7, <2>2, TypeOKNext
  <2>4. ImageIsRegistered'  BY <1>2, <1>7 DEF Inv, ImageIsRegistered
  <2> QED  BY <1>2, <2>1, <2>3, <2>4, BystanderKept DEF Inv
<1> QED  BY <1>4, <1>5, <1>6, <1>7 DEF Edit
-----------------------------------------------------------------------------
(* The theorems.                                                           *)

\* The invariant holds of a cluster without the object.
LEMMA InitInv == Init => Inv
<1> SUFFICES ASSUME Init PROVE Inv  OBVIOUS
<1>1. Unsent \in RequestState  BY DEF Unsent, RequestState, Stages, Answers
<1>2. TypeOK  BY <1>1, ApiAssumption, TypeOKIs DEF Init, ObjectOK
<1>3. ASSUME NEW r \in Requests PROVE Holds(r) /\ StillCurrent(r)
  BY DEF Init, Unsent, Holds, StillCurrent
<1> QED  BY <1>2, <1>3 DEF Init, Inv, ImageIsRegistered

\* Every step keeps the invariant.
LEMMA NextInv == Inv /\ [Next]_vars => Inv'
<1> SUFFICES ASSUME Inv, [Next]_vars PROVE Inv'  OBVIOUS
<1>1. CASE UNCHANGED vars
  BY <1>1 DEF vars, Inv, TypeOK, ImageIsRegistered, Holds, StillCurrent, Applicable
<1> QED
  BY <1>1, SendKeeps, GetKeeps, GetVersionKeeps, ApplyKeeps, DeleteKeeps, GiveUpKeeps,
     RegisterKeeps, EditKeeps DEF Next

\* The inductive invariant.
THEOREM Invariance == Spec => []Inv
<1> QED  BY InitInv, NextInv, PTL DEF Spec

\* Object, requests and registry keep their types; every required field has a
\* manager, and only others than the API write numbers.
THEOREM TypeOKHolds == Spec => []TypeOK
<1>1. Inv => TypeOK  BY DEF Inv
<1> QED  BY <1>1, Invariance, PTL

\* While the API manages model, version and image, the image is the one that is
\* registered for the version: neither a rollback of an object that was edited
\* since nor a late write mixes two versions.
THEOREM ImageIsRegisteredHolds == Spec => []ImageIsRegistered
<1>1. Inv => ImageIsRegistered  BY DEF Inv
<1> QED  BY <1>1, Invariance, PTL

\* The API writes by applying a configuration that conflicts with nobody and,
\* in a rollback, on the object that it read; or it deletes.
LEMMA ApiWrites ==
    ASSUME Inv, [Next]_vars, object' # object, edits' = edits
    PROVE  \E s \in Requests :
             \/ Delete(s) /\ object' = None
             \/ /\ Apply(s) /\ Precondition(s) /\ ~Conflicts(request[s].config)
                /\ object' = Applied(request[s].config)
<1>1. ~Edit
  <2>1. edits \in Nat  BY ApiAssumption DEF Inv, TypeOK
  <2> QED  BY <2>1 DEF Edit
<1>2. ASSUME NEW r \in Requests, Send(r) \/ Get(r) \/ GetVersion(r) \/ GiveUp(r) PROVE FALSE
  BY <1>2 DEF Send, Get, GetVersion, GiveUp
<1>3. ASSUME NEW m \in Models, NEW v \in Versions, Register(m, v) PROVE FALSE
  BY <1>3 DEF Register
<1>4. PICK s \in Requests : Delete(s) \/ Apply(s)
  BY <1>1, <1>2, <1>3 DEF Next, vars
<1>5. CASE Delete(s)  BY <1>5 DEF Delete, Write
<1>6. CASE Apply(s)  BY <1>6 DEF Apply, Write
<1> QED  BY <1>4, <1>5, <1>6

\* A request's write moves no other request.
LEMMA WriteMovesNoOther ==
    ASSUME Inv, NEW s \in Requests, Apply(s) \/ Delete(s), NEW r \in Requests \ {s}
    PROVE  request'[r].stage = request[r].stage
<1>1. TypeOK  BY DEF Inv
<1>2. ASSUME NEW stage \in Stages, NEW answer \in Answers, NEW new,
             \/ request' = Set(s, stage, answer)
             \/ Write(new, Set(s, stage, answer))
      PROVE  request'[r].stage = request[r].stage
  <2> DEFINE others == Set(s, stage, answer)
  <2>1. others \in [Requests -> RequestState] /\ others[r] = request[r]  BY <1>1, SetIs
  <2>2. request' = others \/ Write(new, others)  BY <1>2
  <2> HIDE DEF others
  <2> QED  BY <2>1, <2>2, WriteIs
<1>3. /\ "done" \in Stages /\ "reread" \in Stages
      /\ "ok" \in Answers /\ "deployment_conflict" \in Answers /\ None \in Answers
  BY DEF Stages, Answers
<1>4. CASE Delete(s)
  <2>1. Write(None, Set(s, "done", "ok"))  BY <1>4 DEF Delete
  <2> QED  BY <1>2, <1>3, <2>1
<1>5. CASE Apply(s)
  <2> DEFINE new == Applied(request[s].config)
             read == _resource_to_read(new.spec)
  <2>1. read \in Answers  BY DEF _resource_to_read, Answers
  <2>2. \/ request' = Set(s, "done", "deployment_conflict")
        \/ Write(new, Set(s, "reread", None)) \/ Write(new, Set(s, "done", read))
    BY <1>5 DEF Apply
  <2> HIDE DEF new, read
  <2> QED  BY <1>2, <1>3, <2>1, <2>2
<1> QED  BY <1>4, <1>5

\* Applying without force changes no field that somebody else manages, even
\* where it takes a field out of the configuration.
THEOREM NothingStolenHolds == Spec => NothingStolen
<1>1. ASSUME Inv, [Next]_vars, object # None, object' # None, edits' = edits,
             NEW f \in Fields, "other" \in object.managers[f]
      PROVE  object'.spec[f] = object.spec[f]
  <2>1. CASE object' = object  BY <2>1
  <2>2. CASE object' # object
    <3>1. PICK s \in Requests : ~Conflicts(request[s].config)
                                  /\ object' = Applied(request[s].config)
      BY <1>1, <2>2, ApiWrites
    <3> DEFINE config == request[s].config
    <3>2. config[f] = None \/ config[f] = object.spec[f]  BY <1>1, <3>1 DEF Conflicts
    <3>3. object'.spec[f] = IF config[f] # None THEN config[f]
                            ELSE IF object.managers[f] = {"api"} THEN None
                            ELSE object.spec[f]
      BY <1>1, <3>1 DEF Applied
    <3>4. object.managers[f] # {"api"}  BY <1>1
    <3> HIDE DEF config
    <3> QED  BY <3>2, <3>3, <3>4
  <2> QED  BY <2>1, <2>2
<1>2. Inv /\ [Next]_vars =>
        [object # None /\ object' # None /\ edits' = edits
           => \A f \in Fields : "other" \in object.managers[f]
                  => object'.spec[f] = object.spec[f]]_vars
  BY <1>1
<1> QED  BY <1>2, Invariance, PTL DEF Spec, NothingStolen

\* The resourceVersion that a rollback read makes sure that what it keeps is
\* what the object has when it is written.
THEOREM RollbackKeepsTheRestHolds == Spec => RollbackKeepsTheRest
<1>1. ASSUME Inv, [Next]_vars, NEW r \in Requests, request[r].op = "rollback",
             object' # object, edits' = edits,
             request[r].stage = "apply", request'[r].stage # "apply"
      PROVE  /\ object # None
             /\ \A f \in {"model", "replicas", "cpu"} : object'.spec[f] = object.spec[f]
  <2>1. PICK s \in Requests :
             \/ Delete(s) /\ object' = None
             \/ /\ Apply(s) /\ Precondition(s) /\ ~Conflicts(request[s].config)
                /\ object' = Applied(request[s].config)
    BY <1>1, ApiWrites
  <2>2. s = r  BY <1>1, <2>1, WriteMovesNoOther
  <2>3. ~Delete(s)  BY <1>1, <2>2 DEF Delete
  <2>4. Precondition(r) /\ object' = Applied(request[r].config)  BY <2>1, <2>2, <2>3
  <2>5. request[r].current  BY <1>1, <2>4 DEF Precondition
  <2>6. /\ object # None
        /\ \A f \in {"model", "replicas", "cpu"} : request[r].config[f] = object.spec[f]
    BY <1>1, <2>5 DEF Inv, StillCurrent
  <2>7. ObjectOK(object) /\ request[r].config \in Specs
    BY <1>1, TypeOKIs DEF Inv, Holds
  <2>8. ASSUME NEW f \in {"model", "replicas", "cpu"}
        PROVE  object'.spec[f] = object.spec[f]
    <3> DEFINE config == request[r].config
    <3>1. f \in Fields  BY DEF Fields
    <3>2. object'.spec[f] = IF config[f] # None THEN config[f]
                            ELSE IF object.managers[f] = {"api"} THEN None
                            ELSE object.spec[f]
      BY <2>4, <2>6, <3>1 DEF Applied
    <3>3. config[f] = object.spec[f]  BY <2>6
    <3> HIDE DEF config
    <3> QED  BY <3>2, <3>3
  <2> QED  BY <2>6, <2>8
<1>2. Inv /\ [Next]_vars =>
        [\A r \in Requests :
           request[r].op = "rollback" /\ object' # object /\ edits' = edits
             /\ request[r].stage = "apply" /\ request'[r].stage # "apply"
           => /\ object # None
              /\ \A f \in {"model", "replicas", "cpu"} :
                   object'.spec[f] = object.spec[f]]_vars
  BY <1>1
<1> QED  BY <1>2, Invariance, PTL DEF Spec, RollbackKeepsTheRest
=============================================================================
