---------------------------- MODULE ModelRegistry ----------------------------
(***************************************************************************)
(* The model registry: the PUT and list routes of app/routes.py and the    *)
(* statements that app/repository.py sends to PostgreSQL for them.         *)
(*                                                                         *)
(* One step is one statement: a SELECT, or an INSERT or UPDATE with its    *)
(* COMMIT.  At the default isolation level every statement sees what is    *)
(* committed when it starts, so requests interleave between any two.       *)
(***************************************************************************)
EXTENDS Integers, FiniteSets

CONSTANTS
    Requests,      \* PUT requests, of all API replicas
    Names,         \* model names, in their order
    Versions,
    Descriptions,  \* null is one of them
    Artifacts,     \* a runtime image with its digest
    None,          \* no row
    PageLimit,     \* ?limit= of a client that lists the models
    MaxLost        \* bound: statements that fail

VARIABLES
    models,    \* table models: the description of each name
    versions,  \* table model_versions: the content of each version
    request,   \* where each request is, and its answer
    walk,      \* a client that lists all the models, page by page
    lost       \* statements that failed so far

vars == <<models, versions, request, walk, lost>>

\* JSON metadata.  Python reads the documents 1 and true as equal values.
Metadata == {"1", "true", "text"}
PythonEqual(a, b) == a = b \/ {a, b} = {"1", "true"}
Content == [artifact: Artifacts, metadata: Metadata]

ASSUME RegistryAssumption ==
    /\ Names \subseteq Int /\ IsFiniteSet(Names)
    /\ None \notin Names \cup Versions \cup Descriptions \cup Content
    /\ PageLimit \in Nat \ {0} /\ MaxLost \in Nat

version_matches(row, body) ==
    row.artifact = body.artifact /\ PythonEqual(row.metadata, body.metadata)

\* A request is at the statement it is about to send; outcome is what it has
\* made of the registry, status and shown are what it is answered.
ServerErrors == {500, 503}
Statements == {"get_model", "insert_model", "reget_model", "update_model",
               "check_model", "get_version", "insert_version", "reget_version",
               "refresh"}
RequestState ==
    [pc: {"unsent", "answered"} \cup Statements,
     name: Names \cup {None}, version: Versions \cup {None},
     body: Descriptions \cup Content \cup {None},
     outcome: {"pending", "created", "ok", "conflict", "not_found"},
     status: {0, 200, 201, 404, 409} \cup ServerErrors,
     shown: Descriptions \cup Content \cup {None}]

Unsent == [pc |-> "unsent", name |-> None, version |-> None, body |-> None,
           outcome |-> "pending", status |-> 0, shown |-> None]

Registered == {n \in Names : models[n] # None}

TypeOK ==
    /\ models \in [Names -> Descriptions \cup {None}]
    /\ versions \in [Names -> [Versions -> Content \cup {None}]]
    /\ request \in [Requests -> RequestState]
    /\ walk \in [offset: Nat, seen: SUBSET Names, owed: SUBSET Names,
                 done: BOOLEAN]
    /\ lost \in 0..MaxLost

Init ==
    /\ models = [n \in Names |-> None]
    /\ versions = [n \in Names |-> [v \in Versions |-> None]]
    /\ request = [r \in Requests |-> Unsent]
    /\ walk = [offset |-> 0, seen |-> {}, owed |-> {}, done |-> TRUE]
    /\ lost = 0
-----------------------------------------------------------------------------
At(r, pc) == request[r].pc = pc
ModelRow(r) == models[request[r].name]
VersionRow(r) == versions[request[r].name][request[r].version]

Goto(r, pc) == request' = [request EXCEPT ![r].pc = pc]

\* The effect is committed; the row is read once more for the answer.
Commit(r, outcome) ==
    request' = [request EXCEPT ![r].pc = "refresh", ![r].outcome = outcome]

Answer(r, status, outcome, shown) ==
    request' = [request EXCEPT ![r] = [@ EXCEPT !.pc = "answered",
        !.status = status, !.outcome = outcome, !.shown = shown]]

\* An error nobody caught: 503 for one of SQLAlchemy, 500 for any other.
Unavailable(r, status) ==
    request' = [request EXCEPT ![r] = [@ EXCEPT !.pc = "answered", !.status = status]]

Send(r, pc, name, version, body) ==
    /\ At(r, "unsent")
    /\ request' = [request EXCEPT ![r] = [Unsent EXCEPT !.pc = pc, !.name = name,
                                           !.version = version, !.body = body]]
    /\ UNCHANGED <<models, versions, walk, lost>>

SendModel(r) == \E n \in Names, d \in Descriptions : Send(r, "get_model", n, None, d)
SendVersion(r) == \E n \in Names, v \in Versions, c \in Content :
                      Send(r, "check_model", n, v, c)
-----------------------------------------------------------------------------
(* PUT /models/{model_name}                                                *)

\* Mutant: the insert that lost the race counts as done.
GetModelTrusting(r) ==
    \/ At(r, "get_model") /\ ModelRow(r) = None /\ Goto(r, "insert_model")
    \/ At(r, "reget_model") /\ Answer(r, 200, "ok", ModelRow(r))
    \/ At(r, "get_model") /\ ModelRow(r) \notin {None, request[r].body} /\ Goto(r, "update_model")
    \/ At(r, "get_model") /\ ModelRow(r) = request[r].body /\ Answer(r, 200, "ok", ModelRow(r))

GetModel(r) ==
    /\ At(r, "get_model") \/ At(r, "reget_model")
    /\ \/ /\ ModelRow(r) = None
          /\ IF At(r, "get_model") THEN Goto(r, "insert_model") ELSE Unavailable(r, 503)
       \/ /\ ModelRow(r) = request[r].body
          /\ Answer(r, 200, "ok", ModelRow(r))
       \/ /\ ModelRow(r) \notin {None, request[r].body}
          /\ Goto(r, "update_model")

WriteModel(r) == models' = [models EXCEPT ![request[r].name] = request[r].body]

\* Mutant: an upsert.
InsertModelUpsert(r) ==
    /\ At(r, "insert_model")
    /\ WriteModel(r)
    /\ Commit(r, "created")

\* The primary key turns the second of two inserts into an IntegrityError.
InsertModel(r) ==
    /\ At(r, "insert_model")
    /\ IF ModelRow(r) = None
         THEN WriteModel(r) /\ Commit(r, "created")
         ELSE Goto(r, "reget_model") /\ UNCHANGED models

UpdateModel(r) ==
    /\ At(r, "update_model")
    /\ WriteModel(r)
    /\ Commit(r, "ok")
-----------------------------------------------------------------------------
(* PUT /models/{model_name}/versions/{version}                             *)

\* Mutant: a version may be registered before its model.
CheckModelSkipped(r) == At(r, "check_model") /\ Goto(r, "get_version")

CheckModel(r) ==
    /\ At(r, "check_model")
    /\ IF ModelRow(r) = None THEN Answer(r, 404, "not_found", None)
                             ELSE Goto(r, "get_version")

\* Mutant: a row that appeared during the insert is not compared.
GetVersionTrusting(r) ==
    \/ At(r, "get_version") /\ VersionRow(r) = None /\ Goto(r, "insert_version")
    \/ At(r, "get_version") /\ VersionRow(r) # None /\
         IF version_matches(VersionRow(r), request[r].body)
           THEN Answer(r, 200, "ok", VersionRow(r)) ELSE Answer(r, 409, "conflict", None)
    \/ At(r, "reget_version") /\ Answer(r, 200, "ok", VersionRow(r))

GetVersion(r) ==
    /\ At(r, "get_version") \/ At(r, "reget_version")
    /\ \/ /\ VersionRow(r) = None
          /\ IF At(r, "get_version") THEN Goto(r, "insert_version") ELSE Unavailable(r, 503)
       \/ /\ VersionRow(r) # None
          /\ IF version_matches(VersionRow(r), request[r].body)
               THEN Answer(r, 200, "ok", VersionRow(r))
               ELSE Answer(r, 409, "conflict", None)

\* Mutant: the metadata is not stored.
WriteVersionPartly(r) ==
    versions' = [versions EXCEPT ![request[r].name][request[r].version] =
                   [artifact |-> request[r].body.artifact]]

WriteVersion(r) ==
    versions' = [versions EXCEPT ![request[r].name][request[r].version] = request[r].body]

\* Mutant: no unique constraint, so the later row is the one that is found.
InsertVersionTwice(r) ==
    /\ At(r, "insert_version")
    /\ WriteVersion(r)
    /\ Commit(r, "created")

\* The foreign key and the unique constraint.
InsertVersion(r) ==
    /\ At(r, "insert_version")
    /\ IF ModelRow(r) # None /\ VersionRow(r) = None
         THEN WriteVersion(r) /\ Commit(r, "created")
         ELSE Goto(r, "reget_version") /\ UNCHANGED versions

\* session.refresh() and the answer.
Refresh(r) ==
    /\ At(r, "refresh")
    /\ Answer(r, IF request[r].outcome = "created" THEN 201 ELSE 200, request[r].outcome,
              IF request[r].version = None THEN ModelRow(r) ELSE VersionRow(r))
-----------------------------------------------------------------------------
Step(r) ==
    /\ \/ GetModel(r) /\ UNCHANGED <<models, versions>>
       \/ InsertModel(r) /\ UNCHANGED versions
       \/ UpdateModel(r) /\ UNCHANGED versions
       \/ CheckModel(r) /\ UNCHANGED <<models, versions>>
       \/ GetVersion(r) /\ UNCHANGED <<models, versions>>
       \/ InsertVersion(r) /\ UNCHANGED models
       \/ Refresh(r) /\ UNCHANGED <<models, versions>>
    /\ UNCHANGED <<walk, lost>>

\* A statement fails, before it took effect or after its commit, for another
\* reason than a constraint: SQLAlchemy reports a lost connection or an exhausted
\* pool as its own error, and lets a refused connection or a timeout through.
StatementFails(r) ==
    /\ lost < MaxLost
    /\ lost' = lost + 1
    /\ \E status \in ServerErrors :
       \/ /\ request[r].pc \in Statements
          /\ Unavailable(r, status)
          /\ UNCHANGED <<models, versions>>
       \/ /\ At(r, "insert_model") /\ ModelRow(r) = None
          /\ WriteModel(r)
          /\ Answer(r, status, "created", None)
          /\ UNCHANGED versions
       \/ /\ At(r, "update_model")
          /\ WriteModel(r)
          /\ Answer(r, status, "ok", None)
          /\ UNCHANGED versions
       \/ /\ At(r, "insert_version") /\ ModelRow(r) # None /\ VersionRow(r) = None
          /\ WriteVersion(r)
          /\ Answer(r, status, "created", None)
          /\ UNCHANGED models
    /\ UNCHANGED walk
-----------------------------------------------------------------------------
(* GET /models?limit=&offset=                                              *)

Rank(n) == Cardinality({m \in Registered : m <= n})

\* Mutant: the first row after the offset is left out.
list_models_shifted(limit, offset) ==
    {n \in Registered : offset + 1 < Rank(n) /\ Rank(n) <= offset + limit + 1}

list_models(limit, offset) ==
    {n \in Registered : offset < Rank(n) /\ Rank(n) <= offset + limit}

\* A client starts to list the models that are there now, and more may come.
WalkStart ==
    /\ walk.done
    /\ walk' = [offset |-> 0, seen |-> {}, owed |-> Registered, done |-> FALSE]
    /\ UNCHANGED <<models, versions, request, lost>>

\* The next page; a short one is the last.
WalkPage ==
    /\ ~walk.done
    /\ LET page == list_models(PageLimit, walk.offset) IN
       walk' = [walk EXCEPT !.offset = @ + PageLimit, !.seen = @ \cup page,
                            !.done = Cardinality(page) < PageLimit]
    /\ UNCHANGED <<models, versions, request, lost>>
-----------------------------------------------------------------------------
Next ==
    \/ \E r \in Requests : SendModel(r) \/ SendVersion(r) \/ Step(r) \/ StatementFails(r)
    \/ WalkStart \/ WalkPage

Spec == Init /\ [][Next]_vars
-----------------------------------------------------------------------------
\* Every put takes effect at one instant, whatever else is running: the
\* registry is linearizable.
Service == INSTANCE RegistryService WITH
    Contents <- Content, Matches <- version_matches,
    asked <- [r \in Requests |-> [name |-> request[r].name,
                version |-> request[r].version, body |-> request[r].body]],
    outcome <- [r \in Requests |-> request[r].outcome]
ImplementsService == Service!Spec

\* A version, once it can be deployed, keeps its content.
VersionsAreImmutable ==
    [][\A n \in Names, v \in Versions :
         versions[n][v] # None => versions'[n][v] = versions[n][v]]_vars

\* An answer about a version is true when it is given and ever after: 200 and
\* 201 show the row and it repeats the request, 409 means it does not.
AnswersStayTrue ==
    \A r \in Requests : At(r, "answered") /\ request[r].version # None =>
        /\ request[r].status \in {200, 201} =>
             /\ request[r].shown = VersionRow(r)
             /\ version_matches(VersionRow(r), request[r].body)
        /\ request[r].status = 409 =>
             /\ VersionRow(r) # None
             /\ ~version_matches(VersionRow(r), request[r].body)

\* Of all the requests for one resource at most one is told that it created it.
CreatedOnce ==
    \A r, s \in Requests :
        /\ request[r].outcome = "created" /\ request[s].outcome = "created"
        /\ request[r].name = request[s].name
        /\ request[r].version = request[s].version
        => r = s

\* The row that raised an IntegrityError is found afterwards, so that 500 and 503
\* are only answered when a statement failed for another reason.
UnavailableMeansLost ==
    Cardinality({r \in Requests : request[r].status \in {500, 503}}) <= lost

\* A client that reads page after page sees every model that was registered
\* when it began, whatever is registered meanwhile.
PagesMissNothing == walk.done => walk.owed \subseteq walk.seen
-----------------------------------------------------------------------------
\* "The API accepts an exact repeat and rejects different content for an
\* existing (model_name, version)" (docs/development.md:62-63): content that
\* is answered 200 is the content that is stored.
DifferentContentIsRejected ==
    \A r \in Requests : request[r].version # None /\ request[r].status = 200 =>
        VersionRow(r) = request[r].body
=============================================================================
