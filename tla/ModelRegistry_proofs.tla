------------------------ MODULE ModelRegistry_proofs ------------------------
(***************************************************************************)
(* What the registry promises, for any number of requests, names and       *)
(* versions, any page size and any number of statements that fail.         *)
(***************************************************************************)
EXTENDS ModelRegistry, FiniteSetTheorems, TLAPS

ModelStatements == {"get_model", "insert_model", "reget_model", "update_model"}
VersionStatements == {"check_model", "get_version", "insert_version", "reget_version"}

\* What is asked is fixed once it is sent, and decides which statements follow.
Asking(r) ==
    \/ request[r] = Unsent
    \/ /\ request[r].pc \in ModelStatements \cup {"refresh", "answered"}
       /\ request[r].name \in Names
       /\ request[r].version = None /\ request[r].body \in Descriptions
    \/ /\ request[r].pc \in VersionStatements \cup {"refresh", "answered"}
       /\ request[r].name \in Names
       /\ request[r].version \in Versions /\ request[r].body \in Content

\* A request has no outcome before it has taken effect, and no status before
\* it is answered.
Undecided(r) ==
    /\ request[r].pc \in ModelStatements \cup VersionStatements =>
         request[r].outcome = "pending"
    /\ request[r].pc # "answered" => request[r].status = 0

\* The row whose presence brought a request where it is.
RowFound(r) ==
    /\ request[r].pc \in {"reget_model", "update_model", "get_version",
                          "insert_version", "reget_version"} => ModelRow(r) # None
    /\ request[r].pc = "reget_version" => VersionRow(r) # None

\* What a put that took effect has left behind.
EffectKept(r) ==
    /\ request[r].outcome = "created" /\ request[r].version = None =>
         ModelRow(r) # None
    /\ request[r].outcome = "created" /\ request[r].version # None =>
         VersionRow(r) = request[r].body
    /\ request[r].pc = "refresh" =>
         /\ request[r].outcome \in {"created", "ok"}
         /\ request[r].version # None => request[r].outcome = "created"

\* What an answer about a version says.
AnswerTrue(r) ==
    At(r, "answered") /\ request[r].version # None =>
        /\ request[r].status \in {200, 201} =>
             /\ VersionRow(r) # None
             /\ request[r].shown = VersionRow(r)
             /\ version_matches(VersionRow(r), request[r].body)
        /\ request[r].status = 409 =>
             /\ VersionRow(r) # None
             /\ ~version_matches(VersionRow(r), request[r].body)

RequestOK(r) ==
    Asking(r) /\ Undecided(r) /\ RowFound(r) /\ EffectKept(r) /\ AnswerTrue(r)

Inv == TypeOK /\ (\A r \in Requests : RequestOK(r)) /\ CreatedOnce
-----------------------------------------------------------------------------
(* Steps of one request.                                                   *)

Others(r) == \A s \in Requests \ {r} : request'[s] = request[s]

\* No row is deleted, and no row of model_versions is changed.
RowsKept ==
    /\ \A n \in Names : models[n] # None => models'[n] # None
    /\ \A n \in Names, v \in Versions :
         versions[n][v] # None => versions'[n][v] = versions[n][v]

\* A request that becomes the creator of a row is the first one.
FirstCreator(r) ==
    \A s \in Requests \ {r} :
        request'[r].outcome = "created" /\ request[s].outcome = "created" =>
          \/ request'[r].name # request[s].name
          \/ request'[r].version # request[s].version

\* What was asked is not changed.
AskedKept(r) ==
    /\ request'[r].name = request[r].name
    /\ request'[r].version = request[r].version
    /\ request'[r].body = request[r].body

\* A request is sent on to its next statement.
LEMMA GotoIs ==
    ASSUME TypeOK, NEW r \in Requests, NEW pc \in Statements, Goto(r, pc)
    PROVE  /\ request' \in [Requests -> RequestState] /\ Others(r)
           /\ AskedKept(r) /\ request'[r].pc = pc
           /\ request'[r].outcome = request[r].outcome
           /\ request'[r].status = request[r].status
<1>1. request[r] \in RequestState  BY DEF TypeOK
<1>2. [request[r] EXCEPT !.pc = pc] \in RequestState  BY <1>1 DEF RequestState
<1>3. request'[r] = [request[r] EXCEPT !.pc = pc]  BY DEF TypeOK, Goto
<1> QED  BY <1>1, <1>2, <1>3 DEF TypeOK, Goto, Others, AskedKept, RequestState

\* A request takes effect.
LEMMA CommitIs ==
    ASSUME TypeOK, NEW r \in Requests, NEW outcome \in {"created", "ok"},
           Commit(r, outcome)
    PROVE  /\ request' \in [Requests -> RequestState] /\ Others(r)
           /\ AskedKept(r) /\ request'[r].pc = "refresh"
           /\ request'[r].outcome = outcome /\ request'[r].status = request[r].status
<1> DEFINE q == [request[r] EXCEPT !.pc = "refresh"]
           next == [q EXCEPT !.outcome = outcome]
<1>1. request[r] \in RequestState  BY DEF TypeOK
<1>2. q \in RequestState  BY <1>1 DEF RequestState, Statements
<1>3. next \in RequestState
  <2> HIDE DEF q
  <2> QED  BY <1>2 DEF RequestState
<1>4. request' = [request EXCEPT ![r] = next]  BY DEF Commit, TypeOK
<1>5. /\ next.name = request[r].name /\ next.version = request[r].version
      /\ next.body = request[r].body /\ next.pc = "refresh"
      /\ next.outcome = outcome /\ next.status = request[r].status
  BY <1>1 DEF RequestState
<1> HIDE DEF next
<1> QED  BY <1>3, <1>4, <1>5 DEF TypeOK, Others, AskedKept

\* A request is answered.
LEMMA AnswerIs ==
    ASSUME TypeOK, NEW r \in Requests, NEW status \in {200, 201, 404, 409, 500, 503},
           NEW outcome \in {"created", "ok", "conflict", "not_found"},
           NEW shown \in Descriptions \cup Content \cup {None},
           Answer(r, status, outcome, shown)
    PROVE  /\ request' \in [Requests -> RequestState] /\ Others(r)
           /\ AskedKept(r) /\ request'[r].pc = "answered"
           /\ request'[r].status = status /\ request'[r].outcome = outcome
           /\ request'[r].shown = shown
<1> DEFINE p == [request[r] EXCEPT !.pc = "answered"]
           q == [p EXCEPT !.status = status]
           u == [q EXCEPT !.outcome = outcome]
           next == [u EXCEPT !.shown = shown]
<1>1. request[r] \in RequestState  BY DEF TypeOK
<1>2. p \in RequestState  BY <1>1 DEF RequestState
<1>3. q \in RequestState
  <2> HIDE DEF p
  <2> QED  BY <1>2 DEF RequestState, ServerErrors
<1>4. u \in RequestState
  <2> HIDE DEF q
  <2> QED  BY <1>3 DEF RequestState
<1>5. next \in RequestState
  <2> HIDE DEF u
  <2> QED  BY <1>4 DEF RequestState
<1>6. request' = [request EXCEPT ![r] = next]  BY DEF Answer, TypeOK
<1>7. /\ next.name = request[r].name /\ next.version = request[r].version
      /\ next.body = request[r].body /\ next.pc = "answered"
      /\ next.outcome = outcome /\ next.status = status /\ next.shown = shown
  BY <1>1 DEF RequestState
<1> HIDE DEF next
<1> QED  BY <1>5, <1>6, <1>7 DEF TypeOK, Others, AskedKept

\* A request fails and keeps the outcome that it had.
LEMMA UnavailableIs ==
    ASSUME TypeOK, NEW r \in Requests, NEW status \in ServerErrors, Unavailable(r, status)
    PROVE  /\ request' \in [Requests -> RequestState] /\ Others(r)
           /\ AskedKept(r) /\ request'[r].pc = "answered"
           /\ request'[r].status = status /\ request'[r].outcome = request[r].outcome
<1> DEFINE q == [request[r] EXCEPT !.pc = "answered"]
           next == [q EXCEPT !.status = status]
<1>1. request[r] \in RequestState  BY DEF TypeOK
<1>2. q \in RequestState  BY <1>1 DEF RequestState
<1>3. next \in RequestState
  <2> HIDE DEF q
  <2> QED  BY <1>2 DEF RequestState
<1>4. request' = [request EXCEPT ![r] = next]  BY DEF Unavailable, TypeOK
<1>5. /\ next.name = request[r].name /\ next.version = request[r].version
      /\ next.body = request[r].body /\ next.pc = "answered"
      /\ next.outcome = request[r].outcome /\ next.status = status
  BY <1>1 DEF RequestState
<1> HIDE DEF next
<1> QED  BY <1>3, <1>4, <1>5 DEF TypeOK, Others, AskedKept

\* The rows that a request is about are in the tables.
LEMMA RowsTyped ==
    ASSUME TypeOK, NEW r \in Requests, request[r].name \in Names
    PROVE  /\ ModelRow(r) \in Descriptions \cup {None}
           /\ request[r].version \in Versions => VersionRow(r) \in Content \cup {None}
BY DEF TypeOK, ModelRow, VersionRow

\* None stands for no row and no value.
LEMMA NoneIsNoValue == \A x \in Names \cup Versions \cup Descriptions \cup Content : x # None
BY RegistryAssumption

\* What holds of a request that does not move survives what the others write.
LEMMA OtherKept ==
    ASSUME TypeOK, NEW s \in Requests, RequestOK(s), request'[s] = request[s], RowsKept
    PROVE  RequestOK(s)'
<1>1. Asking(s)' /\ Undecided(s)'  BY DEF RequestOK, Asking, Undecided
<1>2. CASE request[s] = Unsent
  BY <1>1, <1>2 DEF RequestOK, RowFound, EffectKept, AnswerTrue, Unsent, At
<1>3. CASE request[s].name \in Names /\ request[s].version = None
  <2>1. request[s].pc \notin VersionStatements
    BY <1>3, RegistryAssumption
    DEF RequestOK, Asking, VersionStatements, ModelStatements, Unsent
  <2>2. ModelRow(s) # None => ModelRow(s)' # None  BY <1>3 DEF RowsKept, ModelRow
  <2>3. RowFound(s)'  BY <2>1, <2>2 DEF RequestOK, RowFound, VersionStatements
  <2>4. EffectKept(s)' /\ AnswerTrue(s)'
    BY <1>3, <2>2 DEF RequestOK, EffectKept, AnswerTrue
  <2> QED  BY <1>1, <2>3, <2>4 DEF RequestOK
<1>4. CASE request[s].name \in Names /\ request[s].version \in Versions
  <2>1. request[s].version # None  BY <1>4, RegistryAssumption
  <2>2. VersionRow(s) # None => VersionRow(s)' = VersionRow(s)
    BY <1>4 DEF RowsKept, VersionRow
  <2>3. ModelRow(s) # None => ModelRow(s)' # None  BY <1>4 DEF RowsKept, ModelRow
  <2>4. RowFound(s)'  BY <2>2, <2>3 DEF RequestOK, RowFound
  <2>5. request[s].body # None
    BY <1>4, <2>1, RegistryAssumption DEF RequestOK, Asking, Unsent
  <2>6. EffectKept(s)'  BY <2>1, <2>2, <2>5 DEF RequestOK, EffectKept
  <2>7. AnswerTrue(s)'  BY <2>2 DEF RequestOK, AnswerTrue, At
  <2> QED  BY <1>1, <2>4, <2>6, <2>7 DEF RequestOK
<1> QED  BY <1>2, <1>3, <1>4 DEF RequestOK, Asking

\* What every step of a request keeps.
Kept(r) == TypeOK' /\ RequestOK(r)' /\ Others(r) /\ RowsKept /\ FirstCreator(r)

\* A step that only reads leaves the tables and every other request alone.
LEMMA ReadKeeps ==
    ASSUME Inv, NEW r \in Requests, UNCHANGED <<models, versions, walk>>,
           lost' \in 0..MaxLost, request' \in [Requests -> RequestState], Others(r),
           RequestOK(r)', AskedKept(r),
           request'[r].outcome = "created" => request[r].outcome = "created"
    PROVE  Kept(r)
<1>1. TypeOK' /\ RowsKept  BY DEF Inv, TypeOK, RowsKept
<1>2. FirstCreator(r)  BY DEF Inv, CreatedOnce, FirstCreator, AskedKept
<1> QED  BY <1>1, <1>2 DEF Kept

\* What a request at a statement on a model is about.
LEMMA ModelPut ==
    ASSUME Inv, NEW r \in Requests, request[r].pc \in ModelStatements
    PROVE  /\ request[r].name \in Names /\ request[r].version = None
           /\ request[r].body \in Descriptions
           /\ request[r].outcome = "pending" /\ request[r].status = 0
BY DEF Inv, RequestOK, Asking, Undecided, Unsent, ModelStatements, VersionStatements

\* What a request at a statement on a version is about.
LEMMA VersionPut ==
    ASSUME Inv, NEW r \in Requests, request[r].pc \in VersionStatements
    PROVE  /\ request[r].name \in Names /\ request[r].version \in Versions
           /\ request[r].version # None /\ request[r].body \in Content
           /\ request[r].outcome = "pending" /\ request[r].status = 0
BY RegistryAssumption
DEF Inv, RequestOK, Asking, Undecided, Unsent, ModelStatements, VersionStatements

\* GetModel(), on either of its calls, never fails on a missing row.
LEMMA GetModelKeeps ==
    ASSUME Inv, NEW r \in Requests, GetModel(r),
           UNCHANGED <<models, versions, walk, lost>>
    PROVE  Kept(r) /\ request'[r].status \notin {500, 503}
<1>1. TypeOK  BY DEF Inv
<1>2. request[r].pc \in ModelStatements  BY DEF GetModel, At, ModelStatements
<1>3. /\ request[r].name \in Names /\ request[r].version = None
      /\ request[r].body \in Descriptions
      /\ request[r].outcome = "pending" /\ request[r].status = 0
  BY <1>2, ModelPut
<1>4. ModelRow(r) \in Descriptions \cup {None} /\ ModelRow(r)' = models[request'[r].name]
  BY <1>1, <1>3, RowsTyped DEF ModelRow
<1>5. request[r].pc = "reget_model" => ModelRow(r) # None
  BY DEF Inv, RequestOK, RowFound
<1>6. CASE ModelRow(r) = None
  <2>1. Goto(r, "insert_model")  BY <1>5, <1>6, RegistryAssumption, <1>3 DEF GetModel, At
  <2>2. "insert_model" \in Statements  BY DEF Statements
  <2>3. /\ request' \in [Requests -> RequestState] /\ Others(r) /\ AskedKept(r)
        /\ request'[r].pc = "insert_model"
        /\ request'[r].outcome = "pending" /\ request'[r].status = 0
    BY <1>1, <1>3, <2>1, <2>2, GotoIs
  <2>4. RequestOK(r)'
    BY <1>3, <2>3 DEF AskedKept, RequestOK, Asking, Undecided, RowFound, EffectKept,
                      AnswerTrue, At, ModelStatements
  <2> QED  BY <1>1, <2>3, <2>4, ReadKeeps DEF TypeOK
<1>7. CASE ModelRow(r) # None /\ ModelRow(r) = request[r].body
  <2>1. Answer(r, 200, "ok", ModelRow(r))  BY <1>7 DEF GetModel
  <2>2. /\ request' \in [Requests -> RequestState] /\ Others(r) /\ AskedKept(r)
        /\ request'[r].pc = "answered"
        /\ request'[r].outcome = "ok" /\ request'[r].status = 200
    BY <1>1, <1>4, <2>1, AnswerIs
  <2>3. RequestOK(r)'
    BY <1>3, <2>2 DEF AskedKept, RequestOK, Asking, Undecided, RowFound, EffectKept,
                      AnswerTrue, At, ModelStatements, VersionStatements
  <2> QED  BY <1>1, <2>2, <2>3, ReadKeeps DEF TypeOK
<1>8. CASE ModelRow(r) \notin {None, request[r].body}
  <2>1. Goto(r, "update_model")  BY <1>8 DEF GetModel
  <2>2. "update_model" \in Statements  BY DEF Statements
  <2>3. /\ request' \in [Requests -> RequestState] /\ Others(r) /\ AskedKept(r)
        /\ request'[r].pc = "update_model"
        /\ request'[r].outcome = "pending" /\ request'[r].status = 0
    BY <1>1, <1>3, <2>1, <2>2, GotoIs
  <2>4. ModelRow(r)' = ModelRow(r)  BY <2>3 DEF AskedKept, ModelRow
  <2>5. RequestOK(r)'
    BY <1>3, <1>8, <2>3, <2>4
    DEF AskedKept, RequestOK, Asking, Undecided, RowFound, EffectKept, AnswerTrue, At,
        ModelStatements
  <2> QED  BY <1>1, <2>3, <2>5, ReadKeeps DEF TypeOK
<1> QED  BY <1>6, <1>7, <1>8

\* A put that takes effect on a model writes a description into its row.
LEMMA WriteModelIs ==
    ASSUME Inv, NEW r \in Requests, request[r].pc \in ModelStatements, WriteModel(r)
    PROVE  /\ models' \in [Names -> Descriptions \cup {None}]
           /\ models'[request[r].name] = request[r].body
           /\ models'[request[r].name] # None
           /\ \A n \in Names : models[n] # None => models'[n] # None
<1>1. request[r].name \in Names /\ request[r].body \in Descriptions  BY ModelPut
<1>2. request[r].body # None  BY <1>1, RegistryAssumption
<1> QED  BY <1>1, <1>2 DEF Inv, TypeOK, WriteModel

\* Whoever took effect on a model has its row, and answers nothing of a version.
LEMMA ModelWritten ==
    ASSUME Inv, NEW r \in Requests, request[r].pc \in ModelStatements,
           WriteModel(r), UNCHANGED <<versions, walk>>, lost' \in 0..MaxLost,
           request' \in [Requests -> RequestState], Others(r), AskedKept(r),
           \/ request'[r].pc = "refresh" /\ request'[r].status = 0
           \/ request'[r].pc = "answered",
           \/ request'[r].outcome = "ok"
           \/ request'[r].outcome = "created" /\ ModelRow(r) = None
    PROVE  Kept(r)
<1>1. /\ request[r].name \in Names /\ request[r].version = None
      /\ request[r].body \in Descriptions
  BY ModelPut
<1>2. /\ models' \in [Names -> Descriptions \cup {None}]
      /\ models'[request[r].name] # None
      /\ \A n \in Names : models[n] # None => models'[n] # None
  BY WriteModelIs
<1>3. TypeOK' /\ RowsKept  BY <1>2 DEF Inv, TypeOK, RowsKept
<1>4. ModelRow(r)' # None  BY <1>2 DEF ModelRow, AskedKept
<1>5. RequestOK(r)'
  BY <1>1, <1>4 DEF AskedKept, RequestOK, Asking, Undecided, RowFound, EffectKept,
                    AnswerTrue, At, ModelStatements, VersionStatements
<1>6. ASSUME NEW s \in Requests \ {r}, request'[r].outcome = "created",
             request[s].outcome = "created", request'[r].name = request[s].name,
             request'[r].version = request[s].version
      PROVE  FALSE
  <2>1. ModelRow(r) = None  BY <1>6
  <2>2. ModelRow(s) # None  BY <1>1, <1>6 DEF Inv, RequestOK, EffectKept, AskedKept
  <2> QED  BY <1>6, <2>1, <2>2 DEF ModelRow, AskedKept
<1>7. FirstCreator(r)  BY <1>6 DEF FirstCreator
<1> QED  BY <1>3, <1>5, <1>7 DEF Kept

\* The primary key of models: the insert creates the row or finds it there.
LEMMA InsertModelKeeps ==
    ASSUME Inv, NEW r \in Requests, InsertModel(r), UNCHANGED <<versions, walk, lost>>
    PROVE  Kept(r) /\ request'[r].status \notin {500, 503}
<1>1. TypeOK  BY DEF Inv
<1>2. request[r].pc \in ModelStatements  BY DEF InsertModel, At, ModelStatements
<1>3. /\ request[r].name \in Names /\ request[r].version = None
      /\ request[r].body \in Descriptions
      /\ request[r].outcome = "pending" /\ request[r].status = 0
  BY <1>2, ModelPut
<1>4. CASE ModelRow(r) = None
  <2>1. WriteModel(r) /\ Commit(r, "created")  BY <1>4 DEF InsertModel
  <2>2. /\ request' \in [Requests -> RequestState] /\ Others(r) /\ AskedKept(r)
        /\ request'[r].pc = "refresh"
        /\ request'[r].outcome = "created" /\ request'[r].status = 0
    BY <1>1, <1>3, <2>1, CommitIs
  <2> QED  BY <1>1, <1>2, <1>4, <2>1, <2>2, ModelWritten DEF TypeOK
<1>5. CASE ModelRow(r) # None
  <2>1. Goto(r, "reget_model") /\ UNCHANGED models  BY <1>5 DEF InsertModel
  <2>2. "reget_model" \in Statements  BY DEF Statements
  <2>3. /\ request' \in [Requests -> RequestState] /\ Others(r) /\ AskedKept(r)
        /\ request'[r].pc = "reget_model"
        /\ request'[r].outcome = "pending" /\ request'[r].status = 0
    BY <1>1, <1>3, <2>1, <2>2, GotoIs
  <2>4. ModelRow(r)' = ModelRow(r)  BY <2>1, <2>3 DEF AskedKept, ModelRow
  <2>5. RequestOK(r)'
    BY <1>3, <1>5, <2>3, <2>4
    DEF AskedKept, RequestOK, Asking, Undecided, RowFound, EffectKept, AnswerTrue, At,
        ModelStatements
  <2> QED  BY <1>1, <2>1, <2>3, <2>5, ReadKeeps DEF TypeOK
<1> QED  BY <1>4, <1>5

\* An update of a description that differs.
LEMMA UpdateModelKeeps ==
    ASSUME Inv, NEW r \in Requests, UpdateModel(r), UNCHANGED <<versions, walk, lost>>
    PROVE  Kept(r) /\ request'[r].status \notin {500, 503}
<1>1. TypeOK  BY DEF Inv
<1>2. request[r].pc \in ModelStatements  BY DEF UpdateModel, At, ModelStatements
<1>3. request[r].status = 0  BY <1>2, ModelPut
<1>4. WriteModel(r) /\ Commit(r, "ok")  BY DEF UpdateModel
<1>5. /\ request' \in [Requests -> RequestState] /\ Others(r) /\ AskedKept(r)
      /\ request'[r].pc = "refresh"
      /\ request'[r].outcome = "ok" /\ request'[r].status = 0
  BY <1>1, <1>3, <1>4, CommitIs
<1> QED  BY <1>1, <1>2, <1>4, <1>5, ModelWritten DEF TypeOK

\* The model is looked up before its version.
LEMMA CheckModelKeeps ==
    ASSUME Inv, NEW r \in Requests, CheckModel(r),
           UNCHANGED <<models, versions, walk, lost>>
    PROVE  Kept(r) /\ request'[r].status \notin {500, 503}
<1>1. TypeOK  BY DEF Inv
<1>2. request[r].pc \in VersionStatements  BY DEF CheckModel, At, VersionStatements
<1>3. /\ request[r].name \in Names /\ request[r].version \in Versions
      /\ request[r].version # None /\ request[r].body \in Content
      /\ request[r].outcome = "pending" /\ request[r].status = 0
  BY <1>2, VersionPut
<1>4. CASE ModelRow(r) = None
  <2>1. Answer(r, 404, "not_found", None)  BY <1>4 DEF CheckModel
  <2>2. /\ request' \in [Requests -> RequestState] /\ Others(r) /\ AskedKept(r)
        /\ request'[r].pc = "answered"
        /\ request'[r].outcome = "not_found" /\ request'[r].status = 404
    BY <1>1, <2>1, AnswerIs
  <2>3. RequestOK(r)'
    BY <1>3, <2>2 DEF AskedKept, RequestOK, Asking, Undecided, RowFound, EffectKept,
                      AnswerTrue, At, ModelStatements, VersionStatements
  <2> QED  BY <1>1, <2>2, <2>3, ReadKeeps DEF TypeOK
<1>5. CASE ModelRow(r) # None
  <2>1. Goto(r, "get_version")  BY <1>5 DEF CheckModel
  <2>2. "get_version" \in Statements  BY DEF Statements
  <2>3. /\ request' \in [Requests -> RequestState] /\ Others(r) /\ AskedKept(r)
        /\ request'[r].pc = "get_version"
        /\ request'[r].outcome = "pending" /\ request'[r].status = 0
    BY <1>1, <1>3, <2>1, <2>2, GotoIs
  <2>4. ModelRow(r)' = ModelRow(r)  BY <2>3 DEF AskedKept, ModelRow
  <2>5. RequestOK(r)'
    BY <1>3, <1>5, <2>3, <2>4
    DEF AskedKept, RequestOK, Asking, Undecided, RowFound, EffectKept, AnswerTrue, At,
        VersionStatements
  <2> QED  BY <1>1, <2>3, <2>5, ReadKeeps DEF TypeOK
<1> QED  BY <1>4, <1>5

\* GetVersion(), on either of its calls, compares the row that is there, and on
\* the second one a row is there.
LEMMA GetVersionKeeps ==
    ASSUME Inv, NEW r \in Requests, GetVersion(r),
           UNCHANGED <<models, versions, walk, lost>>
    PROVE  Kept(r) /\ request'[r].status \notin {500, 503}
<1>1. TypeOK  BY DEF Inv
<1>2. request[r].pc \in VersionStatements  BY DEF GetVersion, At, VersionStatements
<1>3. /\ request[r].name \in Names /\ request[r].version \in Versions
      /\ request[r].version # None /\ request[r].body \in Content
      /\ request[r].outcome = "pending" /\ request[r].status = 0
  BY <1>2, VersionPut
<1>4. VersionRow(r) \in Content \cup {None}  BY <1>1, <1>3, RowsTyped
<1>5. /\ request[r].pc = "reget_version" => VersionRow(r) # None
      /\ ModelRow(r) # None
  BY DEF Inv, RequestOK, RowFound, GetVersion, At
<1>6. ASSUME AskedKept(r)
      PROVE  ModelRow(r)' = ModelRow(r) /\ VersionRow(r)' = VersionRow(r)
  BY <1>6 DEF AskedKept, ModelRow, VersionRow
<1>7. CASE VersionRow(r) = None
  <2>1. Goto(r, "insert_version")  BY <1>5, <1>7 DEF GetVersion, At
  <2>2. "insert_version" \in Statements  BY DEF Statements
  <2>3. /\ request' \in [Requests -> RequestState] /\ Others(r) /\ AskedKept(r)
        /\ request'[r].pc = "insert_version"
        /\ request'[r].outcome = "pending" /\ request'[r].status = 0
    BY <1>1, <1>3, <2>1, <2>2, GotoIs
  <2>4. RequestOK(r)'
    BY <1>3, <1>5, <1>6, <2>3
    DEF AskedKept, RequestOK, Asking, Undecided, RowFound, EffectKept, AnswerTrue, At,
        VersionStatements
  <2> QED  BY <1>1, <2>3, <2>4, ReadKeeps DEF TypeOK
<1>8. CASE VersionRow(r) # None /\ version_matches(VersionRow(r), request[r].body)
  <2>1. Answer(r, 200, "ok", VersionRow(r))  BY <1>8 DEF GetVersion
  <2>2. /\ request' \in [Requests -> RequestState] /\ Others(r) /\ AskedKept(r)
        /\ request'[r].pc = "answered" /\ request'[r].shown = VersionRow(r)
        /\ request'[r].outcome = "ok" /\ request'[r].status = 200
    BY <1>1, <1>4, <2>1, AnswerIs
  <2>3. AnswerTrue(r)'  BY <1>6, <1>8, <2>2 DEF AskedKept, AnswerTrue
  <2>4. RequestOK(r)'
    BY <1>3, <2>2, <2>3 DEF AskedKept, RequestOK, Asking, Undecided, RowFound, EffectKept,
                            ModelStatements, VersionStatements
  <2> QED  BY <1>1, <2>2, <2>4, ReadKeeps DEF TypeOK
<1>9. CASE VersionRow(r) # None /\ ~version_matches(VersionRow(r), request[r].body)
  <2>1. Answer(r, 409, "conflict", None)  BY <1>9 DEF GetVersion
  <2>2. /\ request' \in [Requests -> RequestState] /\ Others(r) /\ AskedKept(r)
        /\ request'[r].pc = "answered"
        /\ request'[r].outcome = "conflict" /\ request'[r].status = 409
    BY <1>1, <2>1, AnswerIs
  <2>3. AnswerTrue(r)'  BY <1>6, <1>9, <2>2 DEF AskedKept, AnswerTrue
  <2>4. RequestOK(r)'
    BY <1>3, <2>2, <2>3 DEF AskedKept, RequestOK, Asking, Undecided, RowFound, EffectKept,
                            ModelStatements, VersionStatements
  <2> QED  BY <1>1, <2>2, <2>4, ReadKeeps DEF TypeOK
<1> QED  BY <1>7, <1>8, <1>9

\* The unique constraint of model_versions: the first insert creates the row,
\* and no other row changes.
LEMMA VersionWritten ==
    ASSUME Inv, NEW r \in Requests, request[r].pc \in VersionStatements,
           ModelRow(r) # None, VersionRow(r) = None,
           WriteVersion(r), UNCHANGED <<models, walk>>, lost' \in 0..MaxLost,
           request' \in [Requests -> RequestState], Others(r), AskedKept(r),
           request'[r].outcome = "created",
           \/ request'[r].pc = "refresh" /\ request'[r].status = 0
           \/ request'[r].pc = "answered" /\ request'[r].status \in ServerErrors
    PROVE  Kept(r)
<1>1. /\ request[r].name \in Names /\ request[r].version \in Versions
      /\ request[r].version # None /\ request[r].body \in Content
  BY VersionPut
<1>2. /\ versions' \in [Names -> [Versions -> Content \cup {None}]]
      /\ versions'[request[r].name][request[r].version] = request[r].body
      /\ \A n \in Names, v \in Versions :
            versions[n][v] # None => versions'[n][v] = versions[n][v]
  <2>1. versions \in [Names -> [Versions -> Content \cup {None}]]  BY DEF Inv, TypeOK
  <2>2. versions[request[r].name][request[r].version] = None  BY DEF VersionRow
  <2> DEFINE of == [versions[request[r].name] EXCEPT ![request[r].version] = request[r].body]
  <2>3. versions' = [versions EXCEPT ![request[r].name] = of]
    BY <1>1, <2>1 DEF WriteVersion
  <2>4. of \in [Versions -> Content \cup {None}]  BY <1>1, <2>1
  <2>5. of[request[r].version] = request[r].body  BY <1>1, <2>1
  <2>6. \A v \in Versions : versions[request[r].name][v] # None =>
                              of[v] = versions[request[r].name][v]
    BY <1>1, <2>1, <2>2
  <2> HIDE DEF of
  <2>7. versions' \in [Names -> [Versions -> Content \cup {None}]]
    BY <1>1, <2>1, <2>3, <2>4
  <2>8. versions'[request[r].name] = of  BY <1>1, <2>1, <2>3
  <2>9. \A n \in Names : n = request[r].name \/ versions'[n] = versions[n]
    BY <2>1, <2>3
  <2> QED  BY <2>5, <2>6, <2>7, <2>8, <2>9
<1>3. TypeOK' /\ RowsKept  BY <1>2 DEF Inv, TypeOK, RowsKept
<1>4. VersionRow(r)' = request'[r].body  BY <1>2 DEF VersionRow, AskedKept
<1>5. RequestOK(r)'
  <2>1. Asking(r)'  BY <1>1 DEF AskedKept, Asking
  <2>2. Undecided(r)' /\ RowFound(r)'
    BY DEF Undecided, RowFound, ModelStatements, VersionStatements
  <2>3. EffectKept(r)'  BY <1>1, <1>4 DEF AskedKept, EffectKept
  <2>4. AnswerTrue(r)'  BY DEF AnswerTrue, At, ServerErrors
  <2> QED  BY <2>1, <2>2, <2>3, <2>4 DEF RequestOK
<1>6. ASSUME NEW s \in Requests \ {r}, request[s].outcome = "created",
             request'[r].name = request[s].name,
             request'[r].version = request[s].version
      PROVE  FALSE
  <2>1. Asking(s) /\ EffectKept(s) /\ request[s].version # None
    BY <1>1, <1>6 DEF Inv, RequestOK, AskedKept
  <2>2. VersionRow(s) = request[s].body  BY <1>6, <2>1 DEF EffectKept
  <2>3. request[s] # Unsent  BY <2>1 DEF Unsent
  <2>4. request[s].body \in Content  BY <2>1, <2>3 DEF Asking
  <2>5. request[s].body # None  BY <2>4, NoneIsNoValue
  <2>6. VersionRow(s) = VersionRow(r)  BY <1>6 DEF VersionRow, AskedKept
  <2> QED  BY <2>2, <2>5, <2>6
<1>7. FirstCreator(r)  BY <1>6 DEF FirstCreator
<1> QED  BY <1>3, <1>5, <1>7 DEF Kept

\* The insert of a version creates the row or finds it there.
LEMMA InsertVersionKeeps ==
    ASSUME Inv, NEW r \in Requests, InsertVersion(r), UNCHANGED <<models, walk, lost>>
    PROVE  Kept(r) /\ request'[r].status \notin {500, 503}
<1>1. TypeOK  BY DEF Inv
<1>2. request[r].pc \in VersionStatements  BY DEF InsertVersion, At, VersionStatements
<1>3. /\ request[r].name \in Names /\ request[r].version \in Versions
      /\ request[r].version # None /\ request[r].body \in Content
      /\ request[r].outcome = "pending" /\ request[r].status = 0
  BY <1>2, VersionPut
<1>4. ModelRow(r) # None  BY DEF Inv, RequestOK, RowFound, InsertVersion, At
<1>5. CASE VersionRow(r) = None
  <2>1. WriteVersion(r) /\ Commit(r, "created")  BY <1>4, <1>5 DEF InsertVersion
  <2>2. /\ request' \in [Requests -> RequestState] /\ Others(r) /\ AskedKept(r)
        /\ request'[r].pc = "refresh"
        /\ request'[r].outcome = "created" /\ request'[r].status = 0
    BY <1>1, <1>3, <2>1, CommitIs
  <2> QED  BY <1>1, <1>2, <1>4, <1>5, <2>1, <2>2, VersionWritten DEF TypeOK
<1>6. CASE VersionRow(r) # None
  <2>1. Goto(r, "reget_version") /\ UNCHANGED versions  BY <1>6 DEF InsertVersion
  <2>2. "reget_version" \in Statements  BY DEF Statements
  <2>3. /\ request' \in [Requests -> RequestState] /\ Others(r) /\ AskedKept(r)
        /\ request'[r].pc = "reget_version"
        /\ request'[r].outcome = "pending" /\ request'[r].status = 0
    BY <1>1, <1>3, <2>1, <2>2, GotoIs
  <2>4. ModelRow(r)' = ModelRow(r) /\ VersionRow(r)' = VersionRow(r)
    BY <2>1, <2>3 DEF AskedKept, ModelRow, VersionRow
  <2>5. RequestOK(r)'
    BY <1>3, <1>4, <1>6, <2>3, <2>4
    DEF AskedKept, RequestOK, Asking, Undecided, RowFound, EffectKept, AnswerTrue, At,
        VersionStatements
  <2> QED  BY <1>1, <2>1, <2>3, <2>5, ReadKeeps DEF TypeOK
<1> QED  BY <1>5, <1>6

\* The row that is read for the answer is the one that was put, if it is one of
\* a version.
LEMMA RefreshKeeps ==
    ASSUME Inv, NEW r \in Requests, Refresh(r), UNCHANGED <<models, versions, walk, lost>>
    PROVE  Kept(r) /\ request'[r].status \notin {500, 503}
<1> DEFINE status == IF request[r].outcome = "created" THEN 201 ELSE 200
           shown == IF request[r].version = None THEN ModelRow(r) ELSE VersionRow(r)
<1>1. TypeOK /\ request[r].pc = "refresh"  BY DEF Inv, Refresh, At
<1>2. /\ request[r].outcome \in {"created", "ok"}
      /\ request[r].outcome = "created" /\ request[r].version = None => ModelRow(r) # None
      /\ request[r].version # None =>
           request[r].outcome = "created" /\ VersionRow(r) = request[r].body
  BY <1>1 DEF Inv, RequestOK, EffectKept
<1>3. /\ request[r].name \in Names
      /\ \/ request[r].version = None /\ request[r].body \in Descriptions
         \/ /\ request[r].version \in Versions /\ request[r].version # None
            /\ request[r].body \in Content /\ request[r].body # None
  <2>1. Asking(r) /\ request[r] # Unsent  BY <1>1 DEF Inv, RequestOK, Unsent
  <2> QED  BY <1>1, <2>1, NoneIsNoValue DEF Asking
<1>4. shown \in Descriptions \cup Content \cup {None}  BY <1>1, <1>3, RowsTyped
<1>5. Answer(r, status, request[r].outcome, shown)  BY DEF Refresh
<1>6. status \in {200, 201}  OBVIOUS
<1> HIDE DEF shown, status
<1>7. /\ request' \in [Requests -> RequestState] /\ Others(r) /\ AskedKept(r)
      /\ request'[r].pc = "answered" /\ request'[r].shown = shown
      /\ request'[r].outcome = request[r].outcome /\ request'[r].status = status
  <2> DEFINE verdict == request[r].outcome
  <2>1. /\ verdict \in {"created", "ok", "conflict", "not_found"}
        /\ Answer(r, status, verdict, shown)
    BY <1>2, <1>5
  <2> HIDE DEF verdict
  <2>2. /\ request' \in [Requests -> RequestState] /\ Others(r) /\ AskedKept(r)
        /\ request'[r].pc = "answered" /\ request'[r].shown = shown
        /\ request'[r].outcome = verdict /\ request'[r].status = status
    BY <1>1, <1>4, <1>6, <2>1, AnswerIs
  <2> QED  BY <2>2 DEF verdict
<1>8. ModelRow(r)' = ModelRow(r) /\ VersionRow(r)' = VersionRow(r)
  BY <1>7 DEF AskedKept, ModelRow, VersionRow
<1>9. request[r].version # None =>
        shown = VersionRow(r) /\ version_matches(VersionRow(r), request[r].body)
  BY <1>2 DEF shown, version_matches, PythonEqual
<1>10. AnswerTrue(r)'
  <2>1. request'[r].status \in {200, 201} /\ request'[r].status # 409  BY <1>6, <1>7
  <2>2. request[r].version # None => VersionRow(r) # None  BY <1>2, <1>3
  <2>3. request'[r].version # None =>
          /\ VersionRow(r)' # None /\ request'[r].shown = VersionRow(r)'
          /\ version_matches(VersionRow(r)', request'[r].body)
    BY <1>7, <1>8, <1>9, <2>2 DEF AskedKept
  <2> QED  BY <2>1, <2>3 DEF AnswerTrue
<1>11. EffectKept(r)'  BY <1>2, <1>7, <1>8 DEF AskedKept, EffectKept
<1>12. RequestOK(r)'
  BY <1>3, <1>7, <1>10, <1>11 DEF AskedKept, RequestOK, Asking, Undecided, RowFound,
                                  ModelStatements, VersionStatements
<1> QED  BY <1>1, <1>6, <1>7, <1>12, ReadKeeps DEF TypeOK

\* A statement of a request, none of which is answered 500 or 503.
LEMMA StepKeeps ==
    ASSUME Inv, NEW r \in Requests, Step(r)
    PROVE  Kept(r) /\ request'[r].status \notin {500, 503}
<1>1. walk' = walk /\ lost' = lost  BY DEF Step
<1>2. CASE GetModel(r) /\ UNCHANGED <<models, versions>>  BY <1>1, <1>2, GetModelKeeps
<1>3. CASE InsertModel(r) /\ UNCHANGED versions  BY <1>1, <1>3, InsertModelKeeps
<1>4. CASE UpdateModel(r) /\ UNCHANGED versions  BY <1>1, <1>4, UpdateModelKeeps
<1>5. CASE CheckModel(r) /\ UNCHANGED <<models, versions>>  BY <1>1, <1>5, CheckModelKeeps
<1>6. CASE GetVersion(r) /\ UNCHANGED <<models, versions>>  BY <1>1, <1>6, GetVersionKeeps
<1>7. CASE InsertVersion(r) /\ UNCHANGED models  BY <1>1, <1>7, InsertVersionKeeps
<1>8. CASE Refresh(r) /\ UNCHANGED <<models, versions>>  BY <1>1, <1>8, RefreshKeeps
<1> QED  BY <1>2, <1>3, <1>4, <1>5, <1>6, <1>7, <1>8 DEF Step

\* How a statement fails, with the status that is answered.
Fails(r, status) ==
    \/ request[r].pc \in Statements /\ Unavailable(r, status) /\ UNCHANGED <<models, versions>>
    \/ /\ At(r, "insert_model") /\ ModelRow(r) = None /\ WriteModel(r)
       /\ Answer(r, status, "created", None) /\ UNCHANGED versions
    \/ /\ At(r, "update_model") /\ WriteModel(r)
       /\ Answer(r, status, "ok", None) /\ UNCHANGED versions
    \/ /\ At(r, "insert_version") /\ ModelRow(r) # None /\ VersionRow(r) = None
       /\ WriteVersion(r) /\ Answer(r, status, "created", None) /\ UNCHANGED models

\* A statement that fails, before it took effect or after the commit.
LEMMA StatementFailsKeeps ==
    ASSUME Inv, NEW r \in Requests, StatementFails(r)
    PROVE  Kept(r)
<1>1. TypeOK /\ lost' \in 0..MaxLost /\ UNCHANGED walk
  <2>1. TypeOK /\ lost \in 0..MaxLost  BY DEF Inv, TypeOK
  <2>2. lost < MaxLost /\ lost' = lost + 1 /\ UNCHANGED walk  BY DEF StatementFails
  <2>3. MaxLost \in Nat  BY RegistryAssumption
  <2> QED  BY <2>1, <2>2, <2>3
<1>2. None \in Descriptions \cup Content \cup {None}  OBVIOUS
<1>2a. PICK status \in ServerErrors : Fails(r, status)  BY DEF StatementFails, Fails
<1>2b. status \in {200, 201, 404, 409, 500, 503}  BY DEF ServerErrors
<1>3. CASE request[r].pc \in Statements /\ Unavailable(r, status) /\ UNCHANGED <<models, versions>>
  <2>1. /\ request' \in [Requests -> RequestState] /\ Others(r) /\ AskedKept(r)
        /\ request'[r].pc = "answered"
        /\ request'[r].status = status /\ request'[r].outcome = request[r].outcome
    BY <1>1, <1>3, UnavailableIs
  <2>2. ModelRow(r)' = ModelRow(r) /\ VersionRow(r)' = VersionRow(r)
    BY <1>3, <2>1 DEF AskedKept, ModelRow, VersionRow
  <2>3. request[r] # Unsent  BY <1>3 DEF Unsent, Statements
  <2>4. Asking(r) /\ EffectKept(r)  BY DEF Inv, RequestOK
  <2>5. Asking(r)'  BY <2>1, <2>3, <2>4 DEF Asking, AskedKept
  <2>6. Undecided(r)' /\ RowFound(r)'
    <3>1. request'[r].pc \notin ModelStatements \cup VersionStatements
      BY <2>1 DEF ModelStatements, VersionStatements
    <3> QED  BY <2>1, <3>1 DEF Undecided, RowFound
  <2>7. EffectKept(r)'  BY <2>1, <2>2, <2>4 DEF AskedKept, EffectKept
  <2>8. AnswerTrue(r)'  BY <2>1 DEF AnswerTrue, ServerErrors
  <2>9. RequestOK(r)'  BY <2>5, <2>6, <2>7, <2>8 DEF RequestOK
  <2> QED  BY <1>1, <1>3, <2>1, <2>9, ReadKeeps
<1>4. CASE /\ At(r, "insert_model") /\ ModelRow(r) = None /\ WriteModel(r)
           /\ Answer(r, status, "created", None) /\ UNCHANGED versions
  <2>1. /\ request' \in [Requests -> RequestState] /\ Others(r) /\ AskedKept(r)
        /\ request'[r].pc = "answered" /\ request'[r].outcome = "created"
    BY <1>1, <1>2, <1>4, <1>2b, AnswerIs
  <2>2. request[r].pc \in ModelStatements  BY <1>4 DEF At, ModelStatements
  <2> QED  BY <1>1, <1>4, <2>1, <2>2, ModelWritten
<1>5. CASE /\ At(r, "update_model") /\ WriteModel(r)
           /\ Answer(r, status, "ok", None) /\ UNCHANGED versions
  <2>1. /\ request' \in [Requests -> RequestState] /\ Others(r) /\ AskedKept(r)
        /\ request'[r].pc = "answered" /\ request'[r].outcome = "ok"
    BY <1>1, <1>2, <1>5, <1>2b, AnswerIs
  <2>2. request[r].pc \in ModelStatements  BY <1>5 DEF At, ModelStatements
  <2> QED  BY <1>1, <1>5, <2>1, <2>2, ModelWritten
<1>6. CASE /\ At(r, "insert_version") /\ ModelRow(r) # None /\ VersionRow(r) = None
           /\ WriteVersion(r) /\ Answer(r, status, "created", None) /\ UNCHANGED models
  <2>1. /\ request' \in [Requests -> RequestState] /\ Others(r) /\ AskedKept(r)
        /\ request'[r].pc = "answered" /\ request'[r].outcome = "created"
        /\ request'[r].status = status
    BY <1>1, <1>2, <1>6, <1>2b, AnswerIs
  <2>2. request[r].pc \in VersionStatements  BY <1>6 DEF At, VersionStatements
  <2> QED  BY <1>1, <1>6, <2>1, <2>2, VersionWritten
<1> QED  BY <1>3, <1>4, <1>5, <1>6, <1>2a DEF Fails

\* A request that is sent.
LEMMA SendKeeps ==
    ASSUME Inv, NEW r \in Requests, SendModel(r) \/ SendVersion(r)
    PROVE  Kept(r) /\ request'[r].status \notin {500, 503}
<1>1. PICK pc, n, v, body :
         /\ Send(r, pc, n, v, body) /\ n \in Names
         /\ \/ pc = "get_model" /\ v = None /\ body \in Descriptions
            \/ pc = "check_model" /\ v \in Versions /\ body \in Content
  BY DEF SendModel, SendVersion
<1> DEFINE p == [Unsent EXCEPT !.pc = pc]
           q == [p EXCEPT !.name = n]
           u == [q EXCEPT !.version = v]
           next == [u EXCEPT !.body = body]
<1>2. /\ next.pc = pc /\ next.name = n /\ next.version = v /\ next.body = body
      /\ next.outcome = "pending" /\ next.status = 0
  BY DEF Unsent
<1>3. next \in RequestState
  <2>1. p \in RequestState  BY <1>1 DEF Unsent, RequestState, Statements
  <2>2. q \in RequestState
    <3> HIDE DEF p
    <3> QED  BY <1>1, <2>1 DEF RequestState
  <2>3. u \in RequestState
    <3> HIDE DEF q
    <3> QED  BY <1>1, <2>2 DEF RequestState
  <2> HIDE DEF u
  <2> QED  BY <1>1, <2>3 DEF RequestState
<1>4. request' = [request EXCEPT ![r] = next] /\ UNCHANGED <<models, versions, walk, lost>>
  BY <1>1 DEF Send
<1> HIDE DEF next
<1>5. request'[r] = next /\ Others(r) /\ request' \in [Requests -> RequestState]
  BY <1>3, <1>4 DEF Inv, TypeOK, Others
<1>6. RequestOK(r)'
  BY <1>1, <1>2, <1>5 DEF RequestOK, Asking, Undecided, RowFound, EffectKept, AnswerTrue,
                          At, ModelStatements, VersionStatements
<1>7. TypeOK' /\ RowsKept  BY <1>4, <1>5 DEF Inv, TypeOK, RowsKept
<1> QED  BY <1>2, <1>5, <1>6, <1>7 DEF Kept, FirstCreator
-----------------------------------------------------------------------------
(* Invariants of the requests.                                             *)

\* The invariant holds of a registry without rows.
LEMMA InitInv == Init => Inv
<1> SUFFICES ASSUME Init PROVE Inv  OBVIOUS
<1>1. Unsent \in RequestState  BY DEF Unsent, RequestState
<1>2. TypeOK
  <2>1. lost \in 0..MaxLost  BY RegistryAssumption DEF Init
  <2>2. walk \in [offset: Nat, seen: SUBSET Names, owed: SUBSET Names, done: BOOLEAN]
    BY DEF Init
  <2>3. /\ models \in [Names -> Descriptions \cup {None}]
        /\ versions \in [Names -> [Versions -> Content \cup {None}]]
        /\ request \in [Requests -> RequestState]
    BY <1>1 DEF Init
  <2> QED  BY <2>1, <2>2, <2>3 DEF TypeOK
<1>3. ASSUME NEW r \in Requests PROVE RequestOK(r) /\ request[r].outcome = "pending"
  BY DEF Init, Unsent, RequestOK, Asking, Undecided, RowFound, EffectKept, AnswerTrue, At,
         ModelStatements, VersionStatements
<1> QED  BY <1>2, <1>3 DEF Inv, CreatedOnce

\* What a step of one request keeps is the invariant of all of them.
LEMMA KeptIsInv ==
    ASSUME Inv, NEW r \in Requests, Kept(r)
    PROVE  Inv'
<1>1. ASSUME NEW s \in Requests PROVE RequestOK(s)'
  <2>1. CASE s = r  BY <2>1 DEF Kept
  <2>2. CASE s # r  BY <2>2, OtherKept DEF Inv, Kept, Others
  <2> QED  BY <2>1, <2>2
<1>2. CreatedOnce'
  BY DEF Inv, Kept, Others, FirstCreator, CreatedOnce
<1> QED  BY <1>1, <1>2 DEF Inv, Kept

\* A page is read.
LEMMA WalkKeeps ==
    ASSUME Inv, WalkStart \/ WalkPage
    PROVE  Inv' /\ UNCHANGED <<models, versions, request, lost>>
<1>1. UNCHANGED <<models, versions, request, lost>>  BY DEF WalkStart, WalkPage
<1>2. TypeOK'
  <2>1. CASE WalkStart
    BY <1>1, <2>1 DEF Inv, TypeOK, WalkStart, Registered
  <2>2. CASE WalkPage
    <3> DEFINE page == list_models(PageLimit, walk.offset)
    <3>1. page \subseteq Names  BY DEF list_models, Registered
    <3>2. /\ walk.offset \in Nat /\ walk.seen \subseteq Names /\ walk.owed \subseteq Names
          /\ walk = [offset |-> walk.offset, seen |-> walk.seen, owed |-> walk.owed,
                     done |-> walk.done]
      BY DEF Inv, TypeOK
    <3>3. walk' = [walk EXCEPT !.offset = @ + PageLimit, !.seen = @ \cup page,
                               !.done = Cardinality(page) < PageLimit]
      BY <2>2 DEF WalkPage
    <3> HIDE DEF page
    <3>4. walk' = [offset |-> walk.offset + PageLimit, seen |-> walk.seen \cup page,
                   owed |-> walk.owed, done |-> Cardinality(page) < PageLimit]
      BY <3>2, <3>3
    <3>5. walk.offset + PageLimit \in Nat  BY <3>2, RegistryAssumption
    <3>6. walk' \in [offset: Nat, seen: SUBSET Names, owed: SUBSET Names, done: BOOLEAN]
      BY <3>1, <3>2, <3>4, <3>5
    <3> QED  BY <1>1, <3>6 DEF Inv, TypeOK
  <2> QED  BY <2>1, <2>2
<1>3. RowsKept  BY <1>1 DEF RowsKept
<1>4. ASSUME NEW s \in Requests PROVE RequestOK(s)'
  BY <1>1, <1>3, OtherKept DEF Inv
<1>5. CreatedOnce'  BY <1>1 DEF Inv, CreatedOnce
<1> QED  BY <1>1, <1>2, <1>4, <1>5 DEF Inv

\* Every step keeps the invariant.
LEMMA NextInv == Inv /\ [Next]_vars => Inv'
<1> SUFFICES ASSUME Inv, [Next]_vars PROVE Inv'  OBVIOUS
<1>1. ASSUME NEW r \in Requests, SendModel(r) \/ SendVersion(r) \/ Step(r) \/ StatementFails(r)
      PROVE  Inv'
  BY <1>1, SendKeeps, StepKeeps, StatementFailsKeeps, KeptIsInv
<1>2. CASE UNCHANGED vars
  <2>1. UNCHANGED <<models, versions, request, walk, lost>>  BY <1>2 DEF vars
  <2>2. TypeOK'  BY <2>1 DEF Inv, TypeOK
  <2>3. RowsKept  BY <2>1 DEF RowsKept
  <2>4. ASSUME NEW s \in Requests PROVE RequestOK(s)'
    BY <2>1, <2>3, OtherKept DEF Inv
  <2>5. CreatedOnce'  BY <2>1 DEF Inv, CreatedOnce
  <2> QED  BY <2>2, <2>4, <2>5 DEF Inv
<1> QED  BY <1>1, <1>2, WalkKeeps DEF Next

\* The inductive invariant.
THEOREM Invariance == Spec => []Inv
<1> QED  BY InitInv, NextInv, PTL DEF Spec

\* Tables, requests and walk keep their types.
THEOREM TypeOKHolds == Spec => []TypeOK
<1>1. Inv => TypeOK  BY DEF Inv
<1> QED  BY <1>1, Invariance, PTL

\* What put_model_version() answers about a version stays true.
THEOREM AnswersStayTrueHolds == Spec => []AnswersStayTrue
<1>1. ASSUME Inv PROVE AnswersStayTrue
  <2>1. \A r \in Requests : AnswerTrue(r)  BY <1>1 DEF Inv, RequestOK
  <2> QED  BY <2>1 DEF AnswerTrue, AnswersStayTrue
<1> QED  BY <1>1, Invariance, PTL

\* The constraints of the tables let one insert of a row succeed, and whoever
\* lost the race is not told that it created the row.
THEOREM CreatedOnceHolds == Spec => []CreatedOnce
<1>1. Inv => CreatedOnce  BY DEF Inv
<1> QED  BY <1>1, Invariance, PTL

\* No step deletes a row or changes one of model_versions.
LEMMA NextKeepsRows == Inv /\ [Next]_vars => RowsKept
<1> SUFFICES ASSUME Inv, [Next]_vars PROVE RowsKept  OBVIOUS
<1>1. ASSUME NEW r \in Requests, SendModel(r) \/ SendVersion(r) \/ Step(r) \/ StatementFails(r)
      PROVE  RowsKept
  BY <1>1, SendKeeps, StepKeeps, StatementFailsKeeps DEF Kept
<1>2. CASE WalkStart \/ WalkPage  BY <1>2, WalkKeeps DEF RowsKept
<1>3. CASE UNCHANGED vars  BY <1>3 DEF vars, RowsKept
<1> QED  BY <1>1, <1>2, <1>3 DEF Next

\* A registered version keeps its content, whoever registers it again and
\* whatever connection is lost.
THEOREM VersionsAreImmutableHolds == Spec => VersionsAreImmutable
<1>1. Inv /\ [Next]_vars =>
        [\A n \in Names, v \in Versions :
           versions[n][v] # None => versions'[n][v] = versions[n][v]]_vars
  BY NextKeepsRows DEF RowsKept
<1> QED  BY <1>1, Invariance, PTL DEF Spec, VersionsAreImmutable
-----------------------------------------------------------------------------
(* Statements that fail.                                                   *)

Failed == {r \in Requests : request[r].status \in {500, 503}}
LostInv == IsFiniteSet(Failed) /\ Cardinality(Failed) <= lost

\* A statement that does not fail answers no 500 or 503, one that fails at most one.
LEMMA NextLost == Inv /\ LostInv /\ [Next]_vars => LostInv'
<1> SUFFICES ASSUME Inv, LostInv, [Next]_vars PROVE LostInv'  OBVIOUS
<1>1. lost \in Nat  BY RegistryAssumption DEF Inv, TypeOK
<1>2. IsFiniteSet(Failed) /\ Cardinality(Failed) \in Nat /\ Cardinality(Failed) <= lost
  BY FS_CardinalityType DEF LostInv
<1>3. ASSUME Failed' \subseteq Failed, lost' = lost PROVE LostInv'
  <2>1. IsFiniteSet(Failed') /\ Cardinality(Failed') <= Cardinality(Failed)
    BY <1>2, <1>3, FS_Subset
  <2>2. Cardinality(Failed') \in Nat  BY <2>1, FS_CardinalityType
  <2> QED  BY <1>1, <1>2, <1>3, <2>1, <2>2 DEF LostInv
<1>4. ASSUME NEW r \in Requests, SendModel(r) \/ SendVersion(r) \/ Step(r) PROVE LostInv'
  <2>1. Others(r) /\ request'[r].status \notin {500, 503}  BY <1>4, SendKeeps, StepKeeps DEF Kept
  <2>2. Failed' \subseteq Failed  BY <2>1 DEF Failed, Others
  <2>3. lost' = lost  BY <1>4 DEF SendModel, SendVersion, Send, Step
  <2> QED  BY <1>3, <2>2, <2>3
<1>5. ASSUME NEW r \in Requests, StatementFails(r) PROVE LostInv'
  <2>1. Others(r)  BY <1>5, StatementFailsKeeps DEF Kept
  <2>2. Failed' \subseteq Failed \cup {r}  BY <2>1 DEF Failed, Others
  <2>3. /\ IsFiniteSet(Failed \cup {r})
        /\ \/ Cardinality(Failed \cup {r}) = Cardinality(Failed)
           \/ Cardinality(Failed \cup {r}) = Cardinality(Failed) + 1
    BY <1>2, FS_AddElement
  <2>4. IsFiniteSet(Failed') /\ Cardinality(Failed') <= Cardinality(Failed \cup {r})
    BY <2>2, <2>3, FS_Subset
  <2>5. Cardinality(Failed') \in Nat  BY <2>4, FS_CardinalityType
  <2>6. lost' = lost + 1  BY <1>5 DEF StatementFails
  <2> QED  BY <1>1, <1>2, <2>3, <2>4, <2>5, <2>6 DEF LostInv
<1>6. CASE WalkStart \/ WalkPage  BY <1>3, <1>6, WalkKeeps DEF Failed
<1>7. CASE UNCHANGED vars  BY <1>3, <1>7 DEF vars, Failed
<1> QED  BY <1>4, <1>5, <1>6, <1>7 DEF Next

\* Every 500 and 503 is a statement that failed: the row that an IntegrityError told of is
\* found by the query that follows.
THEOREM UnavailableMeansLostHolds == Spec => []UnavailableMeansLost
<1>1. Init => LostInv
  <2> SUFFICES ASSUME Init PROVE LostInv  OBVIOUS
  <2>1. Failed = {}  BY DEF Init, Unsent, Failed
  <2> QED  BY <2>1, FS_EmptySet DEF Init, LostInv
<1>2. LostInv => UnavailableMeansLost  BY DEF LostInv, Failed, UnavailableMeansLost
<1> QED  BY <1>1, <1>2, NextLost, Invariance, PTL DEF Spec
-----------------------------------------------------------------------------
(* Pages.                                                                  *)

\* How many names of R are not after n.
RankIn(R, n) == Cardinality({m \in R : m <= n})

\* A name's rank is its place among the names.
LEMMA RankType ==
    ASSUME NEW R \in SUBSET Int, IsFiniteSet(R), NEW n \in R
    PROVE  RankIn(R, n) \in 1..Cardinality(R)
<1> DEFINE upto == {m \in R : m <= n}
<1>1. upto \in SUBSET R /\ n \in upto  OBVIOUS
<1>2. IsFiniteSet(upto) /\ Cardinality(upto) <= Cardinality(R)  BY <1>1, FS_Subset
<1>3. Cardinality(upto) \in Nat /\ Cardinality(R) \in Nat  BY <1>2, FS_CardinalityType
<1>4. Cardinality(upto) # 0  BY <1>1, <1>2, FS_EmptySet
<1> QED  BY <1>2, <1>3, <1>4 DEF RankIn

\* Of two names the later one has the higher rank.
LEMMA RankIncreases ==
    ASSUME NEW R \in SUBSET Int, IsFiniteSet(R), NEW m \in R, NEW n \in R, m < n
    PROVE  RankIn(R, m) < RankIn(R, n)
<1> DEFINE below == {k \in R : k <= m}
           upto == {k \in R : k <= n}
<1>1. upto \in SUBSET R  OBVIOUS
<1>2. below \in SUBSET upto
  <2>1. \A k \in Int : k <= m => k <= n  OBVIOUS
  <2> QED  BY <2>1
<1>3. n \in upto /\ n \notin below  OBVIOUS
<1>4. IsFiniteSet(upto)  BY <1>1, FS_Subset
<1>5. IsFiniteSet(below) /\ Cardinality(below) <= Cardinality(upto)
  BY <1>2, <1>4, FS_Subset
<1>6. Cardinality(below) # Cardinality(upto)  BY <1>2, <1>3, <1>4, FS_Subset
<1>7. Cardinality(below) \in Nat /\ Cardinality(upto) \in Nat
  BY <1>4, <1>5, FS_CardinalityType
<1> QED  BY <1>5, <1>6, <1>7 DEF RankIn

\* The ranks leave no gap: every place has its name.
LEMMA EveryRankIsTaken ==
    ASSUME NEW R \in SUBSET Int, IsFiniteSet(R), NEW k \in 1..Cardinality(R)
    PROVE  \E n \in R : RankIn(R, n) = k
<1> DEFINE places == 1..Cardinality(R)
           rank == [n \in R |-> RankIn(R, n)]
<1>1. Cardinality(R) \in Nat  BY FS_CardinalityType
<1>2. IsFiniteSet(places) /\ Cardinality(places) = Cardinality(R)
  BY <1>1, FS_Interval
<1>3. rank \in [R -> places]  BY RankType
<1>4. ASSUME NEW m \in R, NEW n \in R, rank[m] = rank[n] PROVE m = n
  <2>1. RankIn(R, m) = RankIn(R, n)  BY <1>4
  <2>2. RankIn(R, m) \in Int /\ RankIn(R, n) \in Int  BY <1>1, RankType
  <2>3. ~(m < n) /\ ~(n < m)  BY <2>1, <2>2, RankIncreases
  <2> QED  BY <2>3
<1>5. rank \in Injection(R, places)  BY <1>3, <1>4 DEF Injection, IsInjective
<1>6. rank \in Surjection(R, places)  BY <1>2, <1>5, FS_Injection
<1> QED  BY <1>6 DEF Surjection

\* A page is full when there are names after it.
LEMMA PageIsFull ==
    ASSUME NEW R \in SUBSET Int, IsFiniteSet(R), NEW offset \in Nat, NEW limit \in Nat,
           NEW n \in R, RankIn(R, n) > offset + limit
    PROVE  ~(Cardinality({m \in R : offset < RankIn(R, m) /\ RankIn(R, m) <= offset + limit})
                < limit)
<1> DEFINE page == {m \in R : offset < RankIn(R, m) /\ RankIn(R, m) <= offset + limit}
           places == (offset + 1)..(offset + limit)
           rank == [m \in page |-> RankIn(R, m)]
<1>1. Cardinality(R) \in Nat  BY FS_CardinalityType
<1>2. Cardinality(R) > offset + limit  BY <1>1, RankType
<1>3. page \in SUBSET R /\ IsFiniteSet(page)  BY FS_Subset
<1>4. rank \in [page -> places]
  <2>1. \A m \in R : RankIn(R, m) \in Nat  BY <1>1, RankType
  <2>2. ASSUME NEW m \in page PROVE RankIn(R, m) \in places
    <3>1. /\ RankIn(R, m) \in Nat
          /\ offset < RankIn(R, m) /\ RankIn(R, m) <= offset + limit
      BY <2>1, <2>2
    <3> QED  BY <3>1
  <2> HIDE DEF page, places
  <2> QED  BY <2>2
<1>5. ASSUME NEW k \in places PROVE \E m \in page : rank[m] = k
  <2>1. k \in 1..Cardinality(R)  BY <1>1, <1>2
  <2>2. PICK m \in R : RankIn(R, m) = k  BY <2>1, EveryRankIsTaken
  <2>3. m \in page  BY <2>2
  <2> QED  BY <2>2, <2>3
<1>6. rank \in Surjection(page, places)  BY <1>4, <1>5 DEF Surjection
<1>7. Cardinality(places) <= Cardinality(page)  BY <1>3, <1>6, FS_Surjection
<1>8. Cardinality(places) = limit
  <2>1. offset + 1 \in Int /\ offset + limit \in Int  OBVIOUS
  <2>2. Cardinality(places) = IF offset + 1 > offset + limit THEN 0
                              ELSE (offset + limit) - (offset + 1) + 1
    BY <2>1, FS_Interval
  <2> QED  BY <2>2
<1>9. Cardinality(page) \in Nat  BY <1>3, FS_CardinalityType
<1> QED  BY <1>7, <1>8, <1>9

\* A name's rank does not fall when names are added.
LEMMA RankGrows ==
    ASSUME NEW R \in SUBSET Int, NEW S \in SUBSET Int, R \subseteq S, IsFiniteSet(S), NEW n \in R
    PROVE  RankIn(R, n) <= RankIn(S, n) /\ RankIn(R, n) \in Nat /\ RankIn(S, n) \in Nat
<1> DEFINE before == {m \in R : m <= n}
           after == {m \in S : m <= n}
<1>1. before \in SUBSET after /\ after \in SUBSET S  OBVIOUS
<1>2. IsFiniteSet(after)  BY <1>1, FS_Subset
<1>3. IsFiniteSet(before) /\ Cardinality(before) <= Cardinality(after)
  BY <1>1, <1>2, FS_Subset
<1> QED  BY <1>2, <1>3, FS_CardinalityType DEF RankIn

\* A model that was registered when the client began has been seen, or comes
\* after the pages read so far.
WalkInv ==
    \A n \in walk.owed :
        /\ n \in Registered
        /\ n \in walk.seen \/ (~walk.done /\ Rank(n) > walk.offset)

\* The registered names are finitely many integers, and stay registered.
LEMMA RegisteredGrows ==
    ASSUME Inv, [Next]_vars
    PROVE  /\ Registered \in SUBSET Int /\ Registered' \in SUBSET Int
           /\ IsFiniteSet(Registered) /\ IsFiniteSet(Registered')
           /\ Registered \subseteq Registered'
<1>1. RowsKept  BY NextKeepsRows
<1>2. Registered \in SUBSET Names /\ Registered' \in SUBSET Names  BY DEF Registered
<1>3. IsFiniteSet(Registered) /\ IsFiniteSet(Registered')
  BY <1>2, RegistryAssumption, FS_Subset
<1> QED  BY <1>1, <1>2, <1>3, RegistryAssumption DEF Registered, RowsKept

\* New names only push the owed ones back, and a short page is the last one.
LEMMA NextWalk == Inv /\ WalkInv /\ [Next]_vars => WalkInv'
<1> SUFFICES ASSUME Inv, WalkInv, [Next]_vars PROVE WalkInv'  OBVIOUS
<1>1. /\ Registered \in SUBSET Int /\ Registered' \in SUBSET Int
      /\ IsFiniteSet(Registered) /\ IsFiniteSet(Registered')
      /\ Registered \subseteq Registered'
  BY RegisteredGrows
<1>2. \A n : Rank(n) = RankIn(Registered, n) /\ Rank(n)' = RankIn(Registered', n)
  BY DEF Rank, RankIn
<1>3. walk.offset \in Nat /\ PageLimit \in Nat /\ PageLimit # 0
  BY RegistryAssumption DEF Inv, TypeOK
<1>4. CASE walk' = walk
  <2> SUFFICES ASSUME NEW n \in walk.owed
               PROVE  /\ n \in Registered'
                      /\ n \in walk.seen \/ (~walk.done /\ Rank(n)' > walk.offset)
    BY <1>4 DEF WalkInv
  <2>1. n \in Registered /\ (n \in walk.seen \/ (~walk.done /\ Rank(n) > walk.offset))
    BY DEF WalkInv
  <2>2. /\ RankIn(Registered, n) <= RankIn(Registered', n)
        /\ RankIn(Registered, n) \in Nat /\ RankIn(Registered', n) \in Nat
    BY <1>1, <2>1, RankGrows
  <2> QED  BY <1>1, <1>2, <1>3, <2>1, <2>2
<1>5. CASE WalkStart
  <2>1. walk' = [offset |-> 0, seen |-> {}, owed |-> Registered, done |-> FALSE]
        /\ Registered' = Registered
    BY <1>5 DEF WalkStart, Registered
  <2>2. \A n \in Registered : RankIn(Registered, n) > 0
    BY <1>1, RankType, FS_CardinalityType
  <2> QED  BY <1>2, <2>1, <2>2 DEF WalkInv
<1>6. CASE WalkPage
  <2> DEFINE page == list_models(PageLimit, walk.offset)
  <2>1. Registered' = Registered  BY <1>6 DEF WalkPage, Registered
  <2>2. ~walk.done  BY <1>6 DEF WalkPage
  <2>3. /\ walk'.offset = walk.offset + PageLimit /\ walk'.seen = walk.seen \cup page
        /\ walk'.owed = walk.owed /\ walk'.done = (Cardinality(page) < PageLimit)
    BY <1>6 DEF WalkPage, Inv, TypeOK
  <2>4. page = {m \in Registered : /\ walk.offset < RankIn(Registered, m)
                                   /\ RankIn(Registered, m) <= walk.offset + PageLimit}
    BY <1>2 DEF list_models
  <2> HIDE DEF page
  <2> SUFFICES ASSUME NEW n \in walk.owed
               PROVE  /\ n \in Registered
                      /\ \/ n \in walk.seen \cup page
                         \/ /\ ~(Cardinality(page) < PageLimit)
                            /\ RankIn(Registered, n) > walk.offset + PageLimit
    BY <1>2, <2>1, <2>3 DEF WalkInv
  <2>5. n \in Registered /\ (n \in walk.seen \/ RankIn(Registered, n) > walk.offset)
    BY <1>2 DEF WalkInv
  <2>6. RankIn(Registered, n) \in Nat  BY <1>1, <2>5, RankGrows
  <2>7. RankIn(Registered, n) > walk.offset + PageLimit => ~(Cardinality(page) < PageLimit)
    BY <1>1, <1>3, <2>4, <2>5, PageIsFull
  <2> QED  BY <1>3, <2>4, <2>5, <2>6, <2>7
<1>7. ASSUME NEW r \in Requests, SendModel(r) \/ SendVersion(r) \/ Step(r) \/ StatementFails(r)
      PROVE  walk' = walk
  BY <1>7 DEF SendModel, SendVersion, Send, Step, StatementFails
<1> QED  BY <1>4, <1>5, <1>6, <1>7 DEF Next, vars

\* list_models() orders by name and pages by offset: as models are never
\* deleted, a client that reads on until a short page misses none.
THEOREM PagesMissNothingHolds == Spec => []PagesMissNothing
<1>1. Init => WalkInv  BY DEF Init, WalkInv
<1>2. WalkInv => PagesMissNothing  BY DEF WalkInv, PagesMissNothing
<1> QED  BY <1>1, <1>2, NextWalk, Invariance, PTL DEF Spec
-----------------------------------------------------------------------------
(* The requests implement the service.                                     *)

\* What the client has asked and what became of it, as the service has them.
Asks == [r \in Requests |-> [name |-> request[r].name, version |-> request[r].version,
                             body |-> request[r].body]]
Outcomes == [r \in Requests |-> request[r].outcome]
ServiceStep == [Service!Next]_<<models, versions, Asks, Outcomes>>

\* A statement that has no effect on the registry is none of the service's steps.
LEMMA NoEffect ==
    ASSUME NEW r \in Requests, Others(r), AskedKept(r), UNCHANGED <<models, versions>>,
           request'[r].outcome = request[r].outcome
    PROVE  ServiceStep
<1>1. \A s \in Requests : /\ request'[s].name = request[s].name
                          /\ request'[s].version = request[s].version
                          /\ request'[s].body = request[s].body
                          /\ request'[s].outcome = request[s].outcome
  BY DEF Others, AskedKept
<1>2. Asks' = Asks /\ Outcomes' = Outcomes  BY <1>1 DEF Asks, Outcomes
<1> QED  BY <1>2 DEF ServiceStep

\* The instant at which a request takes effect decides what becomes of it.
LEMMA Decides ==
    ASSUME NEW r \in Requests, Others(r), AskedKept(r), request[r].outcome = "pending"
    PROVE  Service!Decide(r, request'[r].outcome)
<1>1. \A s \in Requests : /\ request'[s].name = request[s].name
                          /\ request'[s].version = request[s].version
                          /\ request'[s].body = request[s].body
  BY DEF Others, AskedKept
<1>2. Asks' = Asks  BY <1>1 DEF Asks
<1>3. \A s \in Requests : 
        request'[s].outcome = IF s = r THEN request'[r].outcome ELSE request[s].outcome
  BY DEF Others
<1>4. Outcomes' = [Outcomes EXCEPT ![r] = request'[r].outcome]  BY <1>3 DEF Outcomes
<1> QED  BY <1>2, <1>4 DEF Service!Decide, Asks, Outcomes

\* A put of a model takes effect.
LEMMA PutsModel ==
    ASSUME Inv, NEW r \in Requests, request[r].pc \in ModelStatements, WriteModel(r),
           Others(r), AskedKept(r), UNCHANGED versions,
           request'[r].outcome = IF ModelRow(r) = None THEN "created" ELSE "ok"
    PROVE  ServiceStep
<1> DEFINE n == request[r].name
           d == request[r].body
<1>1. n \in Names /\ d \in Descriptions /\ request[r].version = None
      /\ request[r].outcome = "pending"
  BY ModelPut
<1>2. Service!Decide(r, request'[r].outcome)  BY <1>1, Decides
<1>3. models' = [models EXCEPT ![n] = d]  BY DEF WriteModel
<1>4. Service!PutModel(r, n, d)
  BY <1>1, <1>2, <1>3 DEF Service!PutModel, Service!Asked, Service!Decide, ModelRow
<1>5. Service!Next  BY <1>1, <1>4 DEF Service!Next
<1> QED  BY <1>5 DEF ServiceStep

\* A put of a version takes effect, or is refused.
LEMMA PutsVersion ==
    ASSUME Inv, NEW r \in Requests, request[r].pc \in VersionStatements,
           Others(r), AskedKept(r), UNCHANGED models,
           \/ /\ ModelRow(r) = None /\ request'[r].outcome = "not_found"
              /\ UNCHANGED versions
           \/ /\ ModelRow(r) # None /\ VersionRow(r) = None
              /\ request'[r].outcome = "created" /\ WriteVersion(r)
           \/ /\ VersionRow(r) # None /\ UNCHANGED versions
              /\ request'[r].outcome = IF version_matches(VersionRow(r), request[r].body)
                                         THEN "ok" ELSE "conflict"
    PROVE  ServiceStep
<1> DEFINE n == request[r].name
           v == request[r].version
           c == request[r].body
<1>1. n \in Names /\ v \in Versions /\ c \in Content /\ request[r].outcome = "pending"
  BY VersionPut
<1>2. Service!Decide(r, request'[r].outcome)  BY <1>1, Decides
<1>3. Service!PutVersion(r, n, v, c)
  BY <1>1, <1>2 DEF Service!PutVersion, Service!Asked, Service!Decide, ModelRow, VersionRow,
                    WriteVersion
<1>4. Service!Next  BY <1>1, <1>3 DEF Service!Next
<1> QED  BY <1>4 DEF ServiceStep

\* A request is sent: the client asks.
LEMMA SendAsks ==
    ASSUME Inv, NEW r \in Requests, SendModel(r) \/ SendVersion(r)
    PROVE  ServiceStep
<1>1. PICK pc, n, v, body :
         /\ Send(r, pc, n, v, body) /\ n \in Names
         /\ \/ v = None /\ body \in Descriptions
            \/ v \in Versions /\ body \in Content
  BY DEF SendModel, SendVersion
<1>2. request[r] = Unsent
  BY <1>1 DEF Inv, RequestOK, Asking, Send, At, ModelStatements, VersionStatements
<1> DEFINE next == [Unsent EXCEPT !.pc = pc, !.name = n, !.version = v, !.body = body]
<1>3. /\ next.name = n /\ next.version = v /\ next.body = body /\ next.outcome = "pending"
      /\ Unsent.outcome = "pending"
      /\ Unsent.name = None /\ Unsent.version = None /\ Unsent.body = None
  BY DEF Unsent
<1>4. request' = [request EXCEPT ![r] = next] /\ UNCHANGED <<models, versions>>
  BY <1>1 DEF Send
<1> HIDE DEF next
<1>5. request'[r] = next /\ Others(r)  BY <1>4 DEF Inv, TypeOK, Others
<1>6. Asks' = [Asks EXCEPT ![r] = Service!Asked(n, v, body)]
  BY <1>3, <1>5 DEF Asks, Others, Service!Asked
<1>7. Outcomes' = Outcomes  BY <1>2, <1>3, <1>5 DEF Outcomes, Others
<1>8. Asks[r] = Service!Nothing  BY <1>2, <1>3 DEF Asks, Service!Nothing, Service!Asked
<1>9. Service!Ask(r)
  BY <1>1, <1>4, <1>6, <1>7, <1>8 DEF Service!Ask, Asks, Outcomes
<1>10. Service!Next  BY <1>9 DEF Service!Next
<1> QED  BY <1>10 DEF ServiceStep

\* A row that already says what is put counts as put when it is read.
LEMMA GetModelServes ==
    ASSUME Inv, NEW r \in Requests, GetModel(r), UNCHANGED <<models, versions>>
    PROVE  ServiceStep
<1>1. TypeOK  BY DEF Inv
<1>2. request[r].pc \in ModelStatements  BY DEF GetModel, At, ModelStatements
<1>3. request[r].name \in Names /\ request[r].body \in Descriptions  BY <1>2, ModelPut
<1>4. ASSUME NEW pc \in Statements, Goto(r, pc) PROVE ServiceStep
  BY <1>1, <1>4, GotoIs, NoEffect
<1>5. CASE Unavailable(r, 503)  BY <1>1, <1>5, UnavailableIs, NoEffect DEF ServerErrors
<1>6. CASE ModelRow(r) = request[r].body /\ Answer(r, 200, "ok", ModelRow(r))
  <2>1. ModelRow(r) \in Descriptions \cup Content \cup {None}  BY <1>3, <1>6
  <2>2. Others(r) /\ AskedKept(r) /\ request'[r].outcome = "ok"
    <3> DEFINE row == ModelRow(r)
    <3>1. row \in Descriptions \cup Content \cup {None} /\ Answer(r, 200, "ok", row)
      BY <1>6, <2>1
    <3> HIDE DEF row
    <3> QED  BY <1>1, <3>1, AnswerIs
  <2>3. ModelRow(r) # None  BY <1>3, <1>6, RegistryAssumption
  <2>4. WriteModel(r)  BY <1>1, <1>3, <1>6 DEF TypeOK, WriteModel, ModelRow
  <2> QED  BY <1>2, <2>2, <2>3, <2>4, PutsModel
<1>7. "insert_model" \in Statements /\ "update_model" \in Statements  BY DEF Statements
<1> QED  BY <1>4, <1>5, <1>6, <1>7 DEF GetModel

\* A version is compared with the row that is there.
LEMMA GetVersionServes ==
    ASSUME Inv, NEW r \in Requests, GetVersion(r), UNCHANGED <<models, versions>>
    PROVE  ServiceStep
<1>1. TypeOK  BY DEF Inv
<1>2. request[r].pc \in VersionStatements  BY DEF GetVersion, At, VersionStatements
<1>3. request[r].name \in Names /\ request[r].version \in Versions  BY <1>2, VersionPut
<1>4. VersionRow(r) \in Descriptions \cup Content \cup {None}  BY <1>1, <1>3, RowsTyped
<1>5. ASSUME NEW pc \in Statements, Goto(r, pc) PROVE ServiceStep
  BY <1>1, <1>5, GotoIs, NoEffect
<1>6. CASE Unavailable(r, 503)  BY <1>1, <1>6, UnavailableIs, NoEffect DEF ServerErrors
<1>7. CASE VersionRow(r) # None /\ version_matches(VersionRow(r), request[r].body)
           /\ Answer(r, 200, "ok", VersionRow(r))
  <2>1. Others(r) /\ AskedKept(r) /\ request'[r].outcome = "ok"
    <3> DEFINE row == VersionRow(r)
    <3>1. row \in Descriptions \cup Content \cup {None} /\ Answer(r, 200, "ok", row)
      BY <1>4, <1>7
    <3> HIDE DEF row
    <3> QED  BY <1>1, <3>1, AnswerIs
  <2> QED  BY <1>2, <1>7, <2>1, PutsVersion
<1>8. CASE VersionRow(r) # None /\ ~version_matches(VersionRow(r), request[r].body)
           /\ Answer(r, 409, "conflict", None)
  <2>1. Others(r) /\ AskedKept(r) /\ request'[r].outcome = "conflict"
    BY <1>1, <1>8, AnswerIs
  <2> QED  BY <1>2, <1>8, <2>1, PutsVersion
<1>9. "insert_version" \in Statements  BY DEF Statements
<1> QED  BY <1>5, <1>6, <1>7, <1>8, <1>9 DEF GetVersion

\* Every statement is one step of the service or none.
LEMMA StepServes ==
    ASSUME Inv, NEW r \in Requests, Step(r)
    PROVE  ServiceStep
<1>1. TypeOK  BY DEF Inv
<1>2. ASSUME NEW pc \in Statements, Goto(r, pc), UNCHANGED <<models, versions>>
      PROVE  ServiceStep
  BY <1>1, <1>2, GotoIs, NoEffect
<1>3. CASE InsertModel(r) /\ UNCHANGED versions
  <2>1. CASE ModelRow(r) = None
    <3>1. WriteModel(r) /\ Commit(r, "created")  BY <1>3, <2>1 DEF InsertModel
    <3>2. Others(r) /\ AskedKept(r) /\ request'[r].outcome = "created"
      BY <1>1, <3>1, CommitIs
    <3>3. request[r].pc \in ModelStatements  BY <1>3 DEF InsertModel, At, ModelStatements
    <3> QED  BY <1>3, <2>1, <3>1, <3>2, <3>3, PutsModel
  <2>2. CASE ModelRow(r) # None
    <3>1. "reget_model" \in Statements  BY DEF Statements
    <3> QED  BY <1>2, <1>3, <2>2, <3>1 DEF InsertModel
  <2> QED  BY <2>1, <2>2
<1>4. CASE UpdateModel(r) /\ UNCHANGED versions
  <2>1. WriteModel(r) /\ Commit(r, "ok")  BY <1>4 DEF UpdateModel
  <2>2. Others(r) /\ AskedKept(r) /\ request'[r].outcome = "ok"  BY <1>1, <2>1, CommitIs
  <2>3. request[r].pc \in ModelStatements  BY <1>4 DEF UpdateModel, At, ModelStatements
  <2>4. ModelRow(r) # None  BY <1>4 DEF Inv, RequestOK, RowFound, UpdateModel, At
  <2> QED  BY <1>4, <2>1, <2>2, <2>3, <2>4, PutsModel
<1>5. CASE CheckModel(r) /\ UNCHANGED <<models, versions>>
  <2>1. CASE ModelRow(r) = None
    <3>1. Answer(r, 404, "not_found", None)  BY <1>5, <2>1 DEF CheckModel
    <3>2. Others(r) /\ AskedKept(r) /\ request'[r].outcome = "not_found"
      BY <1>1, <3>1, AnswerIs
    <3>3. request[r].pc \in VersionStatements  BY <1>5 DEF CheckModel, At, VersionStatements
    <3> QED  BY <1>5, <2>1, <3>2, <3>3, PutsVersion
  <2>2. CASE ModelRow(r) # None
    <3>1. "get_version" \in Statements  BY DEF Statements
    <3> QED  BY <1>2, <1>5, <2>2, <3>1 DEF CheckModel
  <2> QED  BY <2>1, <2>2
<1>6. CASE InsertVersion(r) /\ UNCHANGED models
  <2>1. CASE ModelRow(r) # None /\ VersionRow(r) = None
    <3>1. WriteVersion(r) /\ Commit(r, "created")  BY <1>6, <2>1 DEF InsertVersion
    <3>2. Others(r) /\ AskedKept(r) /\ request'[r].outcome = "created"
      BY <1>1, <3>1, CommitIs
    <3>3. request[r].pc \in VersionStatements
      BY <1>6 DEF InsertVersion, At, VersionStatements
    <3> QED  BY <1>6, <2>1, <3>1, <3>2, <3>3, PutsVersion
  <2>2. CASE ~(ModelRow(r) # None /\ VersionRow(r) = None)
    <3>1. "reget_version" \in Statements  BY DEF Statements
    <3>2. Goto(r, "reget_version") /\ UNCHANGED versions  BY <1>6, <2>2 DEF InsertVersion
    <3> QED  BY <1>2, <1>6, <3>1, <3>2
  <2> QED  BY <2>1, <2>2
<1>7. CASE Refresh(r) /\ UNCHANGED <<models, versions>>
  <2>1. AskedKept(r) /\ Others(r) /\ request'[r].outcome = request[r].outcome
    BY <1>1, <1>7 DEF TypeOK, RequestState, Refresh, Answer, AskedKept, Others
  <2> QED  BY <1>7, <2>1, NoEffect
<1> QED
  BY <1>3, <1>4, <1>5, <1>6, <1>7, GetModelServes, GetVersionServes DEF Step

\* A put whose statement fails has happened, or has not.
LEMMA StatementFailsServes ==
    ASSUME Inv, NEW r \in Requests, StatementFails(r)
    PROVE  ServiceStep
<1>1. TypeOK  BY DEF Inv
<1>2. None \in Descriptions \cup Content \cup {None}  OBVIOUS
<1>2a. PICK status \in ServerErrors : Fails(r, status)  BY DEF StatementFails, Fails
<1>2b. status \in {200, 201, 404, 409, 500, 503}  BY DEF ServerErrors
<1>3. CASE Unavailable(r, status) /\ UNCHANGED <<models, versions>>
  BY <1>1, <1>3, UnavailableIs, NoEffect
<1>4. CASE /\ At(r, "insert_model") /\ ModelRow(r) = None /\ WriteModel(r)
           /\ Answer(r, status, "created", None) /\ UNCHANGED versions
  <2>1. Others(r) /\ AskedKept(r) /\ request'[r].outcome = "created"
    BY <1>1, <1>2, <1>4, <1>2b, AnswerIs
  <2>2. request[r].pc \in ModelStatements  BY <1>4 DEF At, ModelStatements
  <2> QED  BY <1>4, <2>1, <2>2, PutsModel
<1>5. CASE /\ At(r, "update_model") /\ WriteModel(r)
           /\ Answer(r, status, "ok", None) /\ UNCHANGED versions
  <2>1. Others(r) /\ AskedKept(r) /\ request'[r].outcome = "ok"
    BY <1>1, <1>2, <1>5, <1>2b, AnswerIs
  <2>2. request[r].pc \in ModelStatements  BY <1>5 DEF At, ModelStatements
  <2>3. ModelRow(r) # None  BY <1>5 DEF Inv, RequestOK, RowFound, At
  <2> QED  BY <1>5, <2>1, <2>2, <2>3, PutsModel
<1>6. CASE /\ At(r, "insert_version") /\ ModelRow(r) # None /\ VersionRow(r) = None
           /\ WriteVersion(r) /\ Answer(r, status, "created", None) /\ UNCHANGED models
  <2>1. Others(r) /\ AskedKept(r) /\ request'[r].outcome = "created"
    BY <1>1, <1>2, <1>6, <1>2b, AnswerIs
  <2>2. request[r].pc \in VersionStatements  BY <1>6 DEF At, VersionStatements
  <2> QED  BY <1>6, <2>1, <2>2, PutsVersion
<1> QED  BY <1>3, <1>4, <1>5, <1>6, <1>2a DEF Fails

\* The registry is linearizable: every put takes effect at one statement, which
\* is a step of the service; all the others are invisible.
THEOREM ImplementsServiceHolds == Spec => ImplementsService
<1>1. ASSUME Init PROVE Service!Init
  <2>1. \A r \in Requests : /\ request[r].name = None /\ request[r].version = None
                            /\ request[r].body = None /\ request[r].outcome = "pending"
    BY <1>1 DEF Init, Unsent
  <2>2. models = [n \in Names |-> None] /\ versions = [n \in Names |-> [v \in Versions |-> None]]
    BY <1>1 DEF Init
  <2> QED  BY <2>1, <2>2 DEF Service!Init, Service!Nothing, Service!Asked
<1>2. Inv /\ [Next]_vars => [Service!Next]_(Service!vars)
  <2> SUFFICES ASSUME Inv, [Next]_vars PROVE ServiceStep
    BY DEF ServiceStep, Service!vars, Asks, Outcomes
  <2>1. CASE WalkStart \/ WalkPage \/ UNCHANGED vars
    <3>1. UNCHANGED <<models, versions, request>>  BY <2>1 DEF WalkStart, WalkPage, vars
    <3>2. Asks' = Asks /\ Outcomes' = Outcomes  BY <3>1 DEF Asks, Outcomes
    <3> QED  BY <3>1, <3>2 DEF ServiceStep
  <2> QED  BY <2>1, SendAsks, StepServes, StatementFailsServes DEF Next
<1> QED  BY <1>1, <1>2, Invariance, PTL DEF Spec, ImplementsService, Service!Spec
=============================================================================
