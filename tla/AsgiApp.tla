------------------------------ MODULE AsgiApp ------------------------------
(***************************************************************************)
(* A FastAPI application of Kernexys from start to stop: the control API   *)
(* (create_app of src/app/main.py) or the runtime                          *)
(* (src/runtime/runtime_app/main.py), with one request that goes through   *)
(* BodyLimit.  The request is a GET /health/ready of the control API or    *)
(* any other.                                                              *)
(*                                                                         *)
(* The control API owns up to three resources, named as its readiness      *)
(* answer names them: the database engine, the Kubernetes gateway and the  *)
(* Redis queue.  Opening or closing one may raise.  Dependencies fail and  *)
(* heal while a readiness check is under way.                              *)
(***************************************************************************)
EXTENDS BodyLimit, FiniteSets

CONSTANT MaxFlips   \* bound: how often a dependency goes down or comes back

ASSUME FlipAssumption == MaxFlips \in Nat

Resources == {"database", "kubernetes", "redis"}

VARIABLES
    phase,      \* the lifespan: what it does next
    enabled,    \* the resources the settings enable
    given,      \* the resources create_app was given by its caller
    res,        \* each resource: "none", "given", "open" or "closed"
    down,       \* the dependencies that do not answer now
    flips,      \* bound counter
    path,       \* "ready", or "other"
    dependency, \* the local variable of ready(); "" outside it
    response,   \* of the readiness request: "", "ready", or the dependency 503 names
    seenUp      \* history: the dependencies that were up at some time of the request

life == <<phase, res>>
check == <<path, dependency, response, seenUp>>
config == <<service, enabled, given>>
vars == <<config, life, down, flips, check, request>>

Needed == {"database"} \cup enabled
Owned == (Needed \ given)

Init ==
    /\ service \in {"api", "runtime"}
    /\ enabled \in SUBSET {"kubernetes", "redis"}
    /\ given \in SUBSET Resources
    /\ service = "runtime" => enabled = {} /\ given = {}
    /\ phase = IF service = "api" THEN "open_gateway" ELSE "load"
    /\ res = [r \in Resources |->
                CASE service = "runtime" -> "none"
                  [] r \in given -> "given"
                  [] OTHER -> IF r = "database" THEN "open" ELSE "none"]
    /\ down = {} /\ flips = 0
    /\ path = "other" /\ dependency = "" /\ response = "" /\ seenUp = {}
    /\ RequestInit

-----------------------------------------------------------------------------
(* The lifespan of the control API. *)

\* Open r if it is owned; an exception goes to the finally clause.
Open(r, next) ==
    \/ r \notin Owned /\ phase' = next /\ UNCHANGED res
    \/ r \in Owned /\ phase' = next /\ res' = [res EXCEPT ![r] = "open"]
    \/ r \in Owned /\ phase' = "close_queue" /\ UNCHANGED res

OpenGateway == phase = "open_gateway" /\ Open("kubernetes", "open_queue")
OpenQueue == phase = "open_queue" /\ Open("redis", "serving")

\* Mutant: the clean-up is a sequence without finally clauses.
CloseInSequence(r, next) ==
    /\ res' = [res EXCEPT ![r] = IF @ = "open" THEN "closed" ELSE @]
    /\ phase' = next \/ (res[r] = "open" /\ phase' = "stopped")

\* Close r if it was opened here; whether close() raises or not, the enclosing
\* finally clauses run.
Close(r, next) ==
    /\ res' = [res EXCEPT ![r] = IF r \in Owned /\ @ = "open" THEN "closed" ELSE @]
    /\ phase' = next

CloseQueue == phase = "close_queue" /\ Close("redis", "close_gateway")
CloseGateway == phase = "close_gateway" /\ Close("kubernetes", "dispose_engine")
DisposeEngine == phase = "dispose_engine" /\ Close("database", "stopped")

Lifespan ==
    /\ OpenGateway \/ OpenQueue \/ CloseQueue \/ CloseGateway \/ DisposeEngine
    /\ UNCHANGED <<config, down, flips, check, request>>

(* The lifespan of the runtime: its settings admit only a version that the *)
(* classifier has.                                                         *)
RuntimeLifespan ==
    /\ \/ phase = "load" /\ phase' = "serving"
       \/ phase = "unready" /\ phase' = "stopped"
    /\ UNCHANGED <<config, res, down, flips, check, request>>

(* Uvicorn: after the signal it takes no new request, and the lifespan goes on *)
(* when the open one has ended or the graceful timeout has cancelled it.       *)
Signal ==
    /\ phase = "serving" /\ phase' = "draining"
    /\ UNCHANGED <<config, res, down, flips, check, request>>

Drained ==
    /\ phase = "draining"
    /\ phase' = IF service = "api" THEN "close_queue" ELSE "unready"
    /\ pc' = IF pc \in {"none", "rejected", "done"} THEN pc ELSE "cancelled"
    /\ dependency' = ""
    /\ UNCHANGED <<config, res, down, flips, path, response, seenUp>>
    /\ UNCHANGED <<declared, gone, sent, buffered, total, read>>

-----------------------------------------------------------------------------
(* The request. *)

Accept ==
    /\ phase = "serving" /\ Arrive
    /\ path' \in IF service = "api" THEN {"ready", "other"} ELSE {"other"}
    /\ UNCHANGED <<config, life, down, flips, dependency, response, seenUp>>

Middleware ==
    /\ CheckDeclared \/ BufferMessage \/ ClientLeaves
    /\ UNCHANGED <<config, life, down, flips, check>>

\* An endpoint other than readiness reads what it likes and answers.
Endpoint ==
    /\ path = "other"
    /\ \/ AppReceive
       \/ /\ pc = "app" /\ pc' = "done"
          /\ UNCHANGED <<declared, gone, sent, buffered, total, read>>
    /\ UNCHANGED <<config, life, down, flips, check>>

\* ready() starts with the database.  Which dependencies are down matters from
\* here on, so this is where it is chosen.
ReadyBegin ==
    /\ pc = "app" /\ path = "ready" /\ dependency = ""
    /\ dependency' = "database"
    /\ down' \in SUBSET Needed
    /\ seenUp' = Needed \ down'
    /\ UNCHANGED <<config, life, flips, path, response, request>>

\* Mutant: the queue is looked at only after the gateway.
AfterInOrder(d) ==
    CASE d = "database" /\ "kubernetes" \in enabled -> "kubernetes"
      [] d = "kubernetes" /\ "redis" \in enabled -> "redis"
      [] OTHER -> ""

\* What ready() checks after d; "" when it is through.
After(d) ==
    IF d = "database" /\ "kubernetes" \in enabled THEN "kubernetes"
    ELSE IF d # "redis" /\ "redis" \in enabled THEN "redis"
    ELSE ""

\* check_ready() of the gateway, of the queue, and the SELECT of the database.
check_ready(d) == d \notin down

\* The dependency answers, and ready() goes on to the next or returns.
Answers ==
    /\ check_ready(dependency) /\ res[dependency] \in {"given", "open"}
    /\ dependency' = After(dependency)
    /\ response' = IF dependency' = "" THEN "ready" ELSE ""

\* Mutant: the name has moved on before the answer is there.
FailsOrTimesOutNamesNext ==
    /\ response' = After(dependency) /\ dependency' = ""

\* It fails, or the timeout all the checks share fires: 503 with its name.
FailsOrTimesOut ==
    /\ response' = dependency /\ dependency' = ""

Ready ==
    /\ pc = "app" /\ dependency # ""
    /\ Answers \/ FailsOrTimesOut
    /\ pc' = IF dependency' = "" THEN "done" ELSE pc
    /\ UNCHANGED <<config, life, down, flips, path, seenUp>>
    /\ UNCHANGED <<declared, gone, sent, buffered, total, read>>

\* A dependency goes down or comes back while ready() runs.
Flip(d) ==
    /\ dependency # "" /\ flips < MaxFlips /\ flips' = flips + 1
    /\ down' = IF d \in down THEN down \ {d} ELSE down \cup {d}
    /\ seenUp' = seenUp \cup (Needed \ down')
    /\ UNCHANGED <<config, life, path, dependency, response, request>>

Next ==
    \/ Lifespan \/ RuntimeLifespan \/ Signal \/ Drained
    \/ Accept \/ Middleware \/ Endpoint \/ ReadyBegin \/ Ready
    \/ \E d \in Needed : Flip(d)

\* The event loop runs the tasks that can run.
Spec ==
    /\ Init /\ [][Next]_vars
    /\ WF_vars(CheckDeclared /\ Middleware) /\ WF_vars(BufferMessage /\ Middleware)
    /\ WF_vars(AppReceive /\ Endpoint) /\ WF_vars(Ready) /\ WF_vars(ReadyBegin)

TypeOK ==
    /\ res \in [Resources -> {"none", "given", "open", "closed"}]
    /\ {down, seenUp} \subseteq SUBSET Resources
    /\ response \in Resources \cup {"ready"} \/ (response = "" /\ (path = "ready" => pc # "done"))
    /\ dependency \in Resources \cup {""}
    /\ \A s \in {sent, buffered, read} : s \in Seq(Messages)

\* However start-up or shutdown fails, the lifespan that ended has closed
\* everything it opened, and never what its caller gave it; no request is left
\* that could use what is closed.
EverythingIsClosed ==
    /\ phase = "stopped" => \A r \in Resources : res[r] # "open"
    /\ \A r \in given : res[r] = "given"
    /\ (\E r \in Resources : res[r] = "closed") => pc \notin {"call", "buffering", "app"}

\* GET /health/ready says "ready" only when each dependency the settings enable
\* was up at some time of that request; 503 names an enabled one, and only when
\* those checked before it were up.
ReadinessIsTruthful ==
    LET before == CASE response = "database" -> {}
                    [] response = "kubernetes" -> {"database"}
                    [] OTHER -> Needed \ {"redis"}
    IN  /\ response = "ready" => Needed \subseteq seenUp
        /\ response \in Resources => response \in Needed /\ before \subseteq seenUp
=============================================================================
