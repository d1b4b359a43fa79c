--------------------------- MODULE RegistryService ---------------------------
(***************************************************************************)
(* What the model registry promises its clients: every put that takes      *)
(* effect does so at one instant, and with what the client asked for.  A   *)
(* model's description is the last one put; a version, once registered,    *)
(* is never changed.                                                       *)
(***************************************************************************)
CONSTANTS Requests, Names, Versions, Descriptions, Contents, None,
          Matches(_, _)   \* whether a version's content repeats a request's

VARIABLES models, versions,
          asked,          \* what each client asked for
          outcome         \* what became of it

vars == <<models, versions, asked, outcome>>

\* A put of a model has no version.
Asked(n, v, body) == [name |-> n, version |-> v, body |-> body]
Nothing == Asked(None, None, None)

Init ==
    /\ models = [n \in Names |-> None]
    /\ versions = [n \in Names |-> [v \in Versions |-> None]]
    /\ asked = [r \in Requests |-> Nothing]
    /\ outcome = [r \in Requests |-> "pending"]

Ask(r) ==
    /\ asked[r] = Nothing
    /\ \E n \in Names :
         \/ \E d \in Descriptions : asked' = [asked EXCEPT ![r] = Asked(n, None, d)]
         \/ \E v \in Versions, c \in Contents :
              asked' = [asked EXCEPT ![r] = Asked(n, v, c)]
    /\ UNCHANGED <<models, versions, outcome>>

Decide(r, verdict) ==
    /\ outcome[r] = "pending"
    /\ outcome' = [outcome EXCEPT ![r] = verdict]
    /\ UNCHANGED asked

PutModel(r, n, description) ==
    /\ asked[r] = Asked(n, None, description)
    /\ Decide(r, IF models[n] = None THEN "created" ELSE "ok")
    /\ models' = [models EXCEPT ![n] = description]
    /\ UNCHANGED versions

PutVersion(r, n, v, content) ==
    /\ asked[r] = Asked(n, v, content)
    /\ \/ /\ models[n] = None
          /\ Decide(r, "not_found")
          /\ UNCHANGED versions
       \/ /\ models[n] # None /\ versions[n][v] = None
          /\ Decide(r, "created")
          /\ versions' = [versions EXCEPT ![n][v] = content]
       \/ /\ versions[n][v] # None
          /\ Decide(r, IF Matches(versions[n][v], content) THEN "ok" ELSE "conflict")
          /\ UNCHANGED versions
    /\ UNCHANGED models

Next ==
    \E r \in Requests :
        \/ Ask(r)
        \/ \E n \in Names, d \in Descriptions : PutModel(r, n, d)
        \/ \E n \in Names, v \in Versions, c \in Contents : PutVersion(r, n, v, c)

Spec == Init /\ [][Next]_vars
=============================================================================
