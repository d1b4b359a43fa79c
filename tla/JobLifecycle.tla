---------------------------- MODULE JobLifecycle ----------------------------
(***************************************************************************)
(* What a client that polls GET /v1/async-inference/jobs/{job_id} may see: *)
(* a job is queued, runs, may be put back to the queue while it has no     *)
(* outcome, and gets one outcome, which stays.                             *)
(***************************************************************************)
CONSTANT Jobs
VARIABLE status

Init == status = [id \in Jobs |-> "none"]

\* POST accepts a new job.
Submit(id) ==
    /\ status[id] = "none"
    /\ status' = [status EXCEPT ![id] = "queued"]

\* A worker claims it.
Begin(id) ==
    /\ status[id] = "queued"
    /\ status' = [status EXCEPT ![id] = "running"]

\* A worker stores its outcome.
Settle(id) ==
    /\ status[id] = "running"
    /\ \E outcome \in {"succeeded", "failed"} :
         status' = [status EXCEPT ![id] = outcome]

\* A sweep gives up on the claims of some jobs.
Requeue(stranded) ==
    /\ \A id \in stranded : status[id] \in {"queued", "running"}
    /\ status' = [id \in Jobs |->
                    IF id \in stranded THEN "queued" ELSE status[id]]

Next ==
    \/ \E id \in Jobs : Submit(id) \/ Begin(id) \/ Settle(id)
    \/ \E stranded \in SUBSET Jobs : Requeue(stranded)

Spec == Init /\ [][Next]_status
=============================================================================
