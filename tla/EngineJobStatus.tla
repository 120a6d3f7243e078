--------------------------- MODULE EngineJobStatus ---------------------------
(***************************************************************************)
(* What the engine-service promises the backend about test-run jobs: the   *)
(* status GET /runs/:jobId reports, as EngineService.getStatus sees it.    *)
(* A job the service does not know (never submitted, deleted, or lost in a *)
(* restart) is "unknown", which the HTTP API reports as 404.               *)
(*                                                                         *)
(* EngineJobs implements this module; TestSuiteRuns uses it as its engine. *)
(***************************************************************************)
CONSTANT Jobs

VARIABLES
    status,     \* job -> what GET /runs/:jobId answers
    submitted   \* jobs ever accepted: ids are fresh UUIDs, never reused

statusVars == <<status, submitted>>

Status == {"unknown", "pending", "running", "completed", "failed"}

StatusInit ==
    /\ status = [j \in Jobs |-> "unknown"]
    /\ submitted = {}

\* POST /runs answered 202 with a new job id.
Submit(j) ==
    /\ j \notin submitted
    /\ submitted' = submitted \cup {j}
    /\ status' = [status EXCEPT ![j] = "pending"]

\* One run at a time.
Start(j) ==
    /\ status[j] = "pending"
    /\ \A k \in Jobs : status[k] # "running"
    /\ status' = [status EXCEPT ![j] = "running"]
    /\ UNCHANGED submitted

Finish(j) ==
    /\ status[j] = "running"
    /\ \E s \in {"completed", "failed"} : status' = [status EXCEPT ![j] = s]
    /\ UNCHANGED submitted

\* A job is published as completed before that is persisted; when the write
\* fails it is failed after all.
Retract(j) ==
    /\ status[j] = "completed"
    /\ status' = [status EXCEPT ![j] = "failed"]
    /\ UNCHANGED submitted

Delete(j) ==
    /\ status[j] # "unknown"
    /\ status' = [status EXCEPT ![j] = "unknown"]
    /\ UNCHANGED submitted

\* The registry is in memory.
Restart ==
    /\ status' = [j \in Jobs |-> "unknown"]
    /\ UNCHANGED submitted

StatusNext ==
    \/ \E j \in Jobs : Submit(j) \/ Start(j) \/ Finish(j) \/ Retract(j) \/ Delete(j)
    \/ Restart

StatusSpec == StatusInit /\ [][StatusNext]_statusVars
==============================================================================
