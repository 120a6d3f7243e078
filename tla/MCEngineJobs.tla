---------------------------- MODULE MCEngineJobs ----------------------------
(* Values for EngineJobs: runs of one specification. *)
EXTENDS EngineJobs

CONSTANTS j1, j2, s1, c1

VARIABLE part   \* whether two jobs run, or one whose requests are captured

MCSpecOf == [j \in Jobs |-> s1]

\* Two jobs with one request each, or one job with all its calls.
InPart ==
    IF part = "jobs"
    THEN \A c \in Calls : calls[c] = Idle /\ calls'[c] # Idle => c = c1 /\ nextSeq[cur] = 0
    ELSE j2 \notin submitted'

MCInit == Init /\ part \in {"jobs", "calls"}
MCNext == Next /\ InPart /\ part' = part
MCSpec == MCInit /\ [][MCNext]_<<vars, part>> /\ WF_vars(WorkerStep)
=============================================================================
