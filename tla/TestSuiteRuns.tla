--------------------------- MODULE TestSuiteRuns ---------------------------
(***************************************************************************)
(* Test runs in the backend                                                *)
(* (backend/src/test-suites/test-suites.service.ts).                       *)
(*                                                                         *)
(* A TestSuite row is the record of a run.  run() hands the run to the     *)
(* engine-service and starts a background poller; the poller stores the    *)
(* result and then, in a transaction of their own each, the captured       *)
(* requests.  replay() makes a new row and resends the origin's captured   *)
(* requests from a background task.  Everything interleaves at the awaits, *)
(* and nothing in memory survives a restart of the backend.                *)
(*                                                                         *)
(* The engine-service is its status protocol, EngineJobStatus, which       *)
(* EngineJobs implements.                                                  *)
(***************************************************************************)
EXTENDS Naturals

CONSTANTS
    Suites,       \* row ids, each used once
    Jobs,         \* engine-service job ids
    Handlers,     \* requests the backend can be serving at one time
    Captured,     \* how many chunks of requests each job captured
    MaxAttempts,  \* MAX_POLL_ATTEMPTS
    Faults        \* what may happen, a subset of AllFaults

AllFaults == {"overlap",   \* run is requested again while a run request is served
              "dbFail",    \* a database call raises
              "restart",   \* the backend is restarted
              "remove"}    \* users delete test suites

ASSUME SuitesAssumption ==
    /\ "none" \notin Jobs /\ "replay" \notin Jobs /\ "none" \notin Suites
    /\ Captured \in [Jobs -> Nat]
    /\ MaxAttempts \in Nat \ {0}
    /\ Faults \subseteq AllFaults

VARIABLES
    status,     \* TestSuite.status, "unused" before the row, "removed" after it
    jobId,      \* TestSuite.jobId
    origin,     \* TestSuite.originSuiteId
    results,    \* whose counters and test cases the row holds
    logs,       \* its RequestLog rows, each <<capturing job, chunk>>
    handlers,   \* the requests being served
    pollers,    \* the poller of each job
    replays,    \* the executeReplay of each row
    jobStatus,  \* the engine-service
    submitted

row    == <<status, jobId, origin, results, logs>>
tasks  == <<handlers, pollers, replays>>
engine == <<jobStatus, submitted>>
vars   == <<status, jobId, origin, results, logs, handlers, pollers, replays,
            jobStatus, submitted>>

Engine == INSTANCE EngineJobStatus WITH status <- jobStatus

Free    == [at |-> "free", suite |-> "none", job |-> "none"]

Polling(at, s, n, k) == [at |-> at, suite |-> s, attempt |-> n, chunk |-> k]
NoPoll  == Polling("off", "none", 0, 0)
NoTask  == [at |-> "off", from |-> "none", sent |-> {}]

Exists(s) == status[s] \notin {"unused", "removed"}

Init ==
    /\ status = [s \in Suites |-> "unused"]
    /\ jobId = [s \in Suites |-> "none"]
    /\ origin = [s \in Suites |-> "none"]
    /\ results = [s \in Suites |-> "none"]
    /\ logs = [s \in Suites |-> {}]
    /\ handlers = [h \in Handlers |-> Free]
    /\ pollers = [j \in Jobs |-> NoPoll]
    /\ replays = [s \in Suites |-> NoTask]
    /\ Engine!StatusInit

-----------------------------------------------------------------------------
(* create and remove.                                                      *)

Create(s) ==
    /\ status[s] = "unused"
    /\ status' = [status EXCEPT ![s] = "pending"]
    /\ UNCHANGED <<jobId, origin, results, logs, tasks, engine>>

\* The row goes with its test cases and request logs, and onDelete: Cascade
\* takes the replays that name it as their origin.  Tasks are told nothing.
Remove(s) ==
    LET Gone == {s} \cup {r \in Suites : origin[r] = s} IN
    /\ "remove" \in Faults
    /\ Exists(s)
    /\ status'  = [t \in Suites |-> IF t \in Gone THEN "removed" ELSE status[t]]
    /\ jobId'   = [t \in Suites |-> IF t \in Gone THEN "none" ELSE jobId[t]]
    /\ origin'  = [t \in Suites |-> IF t \in Gone THEN "none" ELSE origin[t]]
    /\ results' = [t \in Suites |-> IF t \in Gone THEN "none" ELSE results[t]]
    /\ logs'    = [t \in Suites |-> IF t \in Gone THEN {} ELSE logs[t]]
    /\ UNCHANGED <<tasks, engine>>

-----------------------------------------------------------------------------
(* run: check the row, hand the run over, reset the row, start polling.    *)

Respond(h) == handlers' = [handlers EXCEPT ![h] = Free]

BeingRun(s) ==
    \E g \in Handlers : handlers[g].at \in {"checked", "started"} /\ handlers[g].suite = s

\* Wrong: does not refuse a run that is running.
RunChecks_NoConflict(h, s) ==
    /\ handlers[h] = Free
    /\ Exists(s) /\ ~BeingRun(s)
    /\ handlers' = [handlers EXCEPT ![h] = [at |-> "checked", suite |-> s, job |-> "none"]]
    /\ UNCHANGED <<row, pollers, replays, engine>>

RunChecks(h, s) ==
    /\ handlers[h] = Free
    /\ Exists(s) /\ status[s] # "running"
    /\ "overlap" \in Faults \/ ~BeingRun(s)
    /\ handlers' = [handlers EXCEPT ![h] = [at |-> "checked", suite |-> s, job |-> "none"]]
    /\ UNCHANGED <<row, pollers, replays, engine>>

\* engine.startRun: 503 when the engine-service is unreachable or refuses, or
\* when its answer is lost after it took the job.
RunStarts(h) ==
    /\ handlers[h].at = "checked"
    /\ \/ \E j \in Jobs :
             /\ Engine!Submit(j)
             /\ \/ handlers' = [handlers EXCEPT ![h] = [at |-> "started", suite |-> @.suite, job |-> j]]
                \/ Respond(h)
       \/ Respond(h) /\ UNCHANGED engine
    /\ UNCHANGED <<row, pollers, replays>>

\* testSuite.update by id, whatever the status is by now; when it raises the
\* job runs on with nobody polling it.
RunCommits(h) ==
    LET s == handlers[h].suite
        j == handlers[h].job
    IN
    /\ handlers[h].at = "started"
    /\ \/ /\ Exists(s)
          /\ status' = [status EXCEPT ![s] = "running"]
          /\ jobId' = [jobId EXCEPT ![s] = j]
          /\ results' = [results EXCEPT ![s] = "none"]
          /\ logs' = [logs EXCEPT ![s] = {}]
          /\ pollers' = [pollers EXCEPT ![j] = Polling("wait", s, 0, 0)]
       \/ /\ ~Exists(s) \/ "dbFail" \in Faults
          /\ UNCHANGED <<status, jobId, results, logs, pollers>>
    /\ Respond(h)
    /\ UNCHANGED <<origin, replays, engine>>

-----------------------------------------------------------------------------
(* poll: one poller per job, one tick every POLL_INTERVAL_MS.              *)

Poller(j, at) == pollers' = [pollers EXCEPT ![j] = [@ EXCEPT !.at = at]]

\* The end of poll: tick again, unless that was the last attempt.
TickAgain(j) ==
    LET n == pollers[j].attempt + 1 IN
    pollers' = [pollers EXCEPT ![j] =
        Polling(IF n >= MaxAttempts THEN "failing" ELSE "wait", @.suite, n, 0)]

\* Wrong: an exception from getStatus ends the polling.
PollsStatus_Uncaught(j) ==
    /\ pollers[j].at = "wait"
    /\ \/ jobStatus[j] = "completed" /\ Poller(j, "result")
       \/ jobStatus[j] = "failed" /\ Poller(j, "failing")
       \/ jobStatus[j] \in {"pending", "running"} /\ TickAgain(j)
       \/ pollers' = [pollers EXCEPT ![j] = NoPoll]
    /\ UNCHANGED <<row, handlers, replays, engine>>

\* engine.getStatus raises when the engine-service does not answer, or does
\* not know the job any more (404).
PollsStatus(j) ==
    /\ pollers[j].at = "wait"
    /\ \/ jobStatus[j] = "completed" /\ Poller(j, "result")
       \/ jobStatus[j] = "failed" /\ Poller(j, "failing")
       \/ TickAgain(j)    \* pending, running, or the call raised
    /\ UNCHANGED <<row, handlers, replays, engine>>

FetchesResult(j) ==
    /\ pollers[j].at = "result"
    /\ \/ jobStatus[j] = "completed" /\ Poller(j, "persist")
       \/ TickAgain(j)
    /\ UNCHANGED <<row, handlers, replays, engine>>

\* persistResults: test cases and counters in one transaction.
PersistsResults(j) ==
    LET s == pollers[j].suite IN
    /\ pollers[j].at = "persist"
    /\ \/ /\ Exists(s)
          /\ status' = [status EXCEPT ![s] = "completed"]
          /\ results' = [results EXCEPT ![s] = j]
          /\ Poller(j, "requests")
       \/ /\ ~Exists(s) \/ "dbFail" \in Faults
          /\ TickAgain(j)
          /\ UNCHANGED <<status, results>>
    /\ UNCHANGED <<jobId, origin, logs, handlers, replays, engine>>

\* Wrong: a failure to fetch the requests is left to poll's own catch.
FetchesRequests_Uncaught(j) ==
    /\ pollers[j].at = "requests"
    /\ \/ jobStatus[j] = "completed" /\ Poller(j, "clear")
       \/ TickAgain(j)
    /\ UNCHANGED <<row, handlers, replays, engine>>

\* persistRequestLogs: a failure to fetch is logged and ends it there ...
FetchesRequests(j) ==
    /\ pollers[j].at = "requests"
    /\ \/ jobStatus[j] = "completed" /\ Poller(j, "clear")
       \/ pollers' = [pollers EXCEPT ![j] = NoPoll]
    /\ UNCHANGED <<row, handlers, replays, engine>>

\* ... but a failure to store is not caught before poll's own catch.
ClearsLogs(j) ==
    LET s == pollers[j].suite IN
    /\ pollers[j].at = "clear"
    /\ \/ /\ logs' = [logs EXCEPT ![s] = {}]
          /\ pollers' = [pollers EXCEPT ![j] =
                IF Captured[j] = 0 THEN NoPoll ELSE Polling("insert", s, @.attempt, 1)]
       \/ /\ "dbFail" \in Faults
          /\ TickAgain(j)
          /\ UNCHANGED logs
    /\ UNCHANGED <<status, jobId, origin, results, handlers, replays, engine>>

InsertsLogs(j) ==
    LET s == pollers[j].suite
        k == pollers[j].chunk
    IN
    /\ pollers[j].at = "insert"
    /\ \/ /\ Exists(s)
          /\ logs' = [logs EXCEPT ![s] = @ \cup {<<j, k>>}]
          /\ pollers' = [pollers EXCEPT ![j] =
                IF k = Captured[j] THEN NoPoll ELSE Polling("insert", s, @.attempt, k + 1)]
       \/ /\ ~Exists(s) \/ "dbFail" \in Faults
          /\ TickAgain(j)
          /\ UNCHANGED logs
    /\ UNCHANGED <<status, jobId, origin, results, handlers, replays, engine>>

\* markFailed swallows its own database error.
MarkFailed(s) ==
    \/ Exists(s) /\ status' = [status EXCEPT ![s] = "failed"]
    \/ /\ ~Exists(s) \/ "dbFail" \in Faults
       /\ UNCHANGED status

PollerFails(j) ==
    /\ pollers[j].at = "failing"
    /\ MarkFailed(pollers[j].suite)
    /\ pollers' = [pollers EXCEPT ![j] = NoPoll]
    /\ UNCHANGED <<jobId, origin, results, logs, handlers, replays, engine>>

-----------------------------------------------------------------------------
(* replay: resolve the origin, see that it captured something, make the row. *)

\* Wrong: a replay of a replay names the replay.
ReplayChecks_NamesSource(h, s) ==
    /\ handlers[h] = Free
    /\ Exists(s) /\ status[s] # "running"
    /\ handlers' = [handlers EXCEPT ![h] = [at |-> "counting", suite |-> s, job |-> "none"]]
    /\ UNCHANGED <<row, pollers, replays, engine>>

ReplayChecks(h, s) ==
    /\ handlers[h] = Free
    /\ Exists(s) /\ status[s] # "running"
    /\ handlers' = [handlers EXCEPT ![h] =
          [at |-> "counting", job |-> "none",
           suite |-> IF origin[s] # "none" THEN origin[s] ELSE s]]
    /\ UNCHANGED <<row, pollers, replays, engine>>

ReplayCounts(h) ==
    /\ handlers[h].at = "counting"
    /\ IF logs[handlers[h].suite] # {}
       THEN handlers' = [handlers EXCEPT ![h] = [@ EXCEPT !.at = "creating"]]
       ELSE Respond(h)
    /\ UNCHANGED <<row, pollers, replays, engine>>

\* originSuiteId is a foreign key: the insert raises when the origin is gone.
ReplayCreates(h) ==
    LET o == handlers[h].suite IN
    /\ handlers[h].at = "creating"
    /\ \/ /\ Exists(o)
          /\ \E r \in Suites :
                /\ status[r] = "unused"
                /\ status' = [status EXCEPT ![r] = "running"]
                /\ origin' = [origin EXCEPT ![r] = o]
                /\ replays' = [replays EXCEPT ![r] = [at |-> "reading", from |-> o, sent |-> {}]]
       \/ /\ ~Exists(o) \/ "dbFail" \in Faults
          /\ UNCHANGED <<status, origin, replays>>
    /\ Respond(h)
    /\ UNCHANGED <<jobId, results, logs, pollers, engine>>

-----------------------------------------------------------------------------
(* executeReplay, in the background.  Whatever it throws marks the row      *)
(* failed; the requests it sends go to the target, not to the database.     *)

Task(r, at) == replays' = [replays EXCEPT ![r] = [@ EXCEPT !.at = at]]

ReplayReads(r) ==
    /\ replays[r].at = "reading"
    /\ \/ replays' = [replays EXCEPT ![r] =
              [at |-> "storing", from |-> @.from, sent |-> logs[@.from]]]
       \/ "dbFail" \in Faults /\ Task(r, "failing")
    /\ UNCHANGED <<row, handlers, pollers, engine>>

\* All chunks are stored, or some before one fails.
ReplayStores(r) ==
    /\ replays[r].at = "storing"
    /\ \/ /\ Exists(r) \/ replays[r].sent = {}
          /\ logs' = [logs EXCEPT ![r] = @ \cup replays[r].sent]
          /\ Task(r, "finishing")
       \/ /\ ~Exists(r)
          /\ Task(r, "failing")
          /\ UNCHANGED logs
       \/ /\ "dbFail" \in Faults
          /\ \E some \in SUBSET replays[r].sent :
                logs' = [logs EXCEPT ![r] = IF Exists(r) THEN @ \cup some ELSE @]
          /\ Task(r, "failing")
    /\ UNCHANGED <<status, jobId, origin, results, handlers, pollers, engine>>

\* The test cases, then the counters and the status.
ReplayFinishes(r) ==
    /\ replays[r].at = "finishing"
    /\ \/ /\ Exists(r)
          /\ results' = [results EXCEPT ![r] = "replay"]
          /\ status' = [status EXCEPT ![r] = "completed"]
          /\ replays' = [replays EXCEPT ![r] = NoTask]
       \/ /\ ~Exists(r) \/ "dbFail" \in Faults
          /\ Task(r, "failing")
          /\ UNCHANGED <<status, results>>
    /\ UNCHANGED <<jobId, origin, logs, handlers, pollers, engine>>

ReplayFails(r) ==
    /\ replays[r].at = "failing"
    /\ MarkFailed(r)
    /\ replays' = [replays EXCEPT ![r] = NoTask]
    /\ UNCHANGED <<jobId, origin, results, logs, handlers, pollers, engine>>

-----------------------------------------------------------------------------
\* The backend is restarted.  Nothing on start-up looks for rows left running.
BackendRestarts ==
    /\ "restart" \in Faults
    /\ handlers' = [h \in Handlers |-> Free]
    /\ pollers' = [j \in Jobs |-> NoPoll]
    /\ replays' = [s \in Suites |-> NoTask]
    /\ UNCHANGED <<row, engine>>

EngineStep ==
    /\ \/ \E j \in Jobs : Engine!Start(j) \/ Engine!Finish(j) \/ Engine!Retract(j)
       \/ Engine!Restart
    /\ UNCHANGED <<row, tasks>>

-----------------------------------------------------------------------------
HandlerStep(h) ==
    \/ RunStarts(h) \/ RunCommits(h) \/ ReplayCounts(h) \/ ReplayCreates(h)

PollStep(j) ==
    \/ PollsStatus(j) \/ FetchesResult(j) \/ PersistsResults(j)
    \/ FetchesRequests(j) \/ ClearsLogs(j) \/ InsertsLogs(j) \/ PollerFails(j)

ReplayStep(r) == ReplayReads(r) \/ ReplayStores(r) \/ ReplayFinishes(r) \/ ReplayFails(r)

UserStep ==
    \/ \E s \in Suites : Create(s) \/ Remove(s)
    \/ \E h \in Handlers, s \in Suites : RunChecks(h, s) \/ ReplayChecks(h, s)

Next ==
    \/ UserStep
    \/ \E h \in Handlers : HandlerStep(h)
    \/ \E j \in Jobs : PollStep(j)
    \/ \E r \in Suites : ReplayStep(r)
    \/ BackendRestarts
    \/ EngineStep

Spec == Init /\ [][Next]_vars

\* A pending timer fires and an awaited call settles.  Users and the
\* engine-service owe nothing.
FairSpec ==
    /\ Spec
    /\ \A j \in Jobs : WF_vars(PollStep(j))
    /\ \A r \in Suites : WF_vars(ReplayStep(r))

-----------------------------------------------------------------------------
TypeOK ==
    /\ status \in [Suites -> {"unused", "removed", "pending", "running",
                              "completed", "failed"}]
    /\ jobId \in [Suites -> Jobs \cup {"none"}]
    /\ origin \in [Suites -> Suites \cup {"none"}]
    /\ results \in [Suites -> Jobs \cup {"none", "replay"}]
    /\ logs \in [Suites -> SUBSET (Jobs \X Nat)]
    /\ handlers \in [Handlers ->
          [at : {"checked", "started", "counting", "creating"},
           suite : Suites, job : Jobs \cup {"none"}] \cup {Free}]
    /\ pollers \in [Jobs ->
          [at : {"wait", "result", "persist", "requests", "clear", "insert", "failing"},
           suite : Suites, attempt : 0..MaxAttempts, chunk : Nat] \cup {NoPoll}]
    /\ replays \in [Suites ->
          [at : {"reading", "storing", "finishing", "failing"},
           from : Suites, sent : SUBSET (Jobs \X Nat)] \cup {NoTask}]
    /\ jobStatus \in [Jobs -> Engine!Status]
    /\ submitted \subseteq Jobs

\* "Always the true origin, never an intermediate replay": whatever is
\* replayed, run again or removed meanwhile, a replay names an existing row
\* that is not a replay itself.
OriginIsGenerated ==
    \A s \in Suites : origin[s] # "none" => Exists(origin[s]) /\ origin[origin[s]] = "none"

\* "The displayed results always belong to the most recent execution": a
\* completed run shows what the job it names produced, however pollers of
\* earlier jobs, removals and restarts interleave.
ResultsAreOfLatestRun ==
    \A s \in Suites : status[s] = "completed" =>
        results[s] = IF jobId[s] = "none" THEN "replay" ELSE jobId[s]

\* "... never a mixture of two": the captured requests of a run that is over
\* were all captured by the job it names.
LogsAreOfLatestRun ==
    \A s \in Suites : status[s] = "completed" /\ jobId[s] # "none" =>
        \A l \in logs[s] : l[1] = jobId[s]

\* Storing the captured requests is "best-effort; not fatal to the run": once
\* a run is reported completed it stays so until it is run again or removed.
CompletedStays ==
    [][\A s \in Suites : status[s] = "completed" =>
          status'[s] \in {"completed", "running", "removed"}]_vars

\* "Rather than being left showing running forever": however the engine
\* fails, a run that started is reported over.
RunsEnd == \A s \in Suites : status[s] = "running" ~> status[s] # "running"
=============================================================================
