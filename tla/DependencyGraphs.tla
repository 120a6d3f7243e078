-------------------------- MODULE DependencyGraphs --------------------------
(***************************************************************************)
(* A project's specification and the dependency graph derived from it      *)
(* (backend/src/graph/graph.service.ts, backend/src/specs/                 *)
(* specs.service.ts).                                                      *)
(*                                                                         *)
(* build() hands the current specification to the engine-service and       *)
(* starts a background poller; the poller writes into the project's one    *)
(* DependencyGraph row.  Storing a new specification, uploaded or          *)
(* generated, deletes that row in the same transaction; nothing tells a    *)
(* poller.                                                                 *)
(*                                                                         *)
(* One project: rows of different projects share nothing but the engine-   *)
(* service, which is its status protocol, EngineJobStatus.                 *)
(***************************************************************************)
EXTENDS Naturals

CONSTANTS
    Jobs,         \* engine-service job ids
    Handlers,     \* build requests the backend can be serving at one time
    MaxSpecs,     \* bound: specifications ever stored for the project
    MaxAttempts,  \* MAX_POLL_ATTEMPTS
    MaxFaults     \* bound: database failures and restarts

ASSUME GraphsAssumption ==
    /\ "none" \notin Jobs
    /\ MaxSpecs \in Nat
    /\ MaxAttempts \in Nat \ {0}
    /\ MaxFaults \in Nat

VARIABLES
    spec,       \* which specification the project has, 0 if none
    specs,      \* how many it ever had
    row,        \* the DependencyGraph row; graph is what it was built from
    built,      \* the specification each job was given
    requests,   \* the build requests being served
    pollers,    \* the poller of each job
    faults,     \* how often something went wrong
    overtaken,  \* history: specifications replaced with a build of theirs in flight
    jobStatus,  \* the engine-service
    submitted

service == <<spec, specs, overtaken>>
engine  == <<jobStatus, submitted>>
vars    == <<spec, specs, row, built, requests, pollers, faults, overtaken, jobStatus,
              submitted>>

Engine == INSTANCE EngineJobStatus WITH status <- jobStatus

Free     == [at |-> "free", spec |-> 0, job |-> "none"]
NoRow    == [status |-> "absent", graph |-> 0]
Building == [status |-> "running", graph |-> 0]

Polling(at, n) == [at |-> at, attempt |-> n]
NoPoll == Polling("off", 0)

Init ==
    /\ spec = 0
    /\ specs = 0
    /\ row = NoRow
    /\ built = [j \in Jobs |-> 0]
    /\ requests = [h \in Handlers |-> Free]
    /\ pollers = [j \in Jobs |-> NoPoll]
    /\ faults = 0
    /\ overtaken = {}
    /\ Engine!StatusInit

Fault == faults < MaxFaults /\ faults' = faults + 1

-----------------------------------------------------------------------------
(* The specification.                                                      *)

\* The specifications that a request or a poller has in hand.
InFlight ==
    {requests[h].spec : h \in {g \in Handlers : requests[g] # Free}}
      \cup {built[j] : j \in {k \in Jobs : pollers[k] # NoPoll}}

\* Wrong: the graph of the specification before it is left.
ReplaceSpec_KeepsGraph ==
    /\ specs < MaxSpecs
    /\ specs' = specs + 1
    /\ spec' = specs + 1
    /\ overtaken' = overtaken \cup InFlight
    /\ UNCHANGED <<row, built, requests, pollers, faults, engine>>

\* persistSpec: specification, graph and endpoints in one transaction, whatever
\* builds are in flight.
ReplaceSpec ==
    /\ specs < MaxSpecs
    /\ specs' = specs + 1
    /\ spec' = specs + 1
    /\ overtaken' = overtaken \cup InFlight
    /\ row' = NoRow
    /\ UNCHANGED <<built, requests, pollers, faults, engine>>

\* remove deletes the specification and nothing that was derived from it.
RemoveSpec ==
    /\ spec # 0
    /\ spec' = 0
    /\ UNCHANGED <<specs, overtaken, row, built, requests, pollers, faults, engine>>

-----------------------------------------------------------------------------
(* build: read the specification, look at the row, hand over, reset the row. *)

Respond(h) == requests' = [requests EXCEPT ![h] = Free]

BuildReads(h) ==
    /\ requests[h] = Free
    /\ spec # 0
    /\ requests' = [requests EXCEPT ![h] = [at |-> "read", spec |-> spec, job |-> "none"]]
    /\ UNCHANGED <<service, row, built, pollers, faults, engine>>

BuildChecks(h) ==
    /\ requests[h].at = "read"
    /\ IF row.status = "running" THEN Respond(h)
       ELSE requests' = [requests EXCEPT ![h] =
                [at |-> "checked", spec |-> requests[h].spec, job |-> "none"]]
    /\ UNCHANGED <<service, row, built, pollers, faults, engine>>

\* engine.startGraph; its answer may be lost after the job was taken.
BuildStarts(h) ==
    /\ requests[h].at = "checked"
    /\ \/ \E j \in Jobs :
             /\ Engine!Submit(j)
             /\ built' = [built EXCEPT ![j] = requests[h].spec]
             /\ \/ requests' = [requests EXCEPT ![h] =
                      [at |-> "started", spec |-> requests[h].spec, job |-> j]]
                \/ Respond(h)
       \/ Respond(h) /\ UNCHANGED <<built, engine>>
    /\ UNCHANGED <<service, row, pollers, faults>>

\* Wrong: the graph of the build before it is left to be seen.
BuildCommits_KeepsGraph(h) ==
    /\ requests[h].at = "started"
    /\ row' = [row EXCEPT !.status = "running"]
    /\ pollers' = [pollers EXCEPT ![requests[h].job] = Polling("wait", 0)]
    /\ Respond(h)
    /\ UNCHANGED <<service, built, faults, engine>>

\* One row per project, made or reset; beginPolling only after that.
BuildCommits(h) ==
    /\ requests[h].at = "started"
    /\ \/ /\ row' = Building
          /\ pollers' = [pollers EXCEPT ![requests[h].job] = Polling("wait", 0)]
          /\ UNCHANGED faults
       \/ Fault /\ UNCHANGED <<row, pollers>>
    /\ Respond(h)
    /\ UNCHANGED <<service, built, engine>>

-----------------------------------------------------------------------------
(* poll, one poller per job.                                               *)

Poller(j, at) == pollers' = [pollers EXCEPT ![j] = Polling(at, pollers[j].attempt)]
PollerEnds(j) == pollers' = [pollers EXCEPT ![j] = NoPoll]

TickAgain(j) ==
    LET n == pollers[j].attempt + 1 IN
    pollers' = [pollers EXCEPT ![j] =
        Polling(IF n >= MaxAttempts THEN "failing" ELSE "wait", n)]

\* Wrong: an exception from getGraphStatus ends the polling.
PollsStatus_Uncaught(j) ==
    /\ pollers[j].at = "wait"
    /\ \/ jobStatus[j] = "completed" /\ Poller(j, "result")
       \/ jobStatus[j] = "failed" /\ Poller(j, "failing")
       \/ jobStatus[j] \in {"pending", "running"} /\ TickAgain(j)
       \/ PollerEnds(j)
    /\ UNCHANGED <<service, row, built, requests, faults, engine>>

PollsStatus(j) ==
    /\ pollers[j].at = "wait"
    /\ \/ jobStatus[j] = "completed" /\ Poller(j, "result")
       \/ jobStatus[j] = "failed" /\ Poller(j, "failing")
       \/ TickAgain(j)    \* pending, running, or the call raised
    /\ UNCHANGED <<service, row, built, requests, faults, engine>>

FetchesGraph(j) ==
    /\ pollers[j].at = "result"
    /\ \/ jobStatus[j] = "completed" /\ Poller(j, "persist")
       \/ TickAgain(j)    \* the call raised, or mergeGraph did
    /\ UNCHANGED <<service, row, built, requests, faults, engine>>

\* updateMany by project: whatever row is there by now, if one is.  The error
\* of a failed update is swallowed.
UpdatesRow(j, status, graph) ==
    /\ \/ /\ row' = IF row = NoRow THEN NoRow ELSE [status |-> status, graph |-> graph]
          /\ UNCHANGED faults
       \/ Fault /\ UNCHANGED row
    /\ PollerEnds(j)
    /\ UNCHANGED <<service, built, requests, engine>>

PersistsGraph(j) == pollers[j].at = "persist" /\ UpdatesRow(j, "ready", built[j])

MarksFailed(j) == pollers[j].at = "failing" /\ UpdatesRow(j, "failed", row.graph)

-----------------------------------------------------------------------------
\* The backend is restarted; no poller is attached again.
BackendRestarts ==
    /\ Fault
    /\ requests' = [h \in Handlers |-> Free]
    /\ pollers' = [j \in Jobs |-> NoPoll]
    /\ UNCHANGED <<service, row, built, engine>>

EngineStep ==
    /\ (\E j \in Jobs : Engine!Start(j) \/ Engine!Finish(j) \/ Engine!Retract(j))
       \/ Engine!Restart
    /\ UNCHANGED <<service, row, built, requests, pollers, faults>>

-----------------------------------------------------------------------------
SpecStep == ReplaceSpec \/ RemoveSpec

BuildStep(h) == BuildReads(h) \/ BuildChecks(h) \/ BuildStarts(h) \/ BuildCommits(h)

PollStep(j) == PollsStatus(j) \/ FetchesGraph(j) \/ PersistsGraph(j) \/ MarksFailed(j)

Next ==
    \/ SpecStep
    \/ \E h \in Handlers : BuildStep(h)
    \/ \E j \in Jobs : PollStep(j)
    \/ BackendRestarts
    \/ EngineStep

Spec == Init /\ [][Next]_vars

\* A pending timer fires and an awaited call settles.
FairSpec == Spec /\ \A j \in Jobs : WF_vars(PollStep(j))

-----------------------------------------------------------------------------
TypeOK ==
    /\ spec \in 0..MaxSpecs
    /\ specs \in 0..MaxSpecs
    /\ row \in [status : {"absent", "running", "ready", "failed"}, graph : 0..MaxSpecs]
    /\ built \in [Jobs -> 0..MaxSpecs]
    /\ requests \in [Handlers ->
          [at : {"read", "checked", "started"}, spec : 1..MaxSpecs,
           job : Jobs \cup {"none"}] \cup {Free}]
    /\ pollers \in [Jobs ->
          [at : {"wait", "result", "persist", "failing"}, attempt : 0..MaxAttempts]
          \cup {NoPoll}]
    /\ faults \in 0..MaxFaults
    /\ overtaken \subseteq 1..MaxSpecs
    /\ jobStatus \in [Jobs -> Engine!Status]
    /\ submitted \subseteq Jobs

\* The graph the project shows was built from the specification it has now, or
\* from one that was replaced with a build of it in flight, whichever of several
\* builds, failures and restarts wrote it: no other way leads to a stale graph.
\* (A specification that is removed leaves its graph until the next is stored.)
StaleOnlyIfOvertaken ==
    row.graph # 0 /\ spec # 0 => row.graph = spec \/ row.graph \in overtaken

\* "A stale one can't be shown as if it were the result of the build now
\* running": while the row says running, whoever wrote it, it has no graph.
RunningShowsNoGraph == row.status = "running" => row.graph = 0

\* A build that was started is reported over, unless the database failed or
\* the backend was restarted meanwhile.
BuildEnds == row.status = "running" ~> row.status # "running" \/ faults > 0
=============================================================================
