-------------------------- MODULE SpecGenerations ---------------------------
(***************************************************************************)
(* Generating a specification from source code                             *)
(* (backend/src/specs/spec-generation.service.ts).                         *)
(*                                                                         *)
(* A project has one SpecGeneration row.  start() hands the archive to the *)
(* engine-service and begins a poll loop; `polling` holds the ids of rows  *)
(* that a loop is meant to be following, and a loop whose row is not in it *)
(* stops at its next turn.  A restart of the backend loses the loops and   *)
(* the set; reading the row begins a loop again when none is there.        *)
(*                                                                         *)
(* The engine-service is its status protocol, EngineJobStatus.  What apply *)
(* does to the project's specification is ReplaceSpec of DependencyGraphs. *)
(***************************************************************************)
EXTENDS Naturals, FiniteSets

CONSTANTS
    Jobs,         \* engine-service job ids
    Handlers,     \* requests the backend can be serving at one time
    MaxAttempts,  \* MAX_POLL_ATTEMPTS
    MaxLoops,     \* bound: loops running when one is attached again
    MaxFaults     \* bound: restarts, and writes that fail in the database or engine-service

ASSUME GenerationsAssumption ==
    /\ "none" \notin Jobs
    /\ MaxAttempts \in Nat \ {0}
    /\ MaxLoops \in Nat \ {0}
    /\ MaxFaults \in Nat

VARIABLES
    row,        \* the SpecGeneration row; doc is whose result it holds
    lastId,     \* row ids handed out so far: ids are never used again
    polling,    \* row ids in the set of that name
    loops,      \* the poll loops; two in the same place count as one
    requests,   \* the requests being served
    faults,     \* how often something went wrong
    jobStatus,  \* the engine-service
    submitted

engine == <<jobStatus, submitted>>
vars   == <<row, lastId, polling, loops, requests, faults, jobStatus, submitted>>

Engine == INSTANCE EngineJobStatus WITH status <- jobStatus

NoRow == [id |-> 0, status |-> "absent", job |-> "none", doc |-> "none"]
Free  == [at |-> "free", id |-> 0, job |-> "none"]

Stages == {"wait", "result", "persist", "persistFailed", "forgetting", "marking", "givingUp"}

Loop(id, j, at, n) == [id |-> id, job |-> j, at |-> at, attempt |-> n]

Init ==
    /\ row = NoRow
    /\ lastId = 0
    /\ polling = {}
    /\ loops = {}
    /\ requests = [h \in Handlers |-> Free]
    /\ faults = 0
    /\ Engine!StatusInit

Fault   == faults < MaxFaults /\ faults' = faults + 1
NoFault == UNCHANGED faults

-----------------------------------------------------------------------------
(* The requests.                                                           *)

Request(h, at, id, j) == requests' = [requests EXCEPT ![h] = [at |-> at, id |-> id, job |-> j]]
Respond(h) == requests' = [requests EXCEPT ![h] = Free]

BeginPolling(id, j) ==
    /\ polling' = polling \cup {id}
    /\ loops' = loops \cup {Loop(id, j, "wait", 0)}

StartChecks(h) ==
    /\ requests[h] = Free
    /\ row.status # "running"
    /\ Request(h, "starting", 0, "none")
    /\ UNCHANGED <<row, lastId, polling, loops, faults, engine>>

\* engine.startGeneration: refused, unreachable, or its answer lost.
StartHandsOver(h) ==
    /\ requests[h].at = "starting"
    /\ \/ \E j \in Jobs :
             /\ Engine!Submit(j)
             /\ Request(h, "storing", 0, j) \/ Respond(h)
       \/ Respond(h) /\ UNCHANGED engine
    /\ UNCHANGED <<row, lastId, polling, loops, faults>>

\* upsert keeps the id of a row that is there, and clears the attempt before.
StartStores(h) ==
    LET j  == requests[h].job
        id == IF row.id = 0 THEN lastId + 1 ELSE row.id
    IN
    /\ requests[h].at = "storing"
    /\ \/ /\ row' = [id |-> id, status |-> "running", job |-> j, doc |-> "none"]
          /\ lastId' = IF row.id = 0 THEN lastId + 1 ELSE lastId
          /\ BeginPolling(id, j)
          /\ NoFault
       \/ Fault /\ UNCHANGED <<row, lastId, polling, loops>>
    /\ Respond(h)
    /\ UNCHANGED engine

\* findForProject of a running row; of any other it changes nothing.
Reads(h) ==
    /\ requests[h] = Free
    /\ row.status = "running"
    /\ Request(h, "attaching", row.id, row.job)
    /\ UNCHANGED <<row, lastId, polling, loops, faults, engine>>

\* Wrong: a restart is not thought of.
EnsurePolling_Never(h) ==
    /\ requests[h].at = "attaching"
    /\ Respond(h)
    /\ UNCHANGED <<row, lastId, polling, loops, faults, engine>>

\* ensurePolling, with the row as it was read.
EnsurePolling(h) ==
    /\ requests[h].at = "attaching"
    /\ IF requests[h].id \in polling
       THEN UNCHANGED <<polling, loops>>
       ELSE /\ Cardinality(loops) < MaxLoops
            /\ BeginPolling(requests[h].id, requests[h].job)
    /\ Respond(h)
    /\ UNCHANGED <<row, lastId, faults, engine>>

ApplyReads(h) ==
    /\ requests[h] = Free
    /\ row.status = "completed"
    /\ Request(h, "applying", row.id, "none")
    /\ UNCHANGED <<row, lastId, polling, loops, faults, engine>>

\* persistSpec, which may find the document invalid.
ApplyStoresSpec(h) ==
    /\ requests[h].at = "applying"
    /\ \/ Request(h, "dropping", requests[h].id, "none")
       \/ Respond(h)
    /\ UNCHANGED <<row, lastId, polling, loops, faults, engine>>

DiscardReads(h) ==
    /\ requests[h] = Free
    /\ row # NoRow
    /\ Request(h, "discarding", row.id, row.job)
    /\ UNCHANGED <<row, lastId, polling, loops, faults, engine>>

\* delete by project, whichever row that is by now; then polling.delete of
\* the id that was read.
DropsRow(h, next) ==
    \/ /\ row # NoRow
       /\ row' = NoRow
       /\ polling' = polling \ {requests[h].id}
       /\ next
       /\ NoFault
    \/ /\ row = NoRow
       /\ Respond(h)
       /\ UNCHANGED <<row, polling, faults>>
    \/ /\ Fault
       /\ Respond(h)
       /\ UNCHANGED <<row, polling>>

ApplyDropsRow(h) ==
    /\ requests[h].at = "dropping"
    /\ DropsRow(h, Respond(h))
    /\ UNCHANGED <<lastId, loops, engine>>

DiscardDropsRow(h) ==
    /\ requests[h].at = "discarding"
    /\ DropsRow(h, Request(h, "cleaning", requests[h].id, requests[h].job))
    /\ UNCHANGED <<lastId, loops, engine>>

\* engine.deleteGeneration, best-effort.
DiscardCleansUp(h) ==
    /\ requests[h].at = "cleaning"
    /\ Engine!Delete(requests[h].job) \/ UNCHANGED engine
    /\ Respond(h)
    /\ UNCHANGED <<row, lastId, polling, loops, faults>>

-----------------------------------------------------------------------------
(* The poll loops.                                                         *)

Moves(l, at) == loops' = (loops \ {l}) \cup {Loop(l.id, l.job, at, l.attempt)}
Ends(l) == loops' = loops \ {l}

\* markFailed forgets the row id first, then updates the row.
MarksFailedNext(l, at) ==
    /\ polling' = polling \ {l.id}
    /\ Moves(l, at)

TickAgain(l) ==
    LET n == l.attempt + 1 IN
    IF n >= MaxAttempts
    THEN MarksFailedNext(l, "givingUp")
    ELSE /\ loops' = (loops \ {l}) \cup {Loop(l.id, l.job, "wait", n)}
         /\ UNCHANGED polling

Polls(l) ==
    /\ l.at = "wait"
    /\ \/ l.id \notin polling /\ Ends(l) /\ UNCHANGED polling
       \/ /\ l.id \in polling
          /\ \/ jobStatus[l.job] = "completed" /\ Moves(l, "result") /\ UNCHANGED polling
             \/ jobStatus[l.job] = "failed" /\ MarksFailedNext(l, "marking")
             \/ TickAgain(l)    \* pending, running, or a call raised
    /\ UNCHANGED <<row, lastId, requests, faults, engine>>

FetchesResult(l) ==
    /\ l.at = "result"
    /\ \/ jobStatus[l.job] = "completed" /\ Moves(l, "persist") /\ UNCHANGED polling
       \/ TickAgain(l)
    /\ UNCHANGED <<row, lastId, requests, faults, engine>>

\* Wrong: a row that was discarded meanwhile is made again.
PersistsResult_Recreates(l) ==
    /\ l.at = "persist"
    /\ row' = [id |-> l.id, status |-> "completed", job |-> l.job, doc |-> l.job]
    /\ polling' = polling \ {l.id}
    /\ Ends(l)
    /\ UNCHANGED <<lastId, requests, faults, engine>>

\* Wrong: the row id is not forgotten.
PersistsResult_KeepsPolling(l) ==
    /\ l.at = "persist"
    /\ row.id = l.id
    /\ row' = [row EXCEPT !.status = "completed", !.doc = l.job]
    /\ Ends(l)
    /\ UNCHANGED <<lastId, polling, requests, faults, engine>>

\* persistResult: update by row id, which raises when the row is gone, as
\* toOpenApi3 does when the document is of no use; then markFailed.
PersistsResult(l) ==
    /\ l.at = "persist"
    /\ \/ /\ row.id = l.id
          /\ row' = [row EXCEPT !.status = "completed", !.doc = l.job]
          /\ Moves(l, "forgetting")
          /\ UNCHANGED polling
          /\ NoFault
       \/ /\ MarksFailedNext(l, "persistFailed")
          /\ NoFault \/ Fault
          /\ UNCHANGED row
    /\ UNCHANGED <<lastId, requests, engine>>

RowMarkedFailed(l) ==
    row' = IF row.id = l.id THEN [row EXCEPT !.status = "failed"] ELSE row

\* markFailed from persistResult or for a failed job: a database error ends
\* in poll's catch.
MarksFailed(l) ==
    /\ l.at \in {"persistFailed", "marking"}
    /\ \/ /\ RowMarkedFailed(l)
          /\ IF l.at = "persistFailed" THEN Moves(l, "forgetting") ELSE Ends(l)
          /\ UNCHANGED polling
          /\ NoFault
       \/ Fault /\ TickAgain(l) /\ UNCHANGED row
    /\ UNCHANGED <<lastId, requests, engine>>

\* polling.delete after persistResult: by then the id may be in the set for
\* the next generation, whose loop stops at its next turn.
Forgets(l) ==
    /\ l.at = "forgetting"
    /\ polling' = polling \ {l.id}
    /\ Ends(l)
    /\ UNCHANGED <<row, lastId, requests, faults, engine>>

BackendStops ==
    /\ requests' = [h \in Handlers |-> Free]
    /\ polling' = {}
    /\ loops' = {}

\* markFailed after the last attempt is outside the try: nobody handles the
\* rejection, which ends the process.
GivesUp(l) ==
    /\ l.at = "givingUp"
    /\ \/ /\ RowMarkedFailed(l)
          /\ Ends(l)
          /\ UNCHANGED <<polling, requests, faults>>
       \/ Fault /\ BackendStops /\ UNCHANGED row
    /\ UNCHANGED <<lastId, engine>>

-----------------------------------------------------------------------------
BackendRestarts ==
    /\ Fault
    /\ BackendStops
    /\ UNCHANGED <<row, lastId, engine>>

\* A poll of a job lost in a restart raises, which a poll may do anyway.
EngineStep ==
    /\ \/ NoFault /\ \E j \in Jobs : Engine!Start(j) \/ Engine!Finish(j)
       \/ Fault /\ ((\E j \in Jobs : Engine!Retract(j)) \/ Engine!Restart)
    /\ UNCHANGED <<row, lastId, polling, loops, requests>>

-----------------------------------------------------------------------------
UserStep(h) == StartChecks(h) \/ Reads(h) \/ ApplyReads(h) \/ DiscardReads(h)

HandlerStep(h) ==
    \/ StartHandsOver(h) \/ StartStores(h) \/ EnsurePolling(h)
    \/ ApplyStoresSpec(h) \/ ApplyDropsRow(h)
    \/ DiscardDropsRow(h) \/ DiscardCleansUp(h)

LoopStep(l) ==
    \/ Polls(l) \/ FetchesResult(l) \/ PersistsResult(l) \/ Forgets(l)
    \/ MarksFailed(l) \/ GivesUp(l)

Next ==
    \/ \E h \in Handlers : UserStep(h) \/ HandlerStep(h)
    \/ \E l \in loops : LoopStep(l)
    \/ BackendRestarts
    \/ EngineStep

Spec == Init /\ [][Next]_vars

\* Timers fire, awaited calls settle, and the project page reads a running
\* row again and again (frontend/lib/queries.ts).
FairSpec ==
    /\ Spec
    /\ \A j \in Jobs, at \in Stages :
          WF_vars(\E l \in loops : l.job = j /\ l.at = at /\ LoopStep(l))
    /\ \A h \in Handlers : WF_vars(HandlerStep(h))
    /\ SF_vars(\E h \in Handlers : Reads(h))

-----------------------------------------------------------------------------
TypeOK ==
    /\ row \in [id : Nat, status : {"absent", "running", "completed", "failed"},
                job : Jobs \cup {"none"}, doc : Jobs \cup {"none"}]
    /\ lastId \in Nat
    /\ polling \subseteq 1..lastId
    /\ loops \subseteq [id : 1..lastId, job : Jobs, attempt : 0..MaxAttempts,
                        at : Stages]
    /\ requests \in [Handlers ->
          [at : {"starting", "storing", "attaching", "applying", "dropping",
                 "discarding", "cleaning"},
           id : 0..lastId, job : Jobs \cup {"none"}] \cup {Free}]
    /\ faults \in 0..MaxFaults
    /\ jobStatus \in [Jobs -> Engine!Status]
    /\ submitted \subseteq Jobs

\* "Generation ids with a live in-process poller": an id in the set always
\* has a loop that polls for it or is about to take it out.  One without would
\* stop ensurePolling from ever attaching a loop to that row again.
PollingIsLive ==
    \A id \in polling : \E l \in loops :
        l.id = id /\ l.at \in {"wait", "result", "persist", "forgetting"}

\* "A fresh attempt must clear the previous run's result": the document a
\* completed row offers for review was made by the job the row names.
DocumentIsOfRowJob == row.status = "completed" => row.doc = row.job

\* A generation that was discarded or applied is not brought back by an
\* answer that comes late: a row that is new has an id never used before, and
\* is running.
DroppedStaysDropped ==
    [][row'.id # row.id /\ row'.id # 0 => row'.id > lastId /\ row'.status = "running"]_vars

\* "Re-attach on read so a long-running generation resumes being tracked
\* instead of hanging forever": a generation ends, or is dropped, for any
\* finite number of restarts and database failures.
GenerationEnds == row.status = "running" ~> row.status # "running"
=============================================================================
