----------------------------- MODULE EngineJobs -----------------------------
(***************************************************************************)
(* The engine-service's job manager (engine-service/engine_service/        *)
(* jobs.py, with the HTTP handlers of routes.py that reach it): an         *)
(* in-memory registry, one FIFO queue, one worker thread, the recording    *)
(* proxy whose calls run in request threads of their own, and the files    *)
(* each job and each specification leaves on disk.                         *)
(*                                                                         *)
(* Modelled for ENGINE_MODE=real.  status.json is written and never read   *)
(* back, so only the directory it creates is kept.                         *)
(***************************************************************************)
EXTENDS Naturals, Sequences

CONSTANTS
    Jobs,          \* job ids
    Specs,         \* _spec_name: one per distinct specification text
    SpecOf,        \* the specification a job was submitted with
    Calls,         \* request threads that can be inside proxy_forward
    MaxRequests,   \* bound: captured requests per job
    Faults         \* subset of {"crash", "writeFail"}: the service is killed; a write
                   \* to the disk raises

ASSUME JobsAssumption ==
    /\ "none" \notin Jobs        \* stands for no job at all
    /\ SpecOf \in [Jobs -> Specs]
    /\ MaxRequests \in Nat
    /\ Faults \subseteq {"crash", "writeFail"}

NoReport == "empty"    \* what collect_outputs makes of a missing report
NoResult == "none"     \* no result.json

VARIABLES
    submitted,   \* history: job ids ever handed out
    registered,  \* keys of _jobs and _params
    status,      \* Job.status of each job object
    queue,       \* _queue
    pc,          \* where the worker thread is
    cur,         \* the job the worker took last
    raised,      \* an exception is on its way through the finally
    capturing,   \* keys of _proxy
    nextSeq,     \* ctx["seq"]
    calls,       \* each request thread: its job and how far it got
    dirs,        \* jobs whose directory exists
    result,      \* result.json of each job: whose report it was made of
    log,         \* requests.jsonl of each job: the sequence numbers in it
    unwritten,   \* history, while nextSeq lives: the numbers taken by requests
                 \* that were not written
    spoiled,     \* jobs with half a line in requests.jsonl: reading it raises
    output,      \* data/<spec name>/: the job whose report is there
    deleting,    \* jobs delete() has unregistered but not yet removed
    orphans      \* jobs whose engine outlived a crash of the service

worker   == <<pc, cur, raised>>
registry == <<submitted, registered, status, queue>>
captured == <<log, unwritten, spoiled>>
capture  == <<capturing, nextSeq, calls, captured>>
rest     == <<result, output, deleting, orphans>>
vars == <<submitted, registered, status, queue, pc, cur, raised, capturing,
          nextSeq, calls, dirs, result, log, unwritten, spoiled, output, deleting,
          orphans>>

Idle == [job |-> "none", at |-> "idle"]

Init ==
    /\ submitted = {}
    /\ registered = {}
    /\ status = [j \in Jobs |-> "pending"]
    /\ queue = <<>>
    /\ pc = "idle" /\ cur = "none" /\ raised = FALSE
    /\ capturing = {}
    /\ nextSeq = [j \in Jobs |-> 0]
    /\ calls = [c \in Calls |-> Idle]
    /\ dirs = {}
    /\ result = [j \in Jobs |-> NoResult]
    /\ log = [j \in Jobs |-> <<>>]
    /\ unwritten = [j \in Jobs |-> {}]
    /\ spoiled = {}
    /\ output = [s \in Specs |-> NoReport]
    /\ deleting = {}
    /\ orphans = {}

-----------------------------------------------------------------------------
(* The public API.                                                         *)

\* submit: nobody knows the id before the call returns, so it is one step.
Submit(j) ==
    /\ j \notin submitted
    /\ submitted' = submitted \cup {j}
    /\ registered' = registered \cup {j}
    /\ status' = [status EXCEPT ![j] = "pending"]
    /\ \/ /\ dirs' = dirs \cup {j}
          /\ queue' = Append(queue, j)
       \/ /\ "writeFail" \in Faults    \* raises before the job is queued
          /\ UNCHANGED <<dirs, queue>>
    /\ UNCHANGED <<worker, capture, rest>>

\* delete, under the lock: the three maps forget the job.  Nothing tells the
\* worker or the engine.
DeleteUnregisters(j) ==
    /\ j \in registered
    /\ registered' = registered \ {j}
    /\ capturing' = capturing \ {j}
    /\ deleting' = deleting \cup {j}
    /\ UNCHANGED <<submitted, status, queue, worker, nextSeq, calls, captured,
                   dirs, result, output, orphans>>

\* delete, after the lock: shutil.rmtree of the job's directory.
DeleteRemovesDir(j) ==
    /\ j \in deleting
    /\ deleting' = deleting \ {j}
    /\ dirs' = dirs \ {j}
    /\ result' = [result EXCEPT ![j] = NoResult]
    /\ log' = [log EXCEPT ![j] = <<>>]
    /\ unwritten' = [unwritten EXCEPT ![j] = {}]
    /\ spoiled' = spoiled \ {j}
    /\ UNCHANGED <<registry, worker, capturing, nextSeq, calls, output, orphans>>

-----------------------------------------------------------------------------
(* The worker thread: _run_worker and _execute.                            *)

Goto(from, to) == pc = from /\ pc' = to

\* Take a job off the queue and look it up; a deleted one is skipped.
Claim ==
    /\ pc = "idle"
    /\ queue # <<>>
    /\ cur' = Head(queue)
    /\ queue' = Tail(queue)
    /\ pc' = IF Head(queue) \in registered THEN "claimed" ELSE "idle"
    /\ raised' = FALSE
    /\ UNCHANGED <<submitted, registered, status, capture, dirs, rest>>

\* _transition: the attribute is set under the lock, then _persist writes
\* status.json, creating the directory if it is not there.  When that write
\* raises, the attribute is already set.
Transition(s, from, ok, broken) ==
    /\ pc = from
    /\ status' = [status EXCEPT ![cur] = s]
    /\ \/ Goto(from, ok) /\ dirs' = dirs \cup {cur}
       \/ /\ "writeFail" \in Faults
          /\ Goto(from, broken)
          /\ UNCHANGED dirs

StartRun ==
    /\ Transition("running", "claimed", "prepare", "failing")
    /\ UNCHANGED <<submitted, registered, queue, cur, raised, capture, rest>>

\* Wrong: the previous run's report stays where this one will look for its own.
Prepare_KeepsOutput ==
    /\ pc = "prepare"
    /\ pc' \in {"failing", "capture"}
    /\ dirs' = dirs \cup {cur}
    /\ UNCHANGED <<registry, cur, raised, capture, result, output, deleting, orphans>>

\* validate_target_url may raise; otherwise the output directory, shared by
\* every run of the same specification, is cleared.
Prepare ==
    /\ \/ /\ Goto("prepare", "failing")
          /\ UNCHANGED output
       \/ /\ Goto("prepare", "capture")
          /\ output' = [output EXCEPT ![SpecOf[cur]] = NoReport]
    /\ dirs' = dirs \cup {cur}
    /\ UNCHANGED <<registry, cur, raised, capture, result, deleting, orphans>>

\* _register_proxy with a clean capture file, then the specification is
\* written into the job's directory, which raises if that is gone or the write
\* fails.
BeginCapture ==
    /\ pc = "capture"
    /\ capturing' = capturing \cup {cur}
    /\ nextSeq' = [nextSeq EXCEPT ![cur] = 0]
    /\ log' = [log EXCEPT ![cur] = <<>>]
    /\ unwritten' = [unwritten EXCEPT ![cur] = {}]
    /\ spoiled' = spoiled \ {cur}
    /\ \/ cur \in dirs /\ pc' = "engine" /\ raised' = FALSE
       \/ /\ cur \notin dirs \/ "writeFail" \in Faults
          /\ pc' = "unwind" /\ raised' = TRUE
    /\ UNCHANGED <<registry, cur, calls, dirs, rest>>

\* run_real returns or raises; either way the engine may or may not have
\* written its report by then.
EngineEnds ==
    /\ Goto("engine", "unwind")
    /\ raised' \in BOOLEAN
    /\ \/ output' = [output EXCEPT ![SpecOf[cur]] = cur]
       \/ UNCHANGED output
    /\ UNCHANGED <<registry, cur, capture, dirs, result, deleting, orphans>>

\* finally: stop accepting proxy traffic for this job.
EndCapture ==
    /\ pc = "unwind"
    /\ capturing' = capturing \ {cur}
    /\ pc' = IF raised THEN "failing" ELSE "collect"
    /\ UNCHANGED <<registry, cur, raised, nextSeq, calls, captured, dirs, rest>>

\* Wrong: a run without a report writes no result.json.
Collect_OnlyReports ==
    /\ \/ /\ cur \in dirs
          /\ Goto("collect", "publish")
          /\ result' = IF output[SpecOf[cur]] = NoReport THEN result
                       ELSE [result EXCEPT ![cur] = output[SpecOf[cur]]]
       \/ /\ cur \notin dirs \/ "writeFail" \in Faults
          /\ Goto("collect", "failing")
          /\ UNCHANGED result
    /\ UNCHANGED <<registry, cur, raised, capture, dirs, output, deleting, orphans>>

\* collect_outputs, then result.json, which raises if the directory is gone or
\* the write fails; half a file counts as none, for a failed job's is not read.
Collect ==
    /\ \/ /\ cur \in dirs
          /\ Goto("collect", "publish")
          /\ result' = [result EXCEPT ![cur] = output[SpecOf[cur]]]
       \/ /\ cur \notin dirs \/ "writeFail" \in Faults
          /\ Goto("collect", "failing")
          /\ UNCHANGED result
    /\ UNCHANGED <<registry, cur, raised, capture, dirs, output, deleting, orphans>>

Publish ==
    /\ Transition("completed", "publish", "idle", "failing")
    /\ UNCHANGED <<submitted, registered, queue, cur, raised, capture, rest>>

\* _fail: the job is looked up again, and left alone when it was deleted.
FailLooksUp ==
    /\ pc = "failing"
    /\ pc' = IF cur \in registered THEN "marking" ELSE "idle"
    /\ UNCHANGED <<registry, cur, raised, capture, dirs, rest>>

\* Wrong: the job is left to be tried again; uses a status nobody knows.
FailMarks_Requeues ==
    /\ Transition("pending", "marking", "idle", "dead")
    /\ queue' = Append(queue, cur)
    /\ UNCHANGED <<submitted, registered, cur, raised, capture, rest>>

FailMarks_UnknownStatus ==
    /\ Transition("error", "marking", "idle", "dead")
    /\ UNCHANGED <<submitted, registered, queue, cur, raised, capture, rest>>

\* ... and marked.  An exception here leaves the while loop of _run_worker.
FailMarks ==
    /\ Transition("failed", "marking", "idle", "dead")
    /\ UNCHANGED <<submitted, registered, queue, cur, raised, capture, rest>>

-----------------------------------------------------------------------------
(* proxy_forward, one thread per call of the engine under test.            *)

InFlight(j) == {c \in Calls : calls[c].job = j}

\* The engine sends a request; it is forwarded only while the job captures.
CallArrives(c) ==
    /\ pc = "engine"
    /\ cur \in capturing
    /\ calls[c] = Idle
    /\ nextSeq[cur] < MaxRequests
    /\ calls' = [calls EXCEPT ![c] = [job |-> cur, at |-> "forwarding"]]
    /\ UNCHANGED <<registry, worker, capturing, nextSeq, captured, dirs, rest>>

\* The target has answered; record_request fetches the capture context.
CallForwarded(c) ==
    /\ calls[c].at = "forwarding"
    /\ calls' = [calls EXCEPT ![c] = IF calls[c].job \in capturing
                                     THEN [@ EXCEPT !.at = "recording"] ELSE Idle]
    /\ UNCHANGED <<registry, worker, capturing, nextSeq, captured, dirs, rest>>

\* Wrong: the counter is advanced outside the lock, after the line is written,
\* so that another thread may take the same number.
CallRecords_SameNumber(c) ==
    /\ calls[c].at = "recording"
    /\ LET j == calls[c].job IN
          log' = IF j \in dirs THEN [log EXCEPT ![j] = Append(@, nextSeq[j])] ELSE log
    /\ calls' = [calls EXCEPT ![c] = Idle]
    /\ UNCHANGED <<registry, worker, capturing, nextSeq, unwritten, spoiled, dirs, rest>>

\* record_request, under the context's own lock: the number is taken first,
\* then the line is appended, which raises if the directory is gone or the
\* write fails; that may leave half a line.
CallRecords(c) ==
    /\ calls[c].at = "recording"
    /\ LET j == calls[c].job IN
          /\ nextSeq' = [nextSeq EXCEPT ![j] = @ + 1]
          /\ \/ /\ j \in dirs
                /\ log' = [log EXCEPT ![j] = Append(@, nextSeq[j])]
                /\ UNCHANGED <<unwritten, spoiled>>
             \/ /\ j \notin dirs \/ "writeFail" \in Faults
                /\ unwritten' = [unwritten EXCEPT ![j] = @ \cup {nextSeq[j]}]
                /\ spoiled' \in {spoiled, spoiled \cup ({j} \cap dirs)}
                /\ UNCHANGED log
    /\ calls' = [calls EXCEPT ![c] = Idle]
    /\ UNCHANGED <<registry, worker, capturing, dirs, rest>>

-----------------------------------------------------------------------------
(* The service is killed and started again: everything in memory is gone,  *)
(* the files stay, and a running engine may live on and still report.      *)

Crash ==
    /\ "crash" \in Faults
    /\ registered' = {}
    /\ queue' = <<>>
    /\ pc' = "idle" /\ cur' = "none" /\ raised' = FALSE
    /\ capturing' = {}
    /\ nextSeq' = [j \in Jobs |-> 0]
    /\ calls' = [c \in Calls |-> Idle]
    /\ deleting' = {}
    /\ \/ orphans' = orphans \cup (IF pc = "engine" THEN {cur} ELSE {})
       \/ UNCHANGED orphans
    /\ unwritten' = [j \in Jobs |-> {}]
    /\ UNCHANGED <<submitted, status, dirs, result, log, spoiled, output>>

OrphanEnds(j) ==
    /\ j \in orphans
    /\ orphans' = orphans \ {j}
    /\ \/ output' = [output EXCEPT ![SpecOf[j]] = j]
       \/ UNCHANGED output
    /\ UNCHANGED <<registry, worker, capture, dirs, result, deleting>>

-----------------------------------------------------------------------------
WorkerStep ==
    \/ Claim \/ StartRun \/ Prepare \/ BeginCapture \/ EngineEnds
    \/ EndCapture \/ Collect \/ Publish \/ FailLooksUp \/ FailMarks

CallStep == \E c \in Calls : CallArrives(c) \/ CallForwarded(c) \/ CallRecords(c)

ApiStep == \E j \in Jobs : Submit(j) \/ DeleteUnregisters(j) \/ DeleteRemovesDir(j)

Next ==
    \/ ApiStep
    \/ WorkerStep
    \/ CallStep
    \/ Crash
    \/ \E j \in Jobs : OrphanEnds(j)

Spec == Init /\ [][Next]_vars

\* The worker thread is scheduled, and run_real always returns: it waits for
\* the engine with a timeout and then kills it.
FairSpec == Spec /\ WF_vars(WorkerStep)

-----------------------------------------------------------------------------
TypeOK ==
    /\ submitted \subseteq Jobs
    /\ registered \subseteq submitted
    /\ status \in [Jobs -> {"pending", "running", "completed", "failed"}]
    /\ queue \in Seq(Jobs)
    /\ pc \in {"idle", "claimed", "prepare", "capture", "engine", "unwind",
              "collect", "publish", "failing", "marking", "dead"}
    /\ cur \in Jobs \cup {"none"}
    /\ raised \in BOOLEAN
    /\ capturing \subseteq Jobs
    /\ nextSeq \in [Jobs -> Nat]
    /\ calls \in [Calls -> [job : Jobs, at : {"forwarding", "recording"}] \cup {Idle}]
    /\ dirs \subseteq Jobs
    /\ result \in [Jobs -> Jobs \cup {NoReport, NoResult}]
    /\ log \in [Jobs -> Seq(Nat)]
    /\ unwritten \in [Jobs -> SUBSET Nat]
    /\ spoiled \subseteq Jobs
    /\ output \in [Specs -> Jobs \cup {NoReport}]
    /\ deleting \subseteq Jobs
    /\ orphans \subseteq Jobs

\* "A run that dies before writing its report can't have the previous run's
\* results collected as if they were its own", though every run of the same
\* specification uses one output directory: only an engine that outlived a
\* crash, its job never ended, can put its report in another's place.
ResultIsOwn ==
    \A j \in Jobs :
        \/ result[j] \in {j, NoReport, NoResult}
        \/ status[result[j]] = "running" /\ result[j] \notin registered

\* Whoever reads "completed" can fetch the result: get_result answers 409
\* before, and a missing result.json would answer 404 after.
CompletedHasResult ==
    \A j \in registered : status[j] = "completed" => result[j] # NoResult

\* What is fetched as the result of a completed job is there, and its own.
ResultsAreOwn == CompletedHasResult /\ ResultIsOwn

\* The capture file of a job, as long as it can be read at all, holds its
\* requests in the order of their numbers, which a replay sorts by, whatever
\* threads recorded them: no number twice, and none missing but those whose own
\* write failed.
CapturedInOrder ==
    \A j \in registered \ spoiled :
        /\ \A i, k \in 1..Len(log[j]) : i < k => log[j][i] < log[j][k]
        /\ {log[j][i] : i \in 1..Len(log[j])} = (0..(nextSeq[j] - 1)) \ unwritten[j]

\* Every queued job ends, or is deleted, whatever becomes of the jobs before
\* it, so long as the worker thread lives.
NoJobStarves ==
    \A j \in Jobs :
        (\E i \in DOMAIN queue : queue[i] = j)
        ~> \/ j \notin registered
           \/ status[j] \in {"completed", "failed"}
           \/ pc = "dead"

\* The job manager implements the status protocol the backend polls: pending,
\* running, then completed or failed; one running job at a time; completed
\* taken back when it cannot be persisted; "unknown" for jobs deleted or lost.
ReportedStatus == [j \in Jobs |-> IF j \in registered THEN status[j] ELSE "unknown"]

Protocol == INSTANCE EngineJobStatus WITH status <- ReportedStatus

ImplementsProtocol == Protocol!StatusSpec
=============================================================================
