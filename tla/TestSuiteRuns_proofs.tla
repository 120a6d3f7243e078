------------------------ MODULE TestSuiteRuns_proofs ------------------------
(***************************************************************************)
(* Theorems about TestSuiteRuns, for any number of suites, jobs and        *)
(* requests being served, and any number of polling attempts.              *)
(***************************************************************************)
EXTENDS TestSuiteRuns, TLAPS

Rows == Jobs \X Nat

HandlerRec == [at : {"free", "checked", "started", "counting", "creating"},
               suite : Suites \cup {"none"}, job : Jobs \cup {"none"}]
PollerRec  == [at : {"off", "wait", "result", "persist", "requests", "clear",
                     "insert", "failing"},
               suite : Suites \cup {"none"}, attempt : Nat, chunk : Nat]
TaskRec    == [at : {"off", "reading", "storing", "finishing", "failing"},
               from : Suites \cup {"none"}, sent : SUBSET Rows]

\* The part of the type invariant the other proofs rest on.
RowTypes ==
    /\ status \in [Suites -> {"unused", "removed", "pending", "running",
                              "completed", "failed"}]
    /\ jobId \in [Suites -> Jobs \cup {"none"}]
    /\ origin \in [Suites -> Suites \cup {"none"}]
    /\ results \in [Suites -> Jobs \cup {"none", "replay"}]
    /\ logs \in [Suites -> SUBSET Rows]

HandlerTypes ==
    /\ handlers \in [Handlers -> HandlerRec]
    /\ \A h \in Handlers :
          /\ handlers[h].at # "free" => handlers[h].suite \in Suites
          /\ handlers[h].at = "started" => handlers[h].job \in Jobs

PollerTypes ==
    /\ pollers \in [Jobs -> PollerRec]
    /\ \A j \in Jobs : pollers[j].at # "off" => pollers[j].suite \in Suites

TaskTypes ==
    /\ replays \in [Suites -> TaskRec]
    /\ \A r \in Suites : replays[r].at # "off" => replays[r].from \in Suites

Types == RowTypes /\ HandlerTypes /\ PollerTypes /\ TaskTypes

-----------------------------------------------------------------------------
(* What an update of one handler, poller or task keeps.                    *)

LEMMA SetHandler ==
    ASSUME HandlerTypes, NEW h \in Handlers, NEW p \in HandlerRec,
           p.at # "free" => p.suite \in Suites,
           p.at = "started" => p.job \in Jobs,
           handlers' = [handlers EXCEPT ![h] = p]
    PROVE  HandlerTypes'
  BY DEF HandlerTypes

LEMMA SetPoller ==
    ASSUME PollerTypes, NEW j \in Jobs, NEW p \in PollerRec,
           p.at # "off" => p.suite \in Suites,
           pollers' = [pollers EXCEPT ![j] = p]
    PROVE  PollerTypes'
  BY DEF PollerTypes

LEMMA SetTask ==
    ASSUME TaskTypes, NEW r \in Suites, NEW p \in TaskRec,
           p.at # "off" => p.from \in Suites,
           replays' = [replays EXCEPT ![r] = p]
    PROVE  TaskTypes'
  BY DEF TaskTypes

PollerStages == {"wait", "result", "persist", "requests", "clear", "insert", "failing"}

LEMMA PollerMoves ==
    ASSUME PollerTypes, NEW j \in Jobs, pollers[j].at # "off",
           NEW a \in PollerStages, NEW n \in Nat, NEW k \in Nat,
           pollers' = [pollers EXCEPT ![j] = Polling(a, pollers[j].suite, n, k)]
    PROVE  PollerTypes' /\ pollers'[j].at = a /\ pollers'[j].suite = pollers[j].suite
<1>1. pollers[j].suite \in Suites
  BY DEF PollerTypes
<1>2. Polling(a, pollers[j].suite, n, k) \in PollerRec
  BY <1>1 DEF PollerRec, PollerStages, Polling
<1>3. PollerTypes'
  BY <1>1, <1>2, SetPoller DEF Polling
<1>4. QED
  BY <1>3 DEF PollerTypes, Polling

LEMMA PollerFields ==
    ASSUME PollerTypes, NEW j \in Jobs
    PROVE  pollers[j].attempt \in Nat /\ pollers[j].chunk \in Nat
  BY DEF PollerTypes, PollerRec

LEMMA PollerAt ==
    ASSUME PollerTypes, NEW j \in Jobs, pollers[j].at # "off",
           NEW a \in PollerStages, Poller(j, a)
    PROVE  PollerTypes' /\ pollers'[j].at = a /\ pollers'[j].suite = pollers[j].suite
<1>1. [pollers[j] EXCEPT !.at = a] =
          Polling(a, pollers[j].suite, pollers[j].attempt, pollers[j].chunk)
  BY DEF PollerTypes, PollerRec, Polling
<1>2. pollers' = [pollers EXCEPT ![j] =
          Polling(a, pollers[j].suite, pollers[j].attempt, pollers[j].chunk)]
  BY <1>1 DEF Poller
<1>3. pollers[j].attempt \in Nat /\ pollers[j].chunk \in Nat
  BY PollerFields
<1>4. QED
  BY <1>2, <1>3, PollerMoves

LEMMA PollerTicks ==
    ASSUME PollerTypes, NEW j \in Jobs, pollers[j].at # "off", TickAgain(j)
    PROVE  /\ PollerTypes'
           /\ pollers'[j].at \in {"wait", "failing"}
           /\ pollers'[j].suite = pollers[j].suite
<1>1. pollers[j].attempt + 1 \in Nat /\ 0 \in Nat
  BY PollerFields
<1>2. PICK a \in {"wait", "failing"} :
          pollers' = [pollers EXCEPT ![j] =
              Polling(a, pollers[j].suite, pollers[j].attempt + 1, 0)]
  BY DEF TickAgain
<1>3. a \in PollerStages
  BY DEF PollerStages
<1>4. QED
  BY <1>1, <1>2, <1>3, PollerMoves

LEMMA PollerEnds ==
    ASSUME PollerTypes, NEW j \in Jobs, pollers' = [pollers EXCEPT ![j] = NoPoll]
    PROVE  PollerTypes' /\ pollers'[j].at = "off"
<1>1. NoPoll \in PollerRec /\ NoPoll.at = "off"
  BY DEF NoPoll, Polling, PollerRec
<1>2. QED
  BY <1>1, SetPoller DEF PollerTypes

\* What a step of one poller does to the pollers, and the rest it leaves.
OthersPoll(j) == \A i \in Jobs \ {j} : pollers'[i] = pollers[i]

PollerEffect(j) ==
    /\ PollerTypes'
    /\ OthersPoll(j)
    /\ pollers[j].at # "off"
    /\ pollers'[j].at # "off" => pollers'[j].suite = pollers[j].suite

LEMMA PollStepEffect ==
    ASSUME PollerTypes, NEW j \in Jobs, PollStep(j)
    PROVE  PollerEffect(j)
<1>1. OthersPoll(j) /\ pollers[j].at # "off"
  BY DEF PollStep, PollsStatus, FetchesResult, PersistsResults, FetchesRequests,
         ClearsLogs, InsertsLogs, PollerFails, Poller, TickAgain, OthersPoll, PollerTypes
<1>2. CASE TickAgain(j)
  BY <1>1, <1>2, PollerTicks DEF PollerEffect
<1>3. CASE \E a \in PollerStages : Poller(j, a)
  BY <1>1, <1>3, PollerAt DEF PollerEffect
<1>4. CASE pollers' = [pollers EXCEPT ![j] = NoPoll]
  BY <1>1, <1>4, PollerEnds DEF PollerEffect
<1>5. CASE \E k \in Nat : pollers' = [pollers EXCEPT ![j] =
               Polling("insert", pollers[j].suite, pollers[j].attempt, k)]
  <2>1. "insert" \in PollerStages /\ pollers[j].attempt \in Nat
    BY PollerFields DEF PollerStages
  <2>2. PICK k \in Nat : pollers' = [pollers EXCEPT ![j] =
            Polling("insert", pollers[j].suite, pollers[j].attempt, k)]
    BY <1>5
  <2>3. PollerTypes' /\ pollers'[j].suite = pollers[j].suite
    BY <1>1, <2>1, <2>2, PollerMoves
  <2>4. QED
    BY <1>1, <2>3 DEF PollerEffect
<1>6. CASE PollsStatus(j) \/ FetchesResult(j) \/ PersistsResults(j) \/ FetchesRequests(j)
  BY <1>6, <1>2, <1>3, <1>4
     DEF PollsStatus, FetchesResult, PersistsResults, FetchesRequests, PollerStages
<1>7. CASE ClearsLogs(j)
  BY <1>7, <1>2, <1>4, <1>5 DEF ClearsLogs
<1>8. CASE InsertsLogs(j)
  <2>1. pollers[j].chunk + 1 \in Nat
    BY PollerFields
  <2>2. QED
    BY <1>8, <1>2, <1>4, <1>5, <2>1 DEF InsertsLogs
<1>9. CASE PollerFails(j)
  BY <1>9, <1>4 DEF PollerFails
<1>10. QED
  BY <1>6, <1>7, <1>8, <1>9 DEF PollStep

LEMMA TaskAt ==
    ASSUME TaskTypes, NEW r \in Suites, replays[r].at # "off",
           NEW a \in {"reading", "storing", "finishing", "failing"}, Task(r, a)
    PROVE  TaskTypes' /\ replays'[r].at = a
<1>1. [replays[r] EXCEPT !.at = a] =
          [at |-> a, from |-> replays[r].from, sent |-> replays[r].sent]
  BY DEF TaskTypes, TaskRec
<1>2. replays' = [replays EXCEPT ![r] =
          [at |-> a, from |-> replays[r].from, sent |-> replays[r].sent]]
  BY <1>1 DEF Task
<1>3. [at |-> a, from |-> replays[r].from, sent |-> replays[r].sent] \in TaskRec
  BY DEF TaskTypes, TaskRec
<1>4. TaskTypes'
  BY <1>2, <1>3, SetTask DEF TaskTypes
<1>5. QED
  BY <1>2, <1>4 DEF TaskTypes

LEMMA TaskEnds ==
    ASSUME TaskTypes, NEW r \in Suites, replays' = [replays EXCEPT ![r] = NoTask]
    PROVE  TaskTypes' /\ replays'[r].at = "off"
<1>1. NoTask \in TaskRec /\ NoTask.at = "off"
  BY DEF NoTask, TaskRec
<1>2. QED
  BY <1>1, SetTask DEF TaskTypes

OthersReplay(r) == \A q \in Suites \ {r} : replays'[q] = replays[q]

LEMMA ReplayStepEffect ==
    ASSUME TaskTypes, RowTypes, NEW r \in Suites, ReplayStep(r)
    PROVE  TaskTypes' /\ OthersReplay(r) /\ replays[r].at # "off"
<1>1. OthersReplay(r) /\ replays[r].at # "off"
  BY DEF ReplayStep, ReplayReads, ReplayStores, ReplayFinishes, ReplayFails, Task,
         OthersReplay, TaskTypes
<1>2. CASE \E a \in {"reading", "storing", "finishing", "failing"} : Task(r, a)
  BY <1>1, <1>2, TaskAt
<1>3. CASE replays' = [replays EXCEPT ![r] = NoTask]
  BY <1>1, <1>3, TaskEnds
<1>4. CASE replays' = [replays EXCEPT ![r] =
               [at |-> "storing", from |-> @.from, sent |-> logs[@.from]]]
  <2>1. replays[r].from \in Suites
    BY <1>1 DEF TaskTypes
  <2>2. [at |-> "storing", from |-> replays[r].from, sent |-> logs[replays[r].from]]
            \in TaskRec
    BY <2>1 DEF TaskRec, RowTypes
  <2>3. TaskTypes'
    BY <1>4, <2>1, <2>2, SetTask
  <2>4. QED
    BY <1>1, <2>3
<1>5. QED
  BY <1>1, <1>2, <1>3, <1>4
     DEF ReplayStep, ReplayReads, ReplayStores, ReplayFinishes, ReplayFails

-----------------------------------------------------------------------------
LEMMA TypesInvariant == Spec => []Types
<1> USE SuitesAssumption DEF Types
<1>1. Init => Types
  BY DEF Init, RowTypes, HandlerTypes, PollerTypes, TaskTypes,
         HandlerRec, PollerRec, TaskRec, Free, NoPoll, Polling, NoTask
<1>2. Types /\ [Next]_vars => Types'
  <2> SUFFICES ASSUME Types, [Next]_vars PROVE Types'
    OBVIOUS
  <2> USE DEF row, tasks, engine
  <2>a. UNCHANGED handlers => HandlerTypes'
    BY DEF HandlerTypes
  <2>b. UNCHANGED pollers => PollerTypes'
    BY DEF PollerTypes
  <2>c. UNCHANGED replays => TaskTypes'
    BY DEF TaskTypes
  <2>d. UNCHANGED row => RowTypes'
    BY DEF RowTypes
  <2>e. \A h \in Handlers : Respond(h) => HandlerTypes'
    <3>1. Free \in HandlerRec /\ Free.at = "free"
      BY DEF Free, HandlerRec
    <3>2. QED
      BY <3>1, SetHandler DEF Respond
  <2>1. ASSUME NEW s \in Suites, Create(s) \/ Remove(s) PROVE Types'
    <3>1. RowTypes'
      BY <2>1 DEF Create, Remove, RowTypes
    <3>2. QED
      BY <2>1, <3>1, <2>a, <2>b, <2>c DEF Create, Remove
  <2>2. ASSUME NEW h \in Handlers, NEW s \in Suites, RunChecks(h, s) \/ ReplayChecks(h, s)
        PROVE  Types'
    <3>1. PICK p \in HandlerRec : /\ p.suite \in Suites /\ p.at # "started"
                                 /\ handlers' = [handlers EXCEPT ![h] = p]
      BY <2>2 DEF RunChecks, ReplayChecks, HandlerRec, RowTypes
    <3>2. HandlerTypes'
      BY <3>1, SetHandler
    <3>3. QED
      BY <2>2, <3>2, <2>b, <2>c, <2>d DEF RunChecks, ReplayChecks
  <2>3. ASSUME NEW h \in Handlers, RunStarts(h) PROVE Types'
    <3>1. HandlerTypes'
      <4>1. ASSUME NEW j \in Jobs,
                   handlers' = [handlers EXCEPT ![h] =
                                   [at |-> "started", suite |-> @.suite, job |-> j]]
            PROVE  HandlerTypes'
        <5>1. handlers[h].suite \in Suites
          BY <2>3 DEF RunStarts, HandlerTypes
        <5>2. [at |-> "started", suite |-> handlers[h].suite, job |-> j] \in HandlerRec
          BY <5>1 DEF HandlerRec
        <5>3. QED
          BY <4>1, <5>1, <5>2, SetHandler
      <4>2. QED
        BY <2>3, <2>e, <4>1 DEF RunStarts
    <3>2. QED
      BY <2>3, <3>1, <2>b, <2>c, <2>d DEF RunStarts
  <2>4. ASSUME NEW h \in Handlers, RunCommits(h) PROVE Types'
    <3>1. handlers[h].suite \in Suites /\ handlers[h].job \in Jobs
      BY <2>4 DEF RunCommits, HandlerTypes
    <3>2. RowTypes'
      BY <2>4, <3>1 DEF RunCommits, RowTypes
    <3>3. PollerTypes'
      <4>1. Polling("wait", handlers[h].suite, 0, 0) \in PollerRec
        BY <3>1 DEF Polling, PollerRec
      <4>2. QED
        BY <2>4, <3>1, <4>1, <2>b, SetPoller DEF RunCommits, Polling
    <3>4. QED
      BY <2>4, <3>2, <3>3, <2>c, <2>e DEF RunCommits
  <2>5. ASSUME NEW h \in Handlers, ReplayCounts(h) PROVE Types'
    <3>1. HandlerTypes'
      <4>1. CASE handlers' = [handlers EXCEPT ![h] = [@ EXCEPT !.at = "creating"]]
        <5>1. [handlers[h] EXCEPT !.at = "creating"] =
                 [at |-> "creating", suite |-> handlers[h].suite, job |-> handlers[h].job]
          BY DEF HandlerTypes, HandlerRec
        <5>2. handlers[h].suite \in Suites
          BY <2>5 DEF ReplayCounts, HandlerTypes
        <5>3. [at |-> "creating", suite |-> handlers[h].suite, job |-> handlers[h].job]
                 \in HandlerRec
          BY <5>2 DEF HandlerTypes, HandlerRec
        <5>4. QED
          BY <4>1, <5>1, <5>2, <5>3, SetHandler
      <4>2. QED
        BY <2>5, <2>e, <4>1 DEF ReplayCounts
    <3>2. QED
      BY <2>5, <3>1, <2>b, <2>c, <2>d DEF ReplayCounts
  <2>6. ASSUME NEW h \in Handlers, ReplayCreates(h) PROVE Types'
    <3>1. handlers[h].suite \in Suites
      BY <2>6 DEF ReplayCreates, HandlerTypes
    <3>2. RowTypes'
      BY <2>6, <3>1 DEF ReplayCreates, RowTypes
    <3>3. TaskTypes'
      <4>1. [at |-> "reading", from |-> handlers[h].suite, sent |-> {}] \in TaskRec
        BY <3>1 DEF TaskRec
      <4>2. QED
        BY <2>6, <3>1, <4>1, <2>c, SetTask DEF ReplayCreates
    <3>4. QED
      BY <2>6, <3>2, <3>3, <2>b, <2>e DEF ReplayCreates
  <2>7. ASSUME NEW j \in Jobs, PollStep(j) PROVE Types'
    <3>1. PollerTypes' /\ pollers[j].suite \in Suites /\ pollers[j].chunk \in Nat
      BY <2>7, PollStepEffect, PollerFields DEF PollerEffect, PollerTypes
    <3>2. UNCHANGED <<handlers, replays>>
      BY <2>7 DEF PollStep, PollsStatus, FetchesResult, PersistsResults,
                  FetchesRequests, ClearsLogs, InsertsLogs, PollerFails
    <3>3. CASE PollsStatus(j) \/ FetchesResult(j) \/ FetchesRequests(j)
      BY <3>1, <3>2, <3>3, <2>a, <2>c, <2>d DEF PollsStatus, FetchesResult, FetchesRequests
    <3>4. CASE PersistsResults(j) \/ PollerFails(j)
      <4>1. RowTypes'
        BY <3>1, <3>4 DEF PersistsResults, PollerFails, MarkFailed, RowTypes
      <4>2. QED
        BY <3>1, <3>2, <4>1, <2>a, <2>c
    <3>5. CASE ClearsLogs(j) \/ InsertsLogs(j)
      <4>1. <<j, pollers[j].chunk>> \in Rows
        BY <3>1 DEF Rows
      <4>2. RowTypes'
        BY <3>1, <3>5, <4>1 DEF ClearsLogs, InsertsLogs, RowTypes
      <4>3. QED
        BY <3>1, <3>2, <4>2, <2>a, <2>c
    <3>6. QED
      BY <2>7, <3>3, <3>4, <3>5 DEF PollStep
  <2>8. ASSUME NEW r \in Suites, ReplayStep(r) PROVE Types'
    <3>1. TaskTypes'
      BY <2>8, ReplayStepEffect
    <3>2. UNCHANGED <<handlers, pollers>>
      BY <2>8 DEF ReplayStep, ReplayReads, ReplayStores, ReplayFinishes, ReplayFails
    <3>3. replays[r].sent \subseteq Rows
      BY DEF TaskTypes, TaskRec
    <3>4. RowTypes'
      BY <2>8, <3>3 DEF ReplayStep, ReplayReads, ReplayStores, ReplayFinishes,
                        ReplayFails, MarkFailed, RowTypes
    <3>5. QED
      BY <3>1, <3>2, <3>4, <2>a, <2>b
  <2>9. CASE BackendRestarts
    BY <2>9, <2>d DEF BackendRestarts, HandlerTypes, PollerTypes, TaskTypes, Free,
         NoPoll, Polling, NoTask, HandlerRec, PollerRec, TaskRec
  <2>10. CASE EngineStep
    BY <2>10, <2>a, <2>b, <2>c, <2>d DEF EngineStep
  <2>11. CASE UNCHANGED vars
    BY <2>11, <2>a, <2>b, <2>c, <2>d DEF vars
  <2>12. QED
    BY <2>1, <2>2, <2>3, <2>4, <2>5, <2>6, <2>7, <2>8, <2>9, <2>10, <2>11
       DEF Next, UserStep, HandlerStep
<1>3. QED
  BY <1>1, <1>2, PTL DEF Spec

-----------------------------------------------------------------------------
(* The origin of a replay.  A replay being made is going to name a row that *)
(* is not a replay, or is gone; a row id not used yet is in nobody's hands. *)

OriginInv ==
    /\ OriginIsGenerated
    /\ \A s \in Suites : status[s] \in {"unused", "removed"} => origin[s] = "none"
    /\ \A h \in Handlers : handlers[h].at \in {"counting", "creating"} =>
          /\ status[handlers[h].suite] # "unused"
          /\ origin[handlers[h].suite] = "none"

\* Whatever is replayed, run again or removed meanwhile, by however many
\* requests at once, a replay names an existing row that is not a replay.
THEOREM OriginsAreGenerated == Spec => []OriginIsGenerated
<1> USE SuitesAssumption DEF OriginInv, OriginIsGenerated, Exists
<1>1. Init => OriginInv
  BY DEF Init, Free
<1>2. Types /\ OriginInv /\ [Next]_vars => OriginInv'
  <2> SUFFICES ASSUME Types, OriginInv, [Next]_vars PROVE OriginInv'
    OBVIOUS
  <2> USE DEF row, tasks, engine, Types, RowTypes, HandlerTypes
  <2>1. ASSUME NEW s \in Suites, Create(s) PROVE OriginInv'
    BY <2>1 DEF Create
  <2>2. ASSUME NEW s \in Suites, Remove(s) PROVE OriginInv'
    <3> DEFINE Gone == {s} \cup {r \in Suites : origin[r] = s}
    <3>1. \A t \in Suites : /\ status'[t] = IF t \in Gone THEN "removed" ELSE status[t]
                            /\ origin'[t] = IF t \in Gone THEN "none" ELSE origin[t]
      BY <2>2 DEF Remove
    <3>2. handlers' = handlers
      BY <2>2 DEF Remove
    <3>3. QED
      BY <3>1, <3>2
  <2>3. ASSUME NEW h \in Handlers, NEW s \in Suites, RunChecks(h, s) \/ ReplayChecks(h, s)
        PROVE  OriginInv'
    BY <2>3 DEF RunChecks, ReplayChecks
  <2>4. ASSUME NEW h \in Handlers, RunStarts(h) \/ RunCommits(h) PROVE OriginInv'
    BY <2>4 DEF RunStarts, RunCommits, Respond, Free
  <2>5. ASSUME NEW h \in Handlers, ReplayCounts(h) PROVE OriginInv'
    BY <2>5 DEF ReplayCounts, Respond, Free, HandlerRec
  <2>6. ASSUME NEW h \in Handlers, ReplayCreates(h) PROVE OriginInv'
    BY <2>6 DEF ReplayCreates, Respond, Free
  <2>7. ASSUME NEW j \in Jobs, PollStep(j) PROVE OriginInv'
    BY <2>7 DEF PollStep, PollsStatus, FetchesResult, PersistsResults, FetchesRequests,
                ClearsLogs, InsertsLogs, PollerFails, MarkFailed
  <2>8. ASSUME NEW r \in Suites, ReplayStep(r) PROVE OriginInv'
    BY <2>8 DEF ReplayStep, ReplayReads, ReplayStores, ReplayFinishes, ReplayFails,
                MarkFailed
  <2>9. CASE BackendRestarts
    BY <2>9 DEF BackendRestarts, Free
  <2>10. CASE EngineStep \/ UNCHANGED vars
    BY <2>10 DEF EngineStep, vars
  <2>11. QED
    BY <2>1, <2>2, <2>3, <2>4, <2>5, <2>6, <2>7, <2>8, <2>9, <2>10
       DEF Next, UserStep, HandlerStep
<1>3. QED
  BY <1>1, <1>2, TypesInvariant, PTL DEF Spec

-----------------------------------------------------------------------------
(* Whose run it is.  A poller that can still change the status of a row     *)
(* polls the job that row names, and the row is running; so no request can  *)
(* start another run of it.  This is what overlapping run requests, or a    *)
(* database failure that sends a poller back to getStatus, break.           *)

Deciding == {"wait", "result", "persist", "failing"}

RunningBy(h) == handlers[h].at \in {"checked", "started"}

PollersOwn ==
    \A j \in Jobs :
        /\ pollers[j].at # "off" => status[pollers[j].suite] # "unused"
        /\ pollers[j].at \in Deciding /\ Exists(pollers[j].suite) =>
              status[pollers[j].suite] = "running" /\ jobId[pollers[j].suite] = j

ReplaysOwn ==
    \A r \in Suites :
        /\ status[r] = "unused" => jobId[r] = "none" /\ replays[r].at = "off"
        /\ replays[r].at # "off" /\ Exists(r) => status[r] = "running" /\ jobId[r] = "none"

RequestsAlone ==
    /\ \A h \in Handlers :
          RunningBy(h) => status[handlers[h].suite] \notin {"unused", "running"}
    /\ \A g, h \in Handlers :
          RunningBy(g) /\ RunningBy(h) /\ handlers[g].suite = handlers[h].suite => g = h

LatestInv == ResultsAreOfLatestRun /\ PollersOwn /\ ReplaysOwn /\ RequestsAlone

LEMMA LatestStep ==
    ASSUME Faults \cap {"overlap", "dbFail"} = {},
           Types, LatestInv, [Next]_vars
    PROVE  LatestInv'
<1> USE SuitesAssumption DEF LatestInv, ResultsAreOfLatestRun, PollersOwn, ReplaysOwn,
        RequestsAlone, RunningBy, Deciding, Exists,
        row, tasks, engine, Types, RowTypes, HandlerTypes
<1>1. ASSUME NEW s \in Suites, Create(s) PROVE LatestInv'
  BY <1>1 DEF Create, PollerTypes
<1>2. ASSUME NEW s \in Suites, Remove(s) PROVE LatestInv'
  <2> DEFINE Gone == {s} \cup {r \in Suites : origin[r] = s}
  <2>1. \A t \in Suites : /\ status'[t] = IF t \in Gone THEN "removed" ELSE status[t]
                          /\ jobId'[t] = IF t \in Gone THEN "none" ELSE jobId[t]
                          /\ results'[t] = IF t \in Gone THEN "none" ELSE results[t]
    BY <1>2 DEF Remove
  <2>2. UNCHANGED <<handlers, pollers, replays>>
    BY <1>2 DEF Remove
  <2> HIDE DEF Gone
  <2>3. QED
    BY <2>1, <2>2 DEF PollerTypes
<1>3. ASSUME NEW h \in Handlers, NEW s \in Suites, RunChecks(h, s) \/ ReplayChecks(h, s)
      PROVE  LatestInv'
  BY <1>3 DEF RunChecks, ReplayChecks, BeingRun, Free
<1>4. ASSUME NEW h \in Handlers, RunStarts(h) PROVE LatestInv'
  BY <1>4 DEF RunStarts, Respond, Free
<1>5. ASSUME NEW h \in Handlers, RunCommits(h) PROVE LatestInv'
  <2> DEFINE s == handlers[h].suite
             j == handlers[h].job
  <2>1. s \in Suites /\ j \in Jobs /\ status[s] \notin {"unused", "running"}
    BY <1>5 DEF RunCommits
  <2>2. /\ handlers' = [handlers EXCEPT ![h] = Free]
        /\ UNCHANGED replays
    BY <1>5 DEF RunCommits, Respond
  <2>3. CASE ~Exists(s)
    <3>1. UNCHANGED <<status, jobId, results, pollers>>
      BY <1>5, <2>3 DEF RunCommits
    <3>2. QED
      BY <2>2, <3>1 DEF Free
  <2>4. CASE Exists(s)
    <3>1. /\ status' = [status EXCEPT ![s] = "running"]
          /\ jobId' = [jobId EXCEPT ![s] = j]
          /\ results' = [results EXCEPT ![s] = "none"]
          /\ pollers' = [pollers EXCEPT ![j] = Polling("wait", s, 0, 0)]
      BY <1>5, <2>4 DEF RunCommits
    <3>2. PollersOwn'
      BY <2>1, <2>4, <3>1 DEF Polling, PollerTypes
    <3>3. ReplaysOwn'
      BY <2>1, <2>2, <2>4, <3>1
    <3>4. RequestsAlone'
      BY <1>5, <2>1, <2>2, <3>1 DEF Free, RunCommits
    <3>5. ResultsAreOfLatestRun'
      BY <2>1, <3>1
    <3>6. QED
      BY <3>2, <3>3, <3>4, <3>5
  <2>5. QED
    BY <2>3, <2>4
<1>6. ASSUME NEW h \in Handlers, ReplayCounts(h) PROVE LatestInv'
  BY <1>6 DEF ReplayCounts, Respond, Free, HandlerRec
<1>7. ASSUME NEW h \in Handlers, ReplayCreates(h) PROVE LatestInv'
  <2>1. RequestsAlone'
    BY <1>7 DEF ReplayCreates, Respond, Free
  <2>2. CASE UNCHANGED <<status, replays>>
    BY <1>7, <2>1, <2>2 DEF ReplayCreates, PollerTypes
  <2>3. CASE \E r \in Suites : /\ status[r] = "unused"
                               /\ status' = [status EXCEPT ![r] = "running"]
                               /\ OthersReplay(r)
    <3>1. PICK r \in Suites : /\ status[r] = "unused"
                              /\ status' = [status EXCEPT ![r] = "running"]
                              /\ OthersReplay(r)
      BY <2>3
    <3>2. UNCHANGED <<jobId, results, pollers>>
      BY <1>7 DEF ReplayCreates
    <3>3. ResultsAreOfLatestRun'
      BY <3>1, <3>2
    <3>4. PollersOwn'
      BY <3>1, <3>2 DEF PollerTypes
    <3>5. ReplaysOwn'
      BY <3>1, <3>2 DEF OthersReplay
    <3>6. QED
      BY <2>1, <3>3, <3>4, <3>5
  <2>4. QED
    BY <1>7, <2>2, <2>3 DEF ReplayCreates, OthersReplay, TaskTypes
<1>8. ASSUME NEW j \in Jobs, PollStep(j) PROVE LatestInv'
  <2>1. /\ pollers[j].suite \in Suites
        /\ OthersPoll(j)
        /\ pollers[j].at # "off"
        /\ pollers'[j].at # "off" => pollers'[j].suite = pollers[j].suite
    BY <1>8, PollStepEffect DEF PollerEffect, PollerTypes
  <2>2. UNCHANGED <<jobId, handlers, replays>>
    BY <1>8 DEF PollStep, PollsStatus, FetchesResult, PersistsResults,
                FetchesRequests, ClearsLogs, InsertsLogs, PollerFails
  <2>3. CASE PollsStatus(j) \/ FetchesResult(j) \/ FetchesRequests(j)
    <3>1. UNCHANGED <<status, results>>
      BY <2>3 DEF PollsStatus, FetchesResult, FetchesRequests
    <3>2. pollers'[j].at \in Deciding => pollers[j].at \in Deciding
      <4>1. CASE PollsStatus(j) \/ FetchesResult(j)
        BY <4>1 DEF PollsStatus, FetchesResult
      <4>2. CASE FetchesRequests(j) /\ Poller(j, "clear")
        BY <2>1, <4>2, PollerAt DEF PollerStages
      <4>3. CASE FetchesRequests(j) /\ pollers' = [pollers EXCEPT ![j] = NoPoll]
        BY <4>3, PollerEnds
      <4>4. QED
        BY <2>3, <4>1, <4>2, <4>3 DEF FetchesRequests
    <3>3. QED
      BY <2>1, <2>2, <3>1, <3>2 DEF OthersPoll, PollerTypes
  <2>4. CASE ClearsLogs(j) \/ InsertsLogs(j)
    <3>1. UNCHANGED <<status, results>>
      BY <2>4 DEF ClearsLogs, InsertsLogs
    <3>2. pollers'[j].at \in Deciding => ~Exists(pollers[j].suite)
      BY <2>4 DEF ClearsLogs, InsertsLogs, NoPoll, Polling, PollerTypes
    <3>3. QED
      BY <2>1, <2>2, <3>1, <3>2 DEF OthersPoll, PollerTypes
  <2>5. CASE PersistsResults(j)
    <3>1. CASE Exists(pollers[j].suite)
      <4>1. /\ status' = [status EXCEPT ![pollers[j].suite] = "completed"]
            /\ results' = [results EXCEPT ![pollers[j].suite] = j]
            /\ pollers'[j].at = "requests"
        BY <2>5, <3>1 DEF PersistsResults, Poller, PollerTypes, PollerRec
      <4>2. jobId[pollers[j].suite] = j
        BY <2>1, <2>5, <3>1 DEF PersistsResults
      <4>3. PollersOwn'
        BY <2>1, <2>2, <3>1, <4>1, <4>2 DEF OthersPoll, PollerTypes
      <4>4. QED
        BY <2>1, <2>2, <3>1, <4>1, <4>2, <4>3
    <3>2. CASE ~Exists(pollers[j].suite)
      <4>1. UNCHANGED <<status, results>>
        BY <2>5, <3>2 DEF PersistsResults
      <4>2. QED
        BY <2>1, <2>2, <3>2, <4>1 DEF OthersPoll, PollerTypes
    <3>3. QED
      BY <3>1, <3>2
  <2>6. CASE PollerFails(j)
    <3>1. CASE Exists(pollers[j].suite)
      <4>1. /\ status' = [status EXCEPT ![pollers[j].suite] = "failed"]
            /\ pollers'[j].at = "off"
            /\ UNCHANGED results
        BY <2>6, <3>1 DEF PollerFails, MarkFailed, NoPoll, Polling, PollerTypes
      <4>2. jobId[pollers[j].suite] = j
        BY <2>1, <2>6, <3>1 DEF PollerFails
      <4>3. PollersOwn'
        BY <2>1, <2>2, <3>1, <4>1, <4>2 DEF OthersPoll, PollerTypes
      <4>4. QED
        BY <2>1, <2>2, <3>1, <4>1, <4>2, <4>3
    <3>2. CASE ~Exists(pollers[j].suite)
      <4>1. UNCHANGED <<status, results>>
        BY <2>6, <3>2 DEF PollerFails, MarkFailed
      <4>2. QED
        BY <2>1, <2>2, <3>2, <4>1 DEF OthersPoll, PollerTypes
    <3>3. QED
      BY <3>1, <3>2
  <2>7. QED
    BY <1>8, <2>3, <2>4, <2>5, <2>6 DEF PollStep
<1>9. ASSUME NEW r \in Suites, ReplayStep(r) PROVE LatestInv'
  <2>1. OthersReplay(r) /\ replays[r].at # "off"
    BY <1>9, ReplayStepEffect
  <2>2. UNCHANGED <<jobId, handlers, pollers>>
    BY <1>9 DEF ReplayStep, ReplayReads, ReplayStores, ReplayFinishes, ReplayFails
  <2>3. CASE ReplayReads(r) \/ ReplayStores(r)
    <3>1. UNCHANGED <<status, results>>
      BY <2>3 DEF ReplayReads, ReplayStores
    <3>2. QED
      BY <2>1, <2>2, <3>1 DEF OthersReplay, PollerTypes
  <2>4. CASE (ReplayFinishes(r) \/ ReplayFails(r)) /\ Exists(r)
    <3>1. status[r] = "running" /\ jobId[r] = "none"
      BY <2>1, <2>4
    <3>2. /\ replays'[r].at = "off"
          /\ \/ /\ status' = [status EXCEPT ![r] = "completed"]
                /\ results' = [results EXCEPT ![r] = "replay"]
             \/ /\ status' = [status EXCEPT ![r] = "failed"]
                /\ UNCHANGED results
      BY <2>4 DEF ReplayFinishes, ReplayFails, MarkFailed, NoTask, TaskTypes
    <3>3. QED
      BY <2>1, <2>2, <3>1, <3>2 DEF OthersReplay, PollerTypes
  <2>5. CASE (ReplayFinishes(r) \/ ReplayFails(r)) /\ ~Exists(r)
    <3>1. UNCHANGED <<status, results>>
      BY <2>5 DEF ReplayFinishes, ReplayFails, MarkFailed
    <3>2. QED
      BY <2>1, <2>2, <2>5, <3>1 DEF OthersReplay, PollerTypes
  <2>6. QED
    BY <1>9, <2>3, <2>4, <2>5 DEF ReplayStep
<1>10. CASE BackendRestarts
  BY <1>10 DEF BackendRestarts, Free, NoPoll, Polling, NoTask
<1>11. CASE EngineStep \/ UNCHANGED vars
  BY <1>11 DEF EngineStep, vars
<1>12. QED
  BY <1>1, <1>2, <1>3, <1>4, <1>5, <1>6, <1>7, <1>8, <1>9, <1>10, <1>11
     DEF Next, UserStep, HandlerStep

LEMMA LatestInit == Init => LatestInv
<1> SUFFICES ASSUME Init PROVE LatestInv
  OBVIOUS
<1>1. ResultsAreOfLatestRun
  BY DEF Init, ResultsAreOfLatestRun
<1>2. PollersOwn
  BY DEF Init, PollersOwn, NoPoll, Polling, Deciding
<1>3. ReplaysOwn
  BY DEF Init, ReplaysOwn, NoTask
<1>4. RequestsAlone
  BY DEF Init, RequestsAlone, RunningBy, Free
<1>5. QED
  BY <1>1, <1>2, <1>3, <1>4 DEF LatestInv

\* Where run requests for one row do not overlap and the database does not
\* fail, what a completed run shows is its latest job's, or its replay's:
\* whatever else the pollers, replays, removals and restarts do.
THEOREM ResultsBelongToLatestRun ==
    ASSUME Faults \cap {"overlap", "dbFail"} = {}
    PROVE  Spec => []ResultsAreOfLatestRun
<1>1. Types /\ LatestInv /\ [Next]_vars => LatestInv'
  BY LatestStep
<1>2. LatestInv => ResultsAreOfLatestRun
  BY DEF LatestInv
<1>3. QED
  BY <1>1, <1>2, LatestInit, TypesInvariant, PTL DEF Spec

\* Under the same assumption, a run reported completed is never taken back.
THEOREM CompletedRunsStay ==
    ASSUME Faults \cap {"overlap", "dbFail"} = {}
    PROVE  Spec => CompletedStays
<1> DEFINE Stays == \A s \in Suites : status[s] = "completed" =>
                       status'[s] \in {"completed", "running", "removed"}
<1>1. Types /\ LatestInv /\ [Next]_vars => Stays
  <2> SUFFICES ASSUME Types, LatestInv, [Next]_vars,
                      NEW s \in Suites, status[s] = "completed"
               PROVE  status'[s] \in {"completed", "running", "removed"}
    OBVIOUS
  <2> USE SuitesAssumption DEF row, tasks, engine, Types, RowTypes
  <2>1. ASSUME NEW t \in Suites, Create(t) \/ Remove(t)
        PROVE  status'[s] \in {"completed", "running", "removed"}
    BY <2>1 DEF Create, Remove
  <2>2. ASSUME NEW h \in Handlers, HandlerStep(h)
        PROVE  status'[s] \in {"completed", "running", "removed"}
    BY <2>2 DEF HandlerStep, RunStarts, RunCommits, ReplayCounts, ReplayCreates
  <2>3. ASSUME NEW j \in Jobs, PollStep(j)
        PROVE  status'[s] \in {"completed", "running", "removed"}
    <3>1. CASE PollerFails(j)
      <4>1. pollers[j].suite # s
        BY <3>1 DEF PollerFails, LatestInv, PollersOwn, Deciding, Exists
      <4>2. QED
        BY <3>1, <4>1 DEF PollerFails, MarkFailed
    <3>2. CASE ~PollerFails(j)
      BY <2>3, <3>2 DEF PollStep, PollsStatus, FetchesResult, PersistsResults,
                        FetchesRequests, ClearsLogs, InsertsLogs
    <3>3. QED
      BY <3>1, <3>2
  <2>4. ASSUME NEW r \in Suites, ReplayStep(r)
        PROVE  status'[s] \in {"completed", "running", "removed"}
    <3>1. CASE ReplayFails(r)
      <4>1. r # s
        BY <3>1 DEF ReplayFails, LatestInv, ReplaysOwn, Exists
      <4>2. QED
        BY <3>1, <4>1 DEF ReplayFails, MarkFailed
    <3>2. CASE ~ReplayFails(r)
      BY <2>4, <3>2 DEF ReplayStep, ReplayReads, ReplayStores, ReplayFinishes
    <3>3. QED
      BY <3>1, <3>2
  <2>5. QED
    BY <2>1, <2>2, <2>3, <2>4
       DEF Next, UserStep, RunChecks, ReplayChecks, BackendRestarts, EngineStep, vars
<1>2. Types /\ LatestInv /\ [Next]_vars => LatestInv'
  BY LatestStep
<1>3. Stays => [Stays]_vars
  OBVIOUS
<1>4. QED
  BY <1>1, <1>2, LatestInit, TypesInvariant, PTL DEF Spec, CompletedStays
=============================================================================
