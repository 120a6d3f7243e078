------------------------ MODULE SpecGenerations_proofs ------------------------
(***************************************************************************)
(* Theorems about SpecGenerations, for any number of jobs, requests being  *)
(* served, poll loops, polling attempts and faults.                        *)
(***************************************************************************)
EXTENDS SpecGenerations, TLAPS

RowRec == [id : Nat, status : {"absent", "running", "completed", "failed"},
           job : Jobs \cup {"none"}, doc : Jobs \cup {"none"}]

LoopRec == [id : Nat \ {0}, job : Jobs, at : Stages, attempt : 0..MaxAttempts]

RequestRec == [at : {"free", "starting", "storing", "attaching", "applying",
                     "dropping", "discarding", "cleaning"},
               id : Nat, job : Jobs \cup {"none"}]

\* What a request carries from one of its steps to the next.
Carries(p) ==
    /\ p.at \in {"storing", "attaching"} => p.job \in Jobs
    /\ p.at = "attaching" => p.id # 0

RowTypes ==
    /\ row \in RowRec
    /\ row.id = 0 => row = NoRow
    /\ row.status = "running" => row.job \in Jobs

RequestTypes ==
    /\ requests \in [Handlers -> RequestRec]
    /\ \A h \in Handlers : Carries(requests[h])

Types ==
    /\ RowTypes
    /\ lastId \in Nat
    /\ loops \subseteq LoopRec
    /\ RequestTypes

-----------------------------------------------------------------------------
(* What the steps share.                                                   *)

LEMMA SetRequest ==
    ASSUME RequestTypes, NEW h \in Handlers, NEW p \in RequestRec,
           Carries(p),
           requests' = [requests EXCEPT ![h] = p]
    PROVE  RequestTypes'
  BY DEF RequestTypes

LEMMA Responded ==
    ASSUME RequestTypes, NEW h \in Handlers, Respond(h)
    PROVE  RequestTypes'
<1>1. Free \in RequestRec /\ Carries(Free)
  BY DEF Free, RequestRec, Carries
<1>2. QED
  BY <1>1, SetRequest DEF Respond

\* Whatever a loop does, the others stay as they are and it is gone or is the
\* same loop further on.
LEMMA LoopSteps ==
    ASSUME loops \subseteq LoopRec, NEW l \in loops, LoopStep(l)
    PROVE  /\ loops' \subseteq LoopRec
           /\ UNCHANGED lastId
           /\ \/ row' = row
              \/ /\ row.id = l.id
                 /\ \/ row' = [row EXCEPT !.status = "completed", !.doc = l.job]
                    \/ row' = [row EXCEPT !.status = "failed"]
           /\ UNCHANGED requests \/ requests' = [h \in Handlers |-> Free]
<1> USE GenerationsAssumption DEF LoopRec, Stages, Loop
<1>1. l \in LoopRec
  OBVIOUS
<1>2. TickAgain(l) => loops' \subseteq LoopRec
  BY <1>1 DEF TickAgain, MarksFailedNext, Moves
<1>3. ASSUME NEW at \in Stages PROVE Moves(l, at) => loops' \subseteq LoopRec
  BY <1>1 DEF Moves
<1>4. CASE Polls(l) \/ FetchesResult(l)
  BY <1>2, <1>3, <1>4 DEF Polls, FetchesResult, MarksFailedNext, Ends
<1>5. CASE PersistsResult(l) \/ Forgets(l)
  BY <1>3, <1>5 DEF PersistsResult, Forgets, MarksFailedNext, Ends
<1>6. CASE MarksFailed(l)
  BY <1>2, <1>3, <1>6 DEF MarksFailed, RowMarkedFailed, Ends
<1>7. CASE GivesUp(l)
  BY <1>7 DEF GivesUp, RowMarkedFailed, BackendStops, Ends
<1>8. QED
  BY <1>4, <1>5, <1>6, <1>7 DEF LoopStep

-----------------------------------------------------------------------------
LEMMA TypesInvariant == Spec => []Types
<1>1. Init => Types
  BY DEF Init, Types, RowTypes, RequestTypes, RowRec, RequestRec, NoRow, Free, Carries
<1>2. Types /\ [Next]_vars => Types'
  <2> SUFFICES ASSUME Types, [Next]_vars PROVE Types'
    OBVIOUS
  <2> USE DEF Types
  <2>1. ASSUME NEW h \in Handlers, UserStep(h) PROVE Types'
    <3>1. UNCHANGED <<row, lastId, loops>>
      BY <2>1 DEF UserStep, StartChecks, Reads, ApplyReads, DiscardReads
    <3>2. CASE Reads(h)
      <4> DEFINE p == [at |-> "attaching", id |-> row.id, job |-> row.job]
      <4>1. row.id # 0 /\ row.job \in Jobs
        BY <3>2 DEF Reads, RowTypes, NoRow
      <4>2. p \in RequestRec /\ Carries(p)
        BY <4>1 DEF RowTypes, RowRec, RequestRec, Carries
      <4>3. requests' = [requests EXCEPT ![h] = p]
        BY <3>2 DEF Reads, Request
      <4>4. QED
        BY <3>1, <4>2, <4>3, SetRequest DEF RowTypes
    <3>3. CASE StartChecks(h) \/ ApplyReads(h) \/ DiscardReads(h)
      <4>1. ASSUME NEW at \in {"starting", "applying", "discarding"}, NEW id \in Nat,
                   NEW j \in Jobs \cup {"none"}, Request(h, at, id, j)
            PROVE  RequestTypes'
        BY <4>1, SetRequest DEF Request, RequestRec, Carries
      <4>2. row.id \in Nat /\ row.job \in Jobs \cup {"none"}
        BY DEF RowTypes, RowRec
      <4>3. RequestTypes'
        BY <3>3, <4>1, <4>2 DEF StartChecks, ApplyReads, DiscardReads
      <4>4. QED
        BY <3>1, <4>3 DEF RowTypes
    <3>4. QED
      BY <2>1, <3>2, <3>3 DEF UserStep
  <2>2. ASSUME NEW h \in Handlers, StartHandsOver(h) PROVE Types'
    <3>1. UNCHANGED <<row, lastId, loops>>
      BY <2>2 DEF StartHandsOver
    <3>2. RequestTypes'
      BY <2>2, SetRequest, Responded DEF StartHandsOver, Request, RequestRec, Carries
    <3>3. QED
      BY <3>1, <3>2 DEF RowTypes
  <2>3. ASSUME NEW h \in Handlers, StartStores(h) PROVE Types'
    <3>1. RequestTypes'
      BY <2>3, Responded DEF StartStores
    <3>2. requests[h].job \in Jobs
      BY <2>3 DEF StartStores, RequestTypes, Carries
    <3>3. lastId' \in Nat /\ RowTypes'
      BY <2>3, <3>2 DEF StartStores, RowTypes, RowRec, NoRow
    <3>4. loops' \subseteq LoopRec
      BY <2>3, <3>2, GenerationsAssumption
      DEF StartStores, BeginPolling, Loop, LoopRec, Stages, RowTypes, RowRec
    <3>5. QED
      BY <3>1, <3>3, <3>4
  <2>4. ASSUME NEW h \in Handlers, EnsurePolling(h) PROVE Types'
    <3>1. RequestTypes'
      BY <2>4, Responded DEF EnsurePolling
    <3>2. requests[h].job \in Jobs /\ requests[h].id \in Nat \ {0}
      BY <2>4 DEF EnsurePolling, RequestTypes, RequestRec, Carries
    <3>3. loops' \subseteq LoopRec
      BY <2>4, <3>2, GenerationsAssumption DEF EnsurePolling, BeginPolling, Loop,
         LoopRec, Stages
    <3>4. UNCHANGED <<row, lastId>>
      BY <2>4 DEF EnsurePolling
    <3>5. QED
      BY <3>1, <3>3, <3>4 DEF RowTypes
  <2>5. ASSUME NEW h \in Handlers, ApplyStoresSpec(h) \/ DiscardCleansUp(h) PROVE Types'
    <3>1. UNCHANGED <<row, lastId, loops>>
      BY <2>5 DEF ApplyStoresSpec, DiscardCleansUp
    <3>2. RequestTypes'
      BY <2>5, SetRequest, Responded DEF ApplyStoresSpec, DiscardCleansUp, Request,
         RequestTypes, RequestRec, Carries
    <3>3. QED
      BY <3>1, <3>2 DEF RowTypes
  <2>6. ASSUME NEW h \in Handlers, ApplyDropsRow(h) \/ DiscardDropsRow(h) PROVE Types'
    <3>1. UNCHANGED <<lastId, loops>> /\ (row' = NoRow \/ row' = row)
      BY <2>6 DEF ApplyDropsRow, DiscardDropsRow, DropsRow
    <3>2. RequestTypes'
      BY <2>6, SetRequest, Responded DEF ApplyDropsRow, DiscardDropsRow, DropsRow,
         Request, RequestTypes, RequestRec, Carries
    <3>3. RowTypes'
      BY <3>1 DEF RowTypes, RowRec, NoRow
    <3>4. QED
      BY <3>1, <3>2, <3>3
  <2>7. ASSUME NEW l \in loops, LoopStep(l) PROVE Types'
    <3>1. /\ loops' \subseteq LoopRec
          /\ UNCHANGED lastId
      BY <2>7, LoopSteps
    <3>2. l.job \in Jobs /\ l.id # 0
      BY DEF LoopRec
    <3>3. RowTypes'
      <4>1. CASE row' = row
        BY <4>1 DEF RowTypes
      <4>2. CASE row.id = l.id /\ row' = [row EXCEPT !.status = "completed", !.doc = l.job]
        BY <3>2, <4>2 DEF RowTypes, RowRec
      <4>3. CASE row.id = l.id /\ row' = [row EXCEPT !.status = "failed"]
        BY <3>2, <4>3 DEF RowTypes, RowRec
      <4>4. QED
        BY <2>7, <4>1, <4>2, <4>3, LoopSteps
    <3>4. RequestTypes'
      <4>1. UNCHANGED requests \/ requests' = [k \in Handlers |-> Free]
        BY <2>7, LoopSteps
      <4>2. QED
        BY <4>1 DEF RequestTypes, RequestRec, Free, Carries
    <3>5. QED
      BY <3>1, <3>3, <3>4
  <2>8. CASE BackendRestarts
    BY <2>8 DEF BackendRestarts, BackendStops, RowTypes, RequestTypes, RequestRec,
       Free, Carries
  <2>9. CASE EngineStep \/ UNCHANGED vars
    BY <2>9 DEF EngineStep, vars, RowTypes, RequestTypes
  <2>10. QED
    BY <2>1, <2>2, <2>3, <2>4, <2>5, <2>6, <2>7, <2>8, <2>9 DEF Next, HandlerStep
<1>3. QED
  BY <1>1, <1>2, PTL DEF Spec

-----------------------------------------------------------------------------
\* An id in the set of polled ids has a loop that polls for it, whatever
\* requests, loops and restarts interleave: the row of a generation that is
\* running can always be attached to again.
THEOREM PolledIdsAreLive == Spec => []PollingIsLive
<1> DEFINE Live == {"wait", "result", "persist", "forgetting"}
<1>1. Init => PollingIsLive
  BY DEF Init, PollingIsLive
<1>2. PollingIsLive /\ [Next]_vars => PollingIsLive'
  <2> SUFFICES ASSUME PollingIsLive, [Next]_vars PROVE PollingIsLive'
    OBVIOUS
  <2> USE DEF PollingIsLive
  \* Nothing but more loops, or fewer ids.
  <2>1. ASSUME loops \subseteq loops', polling' \subseteq polling PROVE PollingIsLive'
    BY <2>1
  <2>2. ASSUME NEW id, NEW j, BeginPolling(id, j) PROVE PollingIsLive'
    <3>1. Loop(id, j, "wait", 0) \in loops' /\ loops \subseteq loops'
      BY <2>2 DEF BeginPolling
    <3>2. Loop(id, j, "wait", 0).id = id /\ Loop(id, j, "wait", 0).at = "wait"
      BY DEF Loop
    <3>3. QED
      BY <2>2, <3>1, <3>2 DEF BeginPolling
  <2>3. ASSUME NEW h \in Handlers, UserStep(h) \/ HandlerStep(h) PROVE PollingIsLive'
    <3>1. CASE StartStores(h) \/ EnsurePolling(h)
      BY <2>1, <2>2, <3>1 DEF StartStores, EnsurePolling
    <3>2. CASE ApplyDropsRow(h) \/ DiscardDropsRow(h)
      BY <2>1, <3>2 DEF ApplyDropsRow, DiscardDropsRow, DropsRow
    <3>3. CASE UserStep(h) \/ StartHandsOver(h) \/ ApplyStoresSpec(h) \/ DiscardCleansUp(h)
      BY <2>1, <3>3 DEF UserStep, StartChecks, Reads, ApplyReads, DiscardReads,
         StartHandsOver, ApplyStoresSpec, DiscardCleansUp
    <3>4. QED
      BY <2>3, <3>1, <3>2, <3>3 DEF HandlerStep
  \* A loop goes on in the same place, or its id is no longer polled, or it
  \* was not polling any more.
  <2>4. ASSUME NEW l \in loops, NEW m, m.id = l.id, m.at \in Live,
               loops' = (loops \ {l}) \cup {m}, polling' \subseteq polling
        PROVE  PollingIsLive'
    BY <2>4
  <2>5. ASSUME NEW l \in loops, loops \ {l} \subseteq loops',
               polling' \subseteq polling,
               l.id \notin polling' \/ l.at \notin Live
        PROVE  PollingIsLive'
    BY <2>5
  <2>6. ASSUME NEW l \in loops, TickAgain(l) PROVE PollingIsLive'
    <3>1. CASE l.attempt + 1 >= MaxAttempts
      BY <2>5, <2>6, <3>1 DEF TickAgain, MarksFailedNext, Moves
    <3>2. CASE ~(l.attempt + 1 >= MaxAttempts)
      BY <2>4, <2>6, <3>2 DEF TickAgain, Loop
    <3>3. QED
      BY <3>1, <3>2
  <2>7. ASSUME NEW l \in loops, LoopStep(l) PROVE PollingIsLive'
    <3>1. CASE Polls(l) \/ FetchesResult(l)
      <4>1. CASE TickAgain(l)
        BY <2>6, <4>1
      <4>2. CASE \E at \in {"result", "persist"} : Moves(l, at) /\ UNCHANGED polling
        BY ZenonT(60), <2>4, <4>2 DEF Moves, Loop
      <4>3. CASE MarksFailedNext(l, "marking")
        BY <2>5, <4>3 DEF MarksFailedNext, Moves
      <4>4. CASE l.id \notin polling /\ Ends(l) /\ UNCHANGED polling
        BY <2>5, <4>4 DEF Ends
      <4>5. QED
        BY <3>1, <4>1, <4>2, <4>3, <4>4 DEF Polls, FetchesResult
    <3>2. CASE PersistsResult(l)
      BY <2>4, <2>5, <3>2 DEF PersistsResult, MarksFailedNext, Moves, Loop
    <3>3. CASE MarksFailed(l)
      BY <2>4, <2>5, <2>6, <3>3 DEF MarksFailed, Moves, Loop, Ends
    <3>4. CASE Forgets(l)
      BY <2>5, <3>4 DEF Forgets, Ends
    <3>5. CASE GivesUp(l)
      BY <2>5, <3>5 DEF GivesUp, Ends, BackendStops
    <3>6. QED
      BY <2>7, <3>1, <3>2, <3>3, <3>4, <3>5 DEF LoopStep
  <2>8. CASE BackendRestarts
    BY <2>8 DEF BackendRestarts, BackendStops
  <2>9. CASE EngineStep \/ UNCHANGED vars
    BY <2>1, <2>9 DEF EngineStep, vars
  <2>10. QED
    BY <2>3, <2>7, <2>8, <2>9 DEF Next
<1>3. QED
  BY <1>1, <1>2, PTL DEF Spec

-----------------------------------------------------------------------------
\* No late answer of the engine-service brings back a generation that was
\* discarded or applied: a row appears only with an id never used before, and
\* running.
THEOREM DroppedIsGone == Spec => DroppedStaysDropped
<1> DEFINE Fresh == row'.id # row.id /\ row'.id # 0
                        => row'.id > lastId /\ row'.status = "running"
<1>1. Types /\ [Next]_vars => [Fresh]_vars
  <2> SUFFICES ASSUME Types, [Next]_vars PROVE Fresh
    OBVIOUS
  <2>1. ASSUME NEW h \in Handlers, UserStep(h) \/ HandlerStep(h) PROVE Fresh
    <3>1. CASE StartStores(h)
      BY <3>1 DEF StartStores, Types
    <3>2. CASE ApplyDropsRow(h) \/ DiscardDropsRow(h)
      BY <3>2 DEF ApplyDropsRow, DiscardDropsRow, DropsRow, NoRow
    <3>3. CASE UNCHANGED row
      BY <3>3
    <3>4. QED
      BY <2>1, <3>1, <3>2, <3>3 DEF UserStep, StartChecks, Reads, ApplyReads,
         DiscardReads, HandlerStep, StartHandsOver, EnsurePolling, ApplyStoresSpec,
         DiscardCleansUp
  <2>2. ASSUME NEW l \in loops, LoopStep(l) PROVE row'.id = row.id
    BY <2>2, LoopSteps DEF Types, RowTypes, RowRec
  <2>3. CASE BackendRestarts \/ EngineStep \/ UNCHANGED vars
    BY <2>3 DEF BackendRestarts, EngineStep, vars
  <2>4. QED
    BY <2>1, <2>2, <2>3 DEF Next
<1>2. QED
  BY <1>1, TypesInvariant, PTL DEF Spec, DroppedStaysDropped
=============================================================================
