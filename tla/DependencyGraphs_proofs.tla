----------------------- MODULE DependencyGraphs_proofs -----------------------
(***************************************************************************)
(* Theorems about dependency graphs: first about the rows, builds and      *)
(* pollers of DependencyGraphs, for any number of jobs, requests,          *)
(* specifications, polling attempts and faults; then about the merge of    *)
(* GraphMerge, for every static graph and every Q-table.                   *)
(***************************************************************************)
EXTENDS DependencyGraphs, GraphMerge, SequenceTheorems, FiniteSetTheorems,
        WellFoundedInduction, TLAPS

RequestRec == [at : {"free", "read", "checked", "started"}, spec : Nat,
               job : Jobs \cup {"none"}]
PollerRec  == [at : {"off", "wait", "result", "persist", "failing"}, attempt : Nat]
RowRec     == [status : {"absent", "running", "ready", "failed"}, graph : Nat]

\* The part of the type invariant the other proofs rest on.
Types ==
    /\ spec \in Nat
    /\ specs \in Nat
    /\ row \in RowRec
    /\ built \in [Jobs -> Nat]
    /\ requests \in [Handlers -> RequestRec]
    /\ \A h \in Handlers : requests[h].at = "started" => requests[h].job \in Jobs
    /\ pollers \in [Jobs -> PollerRec]

LEMMA TypesInvariant == Spec => []Types
<1> USE GraphsAssumption DEF Types, RowRec, NoRow, Building, Free, NoPoll, Polling,
        service, engine
<1>1. Init => Types
  BY DEF Init, RequestRec, PollerRec
<1>2. Types /\ [Next]_vars => Types'
  <2> SUFFICES ASSUME Types, [Next]_vars PROVE Types'
    OBVIOUS
  <2>1. CASE SpecStep
    BY <2>1 DEF SpecStep, ReplaceSpec, RemoveSpec
  <2>2. ASSUME NEW h \in Handlers, BuildReads(h) \/ BuildChecks(h) PROVE Types'
    BY <2>2 DEF BuildReads, BuildChecks, Respond, RequestRec
  <2>3. ASSUME NEW h \in Handlers, BuildStarts(h) PROVE Types'
    <3>1. UNCHANGED <<spec, specs, row, pollers>>
      BY <2>3 DEF BuildStarts
    <3>2. built' \in [Jobs -> Nat]
      BY <2>3 DEF BuildStarts, RequestRec
    <3>3. \/ requests' = [requests EXCEPT ![h] = Free]
          \/ \E j \in Jobs : requests' = [requests EXCEPT ![h] =
                [at |-> "started", spec |-> requests[h].spec, job |-> j]]
      BY <2>3 DEF BuildStarts, Respond
    <3>4. QED
      BY <3>1, <3>2, <3>3 DEF RequestRec
  <2>4. ASSUME NEW h \in Handlers, BuildCommits(h) PROVE Types'
    <3>1. requests' = [requests EXCEPT ![h] = Free]
      BY <2>4 DEF BuildCommits, Respond
    <3>2. row' \in RowRec
      BY <2>4 DEF BuildCommits
    <3>3. pollers' \in [Jobs -> PollerRec]
      BY <2>4 DEF BuildCommits, PollerRec
    <3>4. UNCHANGED <<spec, specs, built>>
      BY <2>4 DEF BuildCommits
    <3>5. QED
      BY <3>1, <3>2, <3>3, <3>4 DEF RequestRec
  <2>5. ASSUME NEW j \in Jobs, PollsStatus(j) \/ FetchesGraph(j) PROVE Types'
    <3>1. pollers[j].attempt \in Nat
      BY DEF PollerRec
    <3>2. pollers' \in [Jobs -> PollerRec]
      BY <2>5, <3>1 DEF PollsStatus, FetchesGraph, Poller, TickAgain, PollerRec
    <3>3. UNCHANGED <<spec, specs, row, built, requests>>
      BY <2>5 DEF PollsStatus, FetchesGraph
    <3>4. QED
      BY <3>2, <3>3
  <2>6. ASSUME NEW j \in Jobs, PersistsGraph(j) \/ MarksFailed(j) PROVE Types'
    <3>1. pollers' \in [Jobs -> PollerRec]
      BY <2>6 DEF PersistsGraph, MarksFailed, UpdatesRow, PollerEnds, PollerRec
    <3>2. row' \in RowRec
      BY <2>6 DEF PersistsGraph, MarksFailed, UpdatesRow
    <3>3. UNCHANGED <<spec, specs, built, requests>>
      BY <2>6 DEF PersistsGraph, MarksFailed, UpdatesRow
    <3>4. QED
      BY <3>1, <3>2, <3>3
  <2>7. CASE BackendRestarts
    BY <2>7 DEF BackendRestarts, RequestRec, PollerRec
  <2>8. CASE EngineStep \/ UNCHANGED vars
    BY <2>8 DEF EngineStep, vars
  <2>9. QED
    BY <2>1, <2>2, <2>3, <2>4, <2>5, <2>6, <2>7, <2>8 DEF Next, BuildStep, PollStep
<1>3. QED
  BY <1>1, <1>2, PTL DEF Spec

-----------------------------------------------------------------------------
(* Everything in flight is about the specification stored last or about    *)
(* one that was overtaken, and so is the row: a replacement takes the row  *)
(* away and marks what is in flight.                                       *)

\* The specifications that a request, a poller or the row may be about.
Accounted == {specs} \cup overtaken

LatestInv ==
    /\ spec \in {0, specs}
    /\ row.graph = 0 \/ row.graph \in Accounted
    /\ \A h \in Handlers :
          /\ requests[h] # Free => requests[h].spec \in Accounted
          /\ requests[h].at = "started" =>
                /\ requests[h].job \in submitted
                /\ built[requests[h].job] = requests[h].spec
    /\ \A j \in Jobs : pollers[j] # NoPoll => built[j] \in Accounted

LEMMA LatestInvariant == Spec => []LatestInv
<1> USE GraphsAssumption DEF Types, LatestInv, RowRec, NoRow, Building, Free, NoPoll,
        Polling
<1>1. Init => LatestInv
  BY DEF Init
<1>2. Types /\ LatestInv /\ [Next]_vars => LatestInv'
  <2> SUFFICES ASSUME Types, LatestInv, [Next]_vars PROVE LatestInv'
    OBVIOUS
  <2>a. specs \in Accounted
    BY DEF Accounted
  <2>b. ASSUME UNCHANGED service PROVE spec' = spec /\ specs' = specs /\ Accounted' = Accounted
    BY <2>b DEF service, Accounted
  <2>1. CASE ReplaceSpec
    <3>1. \A h \in Handlers : requests[h] # Free => requests[h].spec \in InFlight
      BY DEF InFlight
    <3>2. \A j \in Jobs : pollers[j] # NoPoll => built[j] \in InFlight
      BY DEF InFlight
    <3>3. InFlight \subseteq Accounted' /\ Accounted \ {specs} \subseteq Accounted'
      BY <2>1 DEF ReplaceSpec, Accounted
    <3>4. QED
      BY <2>1, <3>1, <3>2, <3>3 DEF ReplaceSpec, engine
  <2>2. CASE RemoveSpec
    <3>1. Accounted' = Accounted
      BY <2>2 DEF RemoveSpec, Accounted
    <3>2. QED
      BY <2>2, <3>1 DEF RemoveSpec, engine
  <2>3. ASSUME NEW h \in Handlers, BuildReads(h) \/ BuildChecks(h) PROVE LatestInv'
    <3>1. UNCHANGED <<service, row, built, pollers, submitted>>
      BY <2>3 DEF BuildReads, BuildChecks, engine
    <3>2. PICK r \in RequestRec :
             /\ requests' = [requests EXCEPT ![h] = r]
             /\ r.at # "started"
             /\ r # Free => r.spec \in Accounted
      BY <2>3, <2>a DEF BuildReads, BuildChecks, Respond, RequestRec
    <3>3. QED
      BY <2>b, <3>1, <3>2
  <2>4. ASSUME NEW h \in Handlers, BuildStarts(h) PROVE LatestInv'
    <3>1. UNCHANGED <<service, row, pollers>> /\ requests[h] # Free
      BY <2>4 DEF BuildStarts
    <3>2. CASE /\ UNCHANGED <<built, submitted>>
               /\ requests' = [requests EXCEPT ![h] = Free]
      BY <2>b, <3>1, <3>2
    <3>3. ASSUME NEW j \in Jobs,
                 j \notin submitted,
                 submitted' = submitted \cup {j},
                 built' = [built EXCEPT ![j] = requests[h].spec],
                 \/ requests' = [requests EXCEPT ![h] =
                        [at |-> "started", spec |-> requests[h].spec, job |-> j]]
                 \/ requests' = [requests EXCEPT ![h] = Free]
          PROVE  LatestInv'
      <4>1. \A k \in Jobs : built'[k] \in Accounted \/ built'[k] = built[k]
        BY <3>1, <3>3
      <4>2. built'[j] \in Accounted
        BY <3>1, <3>3
      <4>3. QED
        BY <2>b, <3>1, <3>3, <4>1, <4>2
    <3>4. QED
      BY <2>4, <3>2, <3>3 DEF BuildStarts, Respond, engine, Engine!Submit
  <2>5. ASSUME NEW h \in Handlers, BuildCommits(h) PROVE LatestInv'
    <3>1. /\ requests' = [requests EXCEPT ![h] = Free]
          /\ UNCHANGED <<service, built, submitted>>
          /\ built[requests[h].job] \in Accounted
      BY <2>5 DEF BuildCommits, Respond, engine
    <3>2. row'.graph \in {0, row.graph}
      BY <2>5 DEF BuildCommits
    <3>3. \A j \in Jobs : pollers'[j] = pollers[j] \/ j = requests[h].job
      BY <2>5 DEF BuildCommits
    <3>4. QED
      BY <2>b, <3>1, <3>2, <3>3
  <2>6. ASSUME NEW j \in Jobs, PollsStatus(j) \/ FetchesGraph(j) PROVE LatestInv'
    <3>1. /\ \A k \in Jobs : k # j => pollers'[k] = pollers[k]
          /\ pollers[j] # NoPoll
          /\ UNCHANGED <<service, row, built, requests, submitted>>
      BY <2>6 DEF PollsStatus, FetchesGraph, Poller, TickAgain, engine
    <3>2. QED
      BY <2>b, <3>1
  <2>7. ASSUME NEW j \in Jobs, PersistsGraph(j) \/ MarksFailed(j) PROVE LatestInv'
    <3>1. /\ \A k \in Jobs : k # j => pollers'[k] = pollers[k]
          /\ pollers[j] # NoPoll
          /\ UNCHANGED <<service, built, requests, submitted>>
      BY <2>7 DEF PersistsGraph, MarksFailed, UpdatesRow, PollerEnds, engine
    <3>2. row'.graph \in {0, row.graph, built[j]}
      BY <2>7 DEF PersistsGraph, MarksFailed, UpdatesRow
    <3>3. QED
      BY <2>b, <3>1, <3>2
  <2>8. CASE BackendRestarts
    <3>1. UNCHANGED <<service, row, built>>
      BY <2>8 DEF BackendRestarts
    <3>2. QED
      BY <2>8, <2>b, <3>1 DEF BackendRestarts
  <2>9. CASE EngineStep \/ UNCHANGED vars
    <3>1. /\ UNCHANGED <<service, row, built, requests, pollers>>
          /\ submitted \subseteq submitted'
      BY <2>9 DEF EngineStep, vars, service, Engine!Start, Engine!Finish, Engine!Retract,
                  Engine!Restart
    <3>2. QED
      BY <2>b, <3>1
  <2>10. QED
    BY <2>1, <2>2, <2>3, <2>4, <2>5, <2>6, <2>7, <2>8, <2>9
    DEF Next, SpecStep, BuildStep, PollStep
<1>3. QED
  BY <1>1, <1>2, TypesInvariant, PTL DEF Spec

\* A stale graph is one of a specification that was replaced with a build of it
\* in flight, for any number of replacements at any time, overlapping build
\* requests, late pollers, failures, removals and restarts.
THEOREM GraphsAreStaleOnlyIfOvertaken == Spec => []StaleOnlyIfOvertaken
<1>1. Types /\ LatestInv => StaleOnlyIfOvertaken
  BY DEF Types, RowRec, LatestInv, Accounted, StaleOnlyIfOvertaken
<1>2. QED
  BY <1>1, TypesInvariant, LatestInvariant, PTL

\* A row that says running shows no graph, even where builds of different
\* specifications overlap.
THEOREM RunningRowsAreEmpty == Spec => []RunningShowsNoGraph
<1> USE DEF RunningShowsNoGraph, Types, RowRec, NoRow, Building
<1>1. Init => RunningShowsNoGraph
  BY DEF Init
<1>2. Types /\ RunningShowsNoGraph /\ [Next]_vars => RunningShowsNoGraph'
  <2> SUFFICES ASSUME Types, RunningShowsNoGraph, [Next]_vars
               PROVE  RunningShowsNoGraph'
    OBVIOUS
  <2>1. CASE SpecStep
    BY <2>1 DEF SpecStep, ReplaceSpec, RemoveSpec
  <2>2. ASSUME NEW h \in Handlers, BuildStep(h) PROVE RunningShowsNoGraph'
    BY <2>2 DEF BuildStep, BuildReads, BuildChecks, BuildStarts, BuildCommits
  <2>3. ASSUME NEW j \in Jobs, PollStep(j) PROVE RunningShowsNoGraph'
    BY <2>3 DEF PollStep, PollsStatus, FetchesGraph, PersistsGraph, MarksFailed, UpdatesRow
  <2>4. CASE BackendRestarts \/ EngineStep \/ UNCHANGED vars
    BY <2>4 DEF BackendRestarts, EngineStep, vars
  <2>5. QED
    BY <2>1, <2>2, <2>3, <2>4 DEF Next
<1>3. QED
  BY <1>1, <1>2, TypesInvariant, PTL DEF Spec

-----------------------------------------------------------------------------
(* The merge.  Its functions fold over lists: a fold is the last of a row  *)
(* of results, one for each prefix of its list, so that a set of prefixes  *)
(* that holds the empty one and with each the next holds the whole.        *)

\* Induction over the numbers, of a set of them.
LEMMA LeastOfSome ==
  ASSUME NEW T \in SUBSET Nat, T # {} PROVE \E m \in T : \A n \in T : m <= n
<1> DEFINE R == OpToRel(<, Nat)
<1>1. \A a, b \in Nat : <<a, b>> \in R <=> a < b
  BY DEF OpToRel
<1>2. IsWellFoundedOn(R, Nat)
  BY NatLessThanWellFounded
<1> HIDE DEF R
<1>3. PICK m \in T : \A n \in T : ~(<<n, m>> \in R)
  BY <1>2, WFMin
<1>4. ASSUME NEW n \in T PROVE m <= n
  <2>1. n \in Nat /\ m \in Nat /\ ~(n < m)
    BY <1>1, <1>3
  <2> QED  BY <2>1
<1> QED  BY <1>4

\* A set that holds 0, and with each number the next, holds them all.
LEMMA AllOfThem ==
  ASSUME NEW N \in Nat, NEW T, 0 \in T, \A n \in 1..N : n - 1 \in T => n \in T
  PROVE  0..N \subseteq T
<1> SUFFICES ASSUME (0..N) \ T # {} PROVE FALSE
  OBVIOUS
<1>1. PICK m \in (0..N) \ T : \A n \in (0..N) \ T : m <= n
  <2>1. (0..N) \ T \in SUBSET Nat
    OBVIOUS
  <2> QED  BY <2>1, LeastOfSome
<1>2. m \in 1..N /\ m - 1 \in 0..N
  BY <1>1
<1> QED  BY <1>1, <1>2

\* A recursion over the prefixes of a sequence has a solution.
Solves(g, V, N, base, step) ==
    /\ g \in [0..N -> V]
    /\ g[0] = base /\ \A i \in 1..N : g[i] = step[<<g[i - 1], i>>]

\* A set of such numbers has a last one.
LEMMA LastOfSet ==
  ASSUME NEW N \in Nat, NEW s \in SUBSET (1..N), s # {}
  PROVE  Max(s) \in s /\ \A m \in s : m <= Max(s)
<1> DEFINE T == {n \in 0..N : \E m \in s : m = N - n}
<1>1. T \in SUBSET Nat /\ T # {}
  <2>1. PICK m \in s : TRUE
    OBVIOUS
  <2>2. N - m \in T
    BY <2>1
  <2>3. T \subseteq Nat
    OBVIOUS
  <2> HIDE DEF T
  <2> QED  BY <2>2, <2>3
<1>2. PICK n \in T : \A k \in T : n <= k
  BY <1>1, LeastOfSome
<1>3. N - n \in s
  BY <1>2
<1>4. ASSUME NEW m \in s PROVE m <= N - n
  <2>1. N - m \in T
    OBVIOUS
  <2> QED  BY <1>2, <2>1
<1> HIDE DEF T
<1>5. \E m \in s : \A k \in s : m >= k
  BY <1>3, <1>4
<1>6. Max(s) = CHOOSE m \in s : \A k \in s : m >= k
  BY DEF Max
<1>7. Max(s) \in s /\ \A k \in s : Max(s) >= k
  BY <1>5, <1>6
<1> QED  BY <1>7

\* So has a fold: its recursion over the sets of a sequence's indices.
Folds(iter, V, N, base, step) ==
    /\ iter = [s \in SUBSET (1..N) |-> iter[s]] /\ iter[{}] = base
    /\ \A s \in SUBSET (1..N) : iter[s] \in V
    /\ \A s \in SUBSET (1..N) : s # {} => iter[s] = step[<<iter[s \ {Max(s)}], Max(s)>>]

\* That recursion has a solution.
LEMMA FoldsExist ==
  ASSUME NEW V, NEW N \in Nat, NEW base \in V, NEW step \in [V \X (1..N) -> V]
  PROVE  \E iter : Folds(iter, V, N, base, step)
<1> DEFINE T == {n \in 0..N : \E iter : Folds(iter, V, n, base, step)}
<1>1. 0 \in T
  <2> DEFINE iter == [s \in SUBSET (1..0) |-> base]
  <2>1. \A s \in SUBSET (1..0) : s = {}
    OBVIOUS
  <2>2. Folds(iter, V, 0, base, step)
    BY <2>1 DEF Folds
  <2> HIDE DEF iter
  <2>3. 0 \in 0..N /\ \E f : Folds(f, V, 0, base, step)
    BY <2>2
  <2> QED  BY <2>3
<1>2. ASSUME NEW n \in 1..N, n - 1 \in T PROVE n \in T
  <2>1. PICK old : Folds(old, V, n - 1, base, step)
    BY <1>2
  <2> DEFINE iter == [s \in SUBSET (1..n) |->
                        IF n \in s THEN step[<<old[s \ {n}], n>>] ELSE old[s]]
  <2>2. \A s \in SUBSET (1..n) : /\ n \notin s => s \in SUBSET (1..(n - 1))
                                 /\ s \ {n} \in SUBSET (1..(n - 1))
    OBVIOUS
  <2>3. \A s \in SUBSET (1..n) : n \in s => Max(s) = n
    <3> SUFFICES ASSUME NEW s \in SUBSET (1..n), n \in s PROVE Max(s) = n
      OBVIOUS
    <3>1. Max(s) \in s /\ \A m \in s : m <= Max(s)
      <4>1. n \in Nat /\ s # {}
        OBVIOUS
      <4> QED  BY <4>1, LastOfSet
    <3>2. Max(s) \in 1..n /\ n <= Max(s)
      BY <3>1
    <3> QED  BY <3>2
  <2>4. \A s \in SUBSET (1..(n - 1)) : old[s] \in V
    BY <2>1 DEF Folds
  <2>5. iter[{}] = base /\ iter = [s \in SUBSET (1..n) |-> iter[s]]
    BY <2>1 DEF Folds
  <2>6. ASSUME NEW s \in SUBSET (1..n) PROVE iter[s] \in V
    BY <2>2, <2>4
  <2>7. ASSUME NEW s \in SUBSET (1..n), s # {}
        PROVE  iter[s] = step[<<iter[s \ {Max(s)}], Max(s)>>]
    <3>1. CASE n \in s
      <4>1. iter[s \ {n}] = old[s \ {n}] /\ iter[s] = step[<<old[s \ {n}], n>>]
        BY <3>1, <2>2
      <4> HIDE DEF iter
      <4> QED  BY <3>1, <2>3, <4>1
    <3>2. CASE n \notin s
      <4>1. s \in SUBSET (1..(n - 1)) /\ n - 1 \in Nat
        BY <2>2, <3>2
      <4>2. Max(s) \in s /\ old[s] = step[<<old[s \ {Max(s)}], Max(s)>>]
        BY <2>1, <2>7, <4>1, LastOfSet DEF Folds
      <4>3. iter[s] = old[s] /\ iter[s \ {Max(s)}] = old[s \ {Max(s)}]
        BY <3>2
      <4> QED  BY <4>2, <4>3
    <3> QED  BY <3>1, <3>2
  <2> HIDE DEF iter
  <2>8. Folds(iter, V, n, base, step)
    BY <2>5, <2>6, <2>7 DEF Folds
  <2> QED  BY <2>8
<1> HIDE DEF T
<1>3. N \in T
  BY <1>1, <1>2, AllOfThem
<1> QED  BY <1>3 DEF T

\* What a fold gives is what the recursion over the indices comes to.
Runs(p, V, N, base, step, last) ==
    /\ Solves(p, V, N, base, step)
    /\ p[N] = last

\* A function that unrolls as a fold does runs over its list from the front.
LEMMA FoldRuns ==
  ASSUME NEW V, NEW N \in Nat, NEW base \in V, NEW step \in [V \X (1..N) -> V],
         NEW f, f[{}] = base,
         \A s \in SUBSET (1..N) : s # {} /\ f[s \ {Max(s)}] \in V =>
             f[s] = step[<<f[s \ {Max(s)}], Max(s)>>]
  PROVE  \E p : Runs(p, V, N, base, step, f[1..N])
<1> DEFINE p == [n \in 0..N |-> f[1..n]]
           T == {n \in 0..N : f[1..n] \in V}
<1>1. p[0] = base /\ p[N] = f[1..N]
  <2>1. 1..0 = {} /\ 0 \in 0..N /\ N \in 0..N
    OBVIOUS
  <2> QED  BY <2>1
<1>2. ASSUME NEW n \in 1..N, f[1..(n - 1)] \in V PROVE f[1..n] = step[<<f[1..(n - 1)], n>>]
  <2> DEFINE s == 1..n
  <2>1. s \in SUBSET (1..N) /\ n \in s
    OBVIOUS
  <2>2. Max(s) \in s /\ \A m \in s : m <= Max(s)
    <3> HIDE DEF s
    <3> QED  BY <2>1, LastOfSet
  <2>3. Max(s) = n
    BY <2>1, <2>2
  <2>4. s \ {n} = 1..(n - 1)
    OBVIOUS
  <2> HIDE DEF s
  <2>5. f[s] = step[<<f[s \ {Max(s)}], Max(s)>>]
    BY <1>2, <2>1, <2>3, <2>4
  <2> QED  BY <2>3, <2>4, <2>5 DEF s
<1>3. 0..N \subseteq T
  <2>1. 0 \in T
    BY <1>1
  <2>2. ASSUME NEW n \in 1..N, n - 1 \in T PROVE n \in T
    <3>1. f[1..n] = step[<<f[1..(n - 1)], n>>]
      BY <1>2, <2>2
    <3>2. <<f[1..(n - 1)], n>> \in V \X (1..N)
      BY <2>2
    <3>3. step[<<f[1..(n - 1)], n>>] \in V
      BY <3>2
    <3> QED  BY <3>1, <3>3
  <2> HIDE DEF T
  <2> QED  BY <2>1, <2>2, AllOfThem
<1>4. p \in [0..N -> V]
  BY <1>3
<1>5. ASSUME NEW n \in 1..N PROVE p[n] = step[<<p[n - 1], n>>]
  <2>1. n - 1 \in 0..N /\ n \in 0..N
    OBVIOUS
  <2>2. f[1..(n - 1)] \in V
    BY <1>3, <2>1
  <2>3. p[n] = f[1..n] /\ p[n - 1] = f[1..(n - 1)]
    BY <2>1
  <2> HIDE DEF p
  <2> QED  BY <1>2, <2>2, <2>3
<1> HIDE DEF p
<1> QED  BY <1>1, <1>4, <1>5 DEF Runs, Solves

-----------------------------------------------------------------------------
Buckets == {"response", "body", "params"}

Candidates == [consumer : Nat, param : Nat, producer : Nat, producedBy : Nat,
               producedIn : Buckets, similarity : (Nat \ {0}) \cup {Null}, q : Int \cup {Null},
               tentative : BOOLEAN]

Of(cands, slot) == {i \in DOMAIN cands : Slot(cands[i]) = slot}

\* The best of the first so many, so far as they are the slot's.
BestSoFar(p, cands, slot) ==
    /\ p \in [0..Len(cands) -> Candidates] /\ p[0] = cands[Min(Of(cands, slot))]
    /\ \A n \in 1..Len(cands) :
          p[n] = IF Slot(cands[n]) = slot /\ Better(cands[n], p[n - 1]) THEN cands[n]
                 ELSE p[n - 1]

\* Winner is the last of the bests so far.
LEMMA WinnersUnroll ==
  ASSUME NEW cands \in Seq(Candidates), NEW slot, cands[Min(Of(cands, slot))] \in Candidates
  PROVE  \E p : BestSoFar(p, cands, slot) /\ p[Len(cands)] = Winner(cands, slot)
<1> DEFINE N == Len(cands)
           V == Candidates
           start == cands[Min(Of(cands, slot))]
           more(best, n) == IF Slot(cands[n]) = slot /\ Better(cands[n], best)
                            THEN cands[n] ELSE best
           step == [a \in V \X (1..N) |-> more(a[1], a[2])]
           Unrolled(f) == f = [s \in SUBSET (1..N) |->
                                 IF s = {} THEN start ELSE more(f[s \ {Max(s)}], Max(s))]
           chosen == CHOOSE f : Unrolled(f)
<1>1. N \in Nat /\ DOMAIN cands = 1..N /\ start \in V
  OBVIOUS
<1>2. \A best \in V, n \in 1..N : more(best, n) \in V
  OBVIOUS
<1>3. Winner(cands, slot) = chosen[1..N]
  BY <1>1 DEF Winner, FoldLeft, MapThenFoldSet, Of
<1> HIDE DEF more, V, start
<1>4. step \in [V \X (1..N) -> V] /\ \A x \in V, n \in 1..N : step[<<x, n>>] = more(x, n)
  BY <1>2
<1> HIDE DEF step
<1>5. \E f : Unrolled(f)
  <2>1. PICK f : Folds(f, V, N, start, step)
    <3> HIDE DEF N
    <3> QED  BY <1>1, <1>4, FoldsExist
  <2>2. ASSUME NEW s \in SUBSET (1..N), s # {} PROVE f[s] = more(f[s \ {Max(s)}], Max(s))
    <3> HIDE DEF N
    <3>1. Max(s) \in 1..N
      BY <1>1, <2>2, LastOfSet
    <3>2. f[s \ {Max(s)}] \in V
      BY <2>1 DEF Folds
    <3> QED  BY <1>4, <2>1, <2>2, <3>1, <3>2 DEF Folds
  <2>3. f = [s \in SUBSET (1..N) |-> IF s = {} THEN start ELSE more(f[s \ {Max(s)}], Max(s))]
    BY <2>1, <2>2 DEF Folds
  <2> QED  BY <2>3
<1>6. Unrolled(chosen)
  BY <1>5
<1> HIDE DEF chosen, N
<1>7. \E p : Runs(p, V, N, start, step, chosen[1..N])
  <2>1. chosen[{}] = start
    BY <1>6
  <2>2. ASSUME NEW s \in SUBSET (1..N), s # {}, chosen[s \ {Max(s)}] \in V
        PROVE  chosen[s] = step[<<chosen[s \ {Max(s)}], Max(s)>>]
    <3>1. Max(s) \in 1..N
      BY <1>1, <2>2, LastOfSet
    <3>2. chosen[s] = more(chosen[s \ {Max(s)}], Max(s))
      BY <1>6, <2>2
    <3> QED  BY <1>4, <2>2, <3>1, <3>2
  <2> HIDE DEF Unrolled
  <2> QED  BY <1>1, <1>4, <2>1, <2>2, FoldRuns
<1>8. PICK p : Runs(p, V, N, start, step, chosen[1..N])
  BY <1>7
<1>9. p \in [0..N -> V] /\ p[0] = start /\ p[N] = chosen[1..N]
  BY <1>8 DEF Runs, Solves
<1>10. ASSUME NEW n \in 1..N PROVE p[n] = more(p[n - 1], n)
  <2>1. n - 1 \in 0..N
    BY <1>1
  <2> QED  BY <1>4, <1>8, <1>9, <2>1 DEF Runs, Solves
<1> QED  BY <1>3, <1>9, <1>10 DEF N, V, more, start, BestSoFar

\* What Better compares are numbers.
LEMMA QsAreNumbers ==
  ASSUME NEW c \in Candidates
  PROVE  /\ Or0(c.q) \in Int /\ Or0(c.similarity) \in Int
         /\ Rank(c.producedIn) \in Int /\ c.producer \in Int /\ c.producedBy \in Int
<1>1. c.producedIn = "response" \/ c.producedIn = "body" \/ c.producedIn = "params"
  BY DEF Candidates, Buckets
<1>2. Rank("response") = 0 /\ Rank("body") = 1 /\ Rank("params") = 2
  BY DEF Rank
<1> QED  BY <1>1, <1>2 DEF Candidates, Or0

\* Better compares five numbers one after the other: who is not better than
\* the best so far is not better than who beats it, nobody beats himself, and
\* who is not beaten has no lower Q.
LEMMA BetterOrders ==
  ASSUME NEW a \in Candidates, NEW b \in Candidates, NEW c \in Candidates
  PROVE  /\ ~Better(a, b) /\ Better(c, b) => ~Better(a, c)
         /\ ~Better(a, a)
         /\ ~Better(a, b) => Or0(b.q) >= Or0(a.q)
<1>1. \A d \in {a, b, c} :
         /\ Or0(d.q) \in Int /\ Or0(d.similarity) \in Int
         /\ Rank(d.producedIn) \in Int /\ d.producer \in Int /\ d.producedBy \in Int
  BY QsAreNumbers
<1> QED  BY <1>1 DEF Better

\* Of a parameter's candidates the winner is one, and none is better.
Best(cands, slot, w) ==
    /\ \E i \in DOMAIN cands : w = cands[i] /\ Slot(cands[i]) = slot
    /\ \A i \in DOMAIN cands : Slot(cands[i]) = slot =>
          ~Better(cands[i], w) /\ Or0(w.q) >= Or0(cands[i].q)

\* Whatever the order, the winner is one of its candidates and none is better.
LEMMA WinnerIsBest ==
  ASSUME NEW cands \in Seq(Candidates), NEW k \in DOMAIN cands
  PROVE  Best(cands, Slot(cands[k]), Winner(cands, Slot(cands[k])))
<1> DEFINE slot == Slot(cands[k])
           N == Len(cands)
           hits == Of(cands, slot)
           start == cands[Min(hits)]
<1>1. /\ N \in Nat /\ DOMAIN cands = 1..N /\ \A i \in 1..N : cands[i] \in Candidates
      /\ hits = {i \in 1..N : Slot(cands[i]) = slot}
  BY DEF Of
<1> HIDE DEF hits
<1>2. Min(hits) \in hits
  <2>1. hits \in SUBSET Nat /\ hits # {}
    BY <1>1
  <2>2. \E m \in hits : \A n \in hits : m <= n
    BY <2>1, LeastOfSome
  <2> QED  BY <2>2 DEF Min
<1>3. start \in Candidates
  BY <1>1, <1>2
<1> HIDE DEF slot
<1>4. PICK p : BestSoFar(p, cands, slot) /\ p[N] = Winner(cands, slot)
  BY <1>3, WinnersUnroll DEF hits
<1>40. /\ p \in [0..N -> Candidates] /\ p[0] = start
       /\ \A n \in 1..N : p[n] = IF Slot(cands[n]) = slot /\ Better(cands[n], p[n - 1])
                                 THEN cands[n] ELSE p[n - 1]
  BY <1>4 DEF BestSoFar, hits
<1> HIDE DEF start, N
<1> DEFINE T == {n \in 0..N : /\ \E i \in hits : p[n] = cands[i]
                              /\ \A i \in hits : i <= n => ~Better(cands[i], p[n])}
<1>5. 0 \in T
  <2>1. \A i \in hits : ~(i <= 0) /\ 0 \in 0..N
    BY <1>1
  <2> QED  BY <1>2, <1>40, <2>1 DEF start
<1>6. ASSUME NEW n \in 1..N, n - 1 \in T PROVE n \in T
  <2> DEFINE b == p[n - 1]
             c == cands[n]
  <2>1. b \in Candidates /\ c \in Candidates /\ n \in 0..N
    BY <1>1, <1>6, <1>40
  <2>2. (\E i \in hits : b = cands[i]) /\ \A i \in hits : i <= n - 1 => ~Better(cands[i], b)
    BY <1>6
  <2>3. \A i \in hits : i <= n => i <= n - 1 \/ i = n
    BY <1>1
  <2>4. \A i \in hits : cands[i] \in Candidates
    BY <1>1
  <2>5. CASE n \in hits /\ Better(c, b)
    <3>1. p[n] = c
      BY <1>1, <1>40, <2>5
    <3>2. ASSUME NEW i \in hits, i <= n PROVE ~Better(cands[i], c)
      BY <2>1, <2>2, <2>3, <2>4, <2>5, <3>2, BetterOrders
    <3> HIDE DEF b
    <3> QED  BY <2>1, <2>5, <3>1, <3>2
  <2>6. CASE ~(n \in hits /\ Better(c, b))
    <3>1. p[n] = b
      BY <1>1, <1>40, <2>6
    <3>2. ASSUME NEW i \in hits, i <= n PROVE ~Better(cands[i], b)
      BY <2>2, <2>3, <2>6, <3>2
    <3> HIDE DEF b
    <3> QED  BY <2>1, <2>2, <3>1, <3>2
  <2> QED  BY <2>5, <2>6
<1> HIDE DEF T
<1>7. N \in T
  <2>1. 0..N \subseteq T
    BY <1>1, <1>5, <1>6, AllOfThem
  <2> QED  BY <1>1, <2>1
<1>8. /\ \E i \in hits : Winner(cands, slot) = cands[i]
      /\ \A i \in hits : ~Better(cands[i], Winner(cands, slot))
  <2>1. \A i \in hits : i <= N
    BY <1>1
  <2> QED  BY <1>4, <1>7, <2>1 DEF T
<1> DEFINE w == Winner(cands, slot)
<1>9. ASSUME NEW i \in hits PROVE ~Better(cands[i], w) /\ Or0(w.q) >= Or0(cands[i].q)
  <2>1. w \in Candidates /\ cands[i] \in Candidates
    BY <1>1, <1>8
  <2> HIDE DEF w
  <2> QED  BY <1>8, <1>9, <2>1, BetterOrders DEF w
<1> HIDE DEF w
<1>10. Best(cands, slot, w)
  <2>1. \E i \in DOMAIN cands : w = cands[i] /\ Slot(cands[i]) = slot
    BY <1>1, <1>8 DEF w
  <2>2. \A i \in DOMAIN cands : Slot(cands[i]) = slot => i \in hits
    BY <1>1
  <2> QED  BY <1>9, <2>1, <2>2 DEF Best
<1> QED  BY <1>10 DEF w, slot

-----------------------------------------------------------------------------
StaticEdges == [pair : StaticPairs, matches : Seq(Matches), tentative : BOOLEAN]

\* What the table gives of a field is a number or nothing.
LEMMA LearnedFits ==
  ASSUME NEW table \in Seq(Entries), NEW pair, NEW m
  PROVE  LearnedQ(table, pair, m) \in Int \cup {Null}
<1> DEFINE hits == {i \in DOMAIN table : /\ table[i].pair = pair /\ table[i].param = m.param
                                         /\ table[i].producedBy = m.producedBy}
<1>1. \A i \in hits : table[i].q \in Int
  BY GraphMergeAssumption
<1>2. hits # {} => Min(hits) \in hits
  <2>1. hits \in SUBSET Nat
    OBVIOUS
  <2> HIDE DEF hits
  <2>2. hits # {} => \E k \in hits : \A n \in hits : k <= n
    BY <2>1, LeastOfSome
  <2> QED  BY <2>2 DEF Min
<1>3. LearnedQ(table, pair, m) = IF hits = {} THEN Null ELSE table[Min(hits)].q
  BY DEF LearnedQ
<1> HIDE DEF hits
<1> QED  BY <1>1, <1>2, <1>3

\* Candidates are made of a match or an entry, all alike.
LEMMA CandidateFits ==
  ASSUME NEW e, e.pair \in Nat \X Nat, NEW m,
         m.param \in Nat, m.producedBy \in Nat, m.producedIn \in Buckets,
         NEW s \in (Nat \ {0}) \cup {Null}, NEW q \in Int \cup {Null}, NEW t \in BOOLEAN
  PROVE  Candidate(e.pair[1], e.pair[2], m, s, q, t) \in Candidates
<1>1. e.pair[1] \in Nat /\ e.pair[2] \in Nat
  OBVIOUS
<1> QED  BY <1>1 DEF Candidate, Candidates

\* Adding a candidate appends it, or nothing for an operation with itself.
LEMMA AddFits ==
  ASSUME NEW cands \in Seq(Candidates), NEW c \in Candidates
  PROVE  /\ AddCandidate(cands, c) \in Seq(Candidates)
         /\ c.producer = c.consumer => AddCandidate(cands, c) = cands
         /\ c.producer # c.consumer =>
               /\ Len(AddCandidate(cands, c)) = Len(cands) + 1
               /\ AddCandidate(cands, c)[Len(cands) + 1] = c
               /\ \A i \in 1..Len(cands) : AddCandidate(cands, c)[i] = cands[i]
BY AppendProperties DEF AddCandidate

\* What an edge of the static graph proposes, an operation itself for its own
\* parameters apart.
StaticCandidate(e, m, table) ==
    Candidate(e.pair[1], e.pair[2], m, m.similarity, LearnedQ(table, e.pair, m), e.tentative)

Apart == {c \in Candidates : c.producer # c.consumer}

Proposes(e, table) == {StaticCandidate(e, m, table) : m \in ToSet(e.matches)} \cap Apart

\* What the static graph proposes is a candidate.
LEMMA StaticFits ==
  ASSUME NEW e \in StaticEdges, NEW m \in ToSet(e.matches), NEW table \in Seq(Entries)
  PROVE  StaticCandidate(e, m, table) \in Candidates
<1>1. m \in Matches /\ e.pair \in StaticPairs /\ e.tentative \in BOOLEAN
  BY DEF StaticEdges, ToSet
<1>2. /\ m.param \in Nat /\ m.producedBy \in Nat /\ m.producedIn \in Buckets
      /\ m.similarity \in (Nat \ {0}) \cup {Null}
      /\ e.pair \in Nat \X Nat /\ e.tentative \in BOOLEAN
  BY <1>1, GraphMergeAssumption DEF Buckets
<1> QED  BY <1>2, LearnedFits, CandidateFits DEF StaticCandidate

\* The candidates after adding one.
LEMMA AddHas ==
  ASSUME NEW acc \in Seq(Candidates), NEW c \in Candidates
  PROVE  ToSet(AddCandidate(acc, c)) = ToSet(acc) \cup ({c} \cap Apart)
<1>1. CASE c.producer = c.consumer
  BY <1>1, AddFits DEF Apart
<1>2. CASE c.producer # c.consumer
  <2> DEFINE more == AddCandidate(acc, c)
  <2>1. /\ more \in Seq(Candidates) /\ Len(more) = Len(acc) + 1 /\ more[Len(acc) + 1] = c
        /\ \A i \in 1..Len(acc) : more[i] = acc[i]
    BY <1>2, AddFits
  <2> HIDE DEF more
  <2>2. /\ DOMAIN more = (1..Len(acc)) \cup {Len(acc) + 1} /\ DOMAIN acc = 1..Len(acc)
    BY <2>1
  <2>3. ToSet(more) = ToSet(acc) \cup {c}
    BY <2>1, <2>2 DEF ToSet
  <2> QED  BY <1>2, <2>3 DEF more, Apart
<1> QED  BY <1>1, <1>2

MatchesAdded(p, cands, e, table) ==
    /\ p \in [0..Len(e.matches) -> Seq(Candidates)] /\ p[0] = cands
    /\ \A n \in 1..Len(e.matches) :
          p[n] = AddCandidate(p[n - 1], StaticCandidate(e, e.matches[n], table))

\* Adding the matches of an edge goes match by match.
LEMMA MatchesUnroll ==
  ASSUME NEW cands \in Seq(Candidates), NEW e \in StaticEdges, NEW table \in Seq(Entries)
  PROVE  \E p : /\ MatchesAdded(p, cands, e, table)
                /\ p[Len(e.matches)] = AddMatches(cands, e, table)
<1> DEFINE N == Len(e.matches)
           V == Seq(Candidates)
           more(acc, n) == AddCandidate(acc, StaticCandidate(e, e.matches[n], table))
           step == [a \in V \X (1..N) |-> more(a[1], a[2])]
           Unrolled(f) == f = [s \in SUBSET (1..N) |->
                                 IF s = {} THEN cands ELSE more(f[s \ {Max(s)}], Max(s))]
           chosen == CHOOSE f : Unrolled(f)
<1>1. N \in Nat /\ DOMAIN e.matches = 1..N /\ cands \in V
  BY DEF StaticEdges
<1>2. \A acc \in V, n \in 1..N : more(acc, n) \in V
  <2> SUFFICES ASSUME NEW acc \in V, NEW n \in 1..N PROVE more(acc, n) \in V
    OBVIOUS
  <2>1. e.matches[n] \in ToSet(e.matches)
    BY <1>1 DEF ToSet
  <2>2. StaticCandidate(e, e.matches[n], table) \in Candidates
    BY <2>1, StaticFits
  <2> QED  BY <2>2, AddFits
<1>3. AddMatches(cands, e, table) = chosen[1..N]
  BY <1>1 DEF AddMatches, StaticCandidate, FoldLeft, MapThenFoldSet
<1> HIDE DEF more, V
<1>4. step \in [V \X (1..N) -> V] /\ \A x \in V, n \in 1..N : step[<<x, n>>] = more(x, n)
  BY <1>2
<1> HIDE DEF step
<1>5. \E f : Unrolled(f)
  <2>1. PICK f : Folds(f, V, N, cands, step)
    <3> HIDE DEF N
    <3> QED  BY <1>1, <1>4, FoldsExist
  <2>2. ASSUME NEW s \in SUBSET (1..N), s # {} PROVE f[s] = more(f[s \ {Max(s)}], Max(s))
    <3> HIDE DEF N
    <3>1. Max(s) \in 1..N
      BY <1>1, <2>2, LastOfSet
    <3>2. f[s \ {Max(s)}] \in V
      BY <2>1 DEF Folds
    <3> QED  BY <1>4, <2>1, <2>2, <3>1, <3>2 DEF Folds
  <2>3. f = [s \in SUBSET (1..N) |-> IF s = {} THEN cands ELSE more(f[s \ {Max(s)}], Max(s))]
    BY <2>1, <2>2 DEF Folds
  <2> QED  BY <2>3
<1>6. Unrolled(chosen)
  BY <1>5
<1> HIDE DEF chosen, N
<1>7. \E p : Runs(p, V, N, cands, step, chosen[1..N])
  <2>1. chosen[{}] = cands
    BY <1>6
  <2>2. ASSUME NEW s \in SUBSET (1..N), s # {}, chosen[s \ {Max(s)}] \in V
        PROVE  chosen[s] = step[<<chosen[s \ {Max(s)}], Max(s)>>]
    <3>1. Max(s) \in 1..N
      BY <1>1, <2>2, LastOfSet
    <3>2. chosen[s] = more(chosen[s \ {Max(s)}], Max(s))
      BY <1>6, <2>2
    <3> QED  BY <1>4, <2>2, <3>1, <3>2
  <2> HIDE DEF Unrolled
  <2> QED  BY <1>1, <1>4, <2>1, <2>2, FoldRuns
<1>8. PICK p : Runs(p, V, N, cands, step, chosen[1..N])
  BY <1>7
<1>9. p \in [0..N -> V] /\ p[0] = cands /\ p[N] = chosen[1..N]
  BY <1>8 DEF Runs, Solves
<1>10. ASSUME NEW n \in 1..N PROVE p[n] = more(p[n - 1], n)
  <2>1. n - 1 \in 0..N
    BY <1>1
  <2> QED  BY <1>4, <1>8, <1>9, <2>1 DEF Runs, Solves
<1> QED  BY <1>3, <1>9, <1>10 DEF N, V, more, MatchesAdded

\* The candidates after the matches of an edge.
LEMMA MatchesHas ==
  ASSUME NEW cands \in Seq(Candidates), NEW e \in StaticEdges, NEW table \in Seq(Entries)
  PROVE  /\ AddMatches(cands, e, table) \in Seq(Candidates)
         /\ ToSet(AddMatches(cands, e, table)) = ToSet(cands) \cup Proposes(e, table)
<1> DEFINE N == Len(e.matches)
           c(n) == StaticCandidate(e, e.matches[n], table)
<1>1. N \in Nat /\ DOMAIN e.matches = 1..N
  BY DEF StaticEdges
<1>2. PICK p : MatchesAdded(p, cands, e, table) /\ p[N] = AddMatches(cands, e, table)
  BY MatchesUnroll
<1>3. /\ p \in [0..N -> Seq(Candidates)] /\ p[0] = cands
      /\ \A n \in 1..N : p[n] = AddCandidate(p[n - 1], c(n))
  BY <1>2 DEF MatchesAdded
<1>4. \A n \in 1..N : c(n) \in Candidates
  BY <1>1, StaticFits DEF ToSet
<1>5. Proposes(e, table) = {c(i) : i \in 1..N} \cap Apart
  BY <1>1 DEF Proposes, ToSet
<1> HIDE DEF N, c
<1> DEFINE T == {n \in 0..N : ToSet(p[n]) = ToSet(cands) \cup ({c(i) : i \in 1..n} \cap Apart)}
<1>6. 0 \in T
  <2>1. 1..0 = {} /\ 0 \in 0..N
    BY <1>1
  <2> QED  BY <1>3, <2>1
<1>7. ASSUME NEW n \in 1..N, n - 1 \in T PROVE n \in T
  <2>1. /\ p[n - 1] \in Seq(Candidates) /\ n \in 0..N
        /\ 1..n = (1..(n - 1)) \cup {n}
    BY <1>1, <1>3
  <2>2. ToSet(p[n]) = ToSet(p[n - 1]) \cup ({c(n)} \cap Apart)
    BY <1>3, <1>4, <2>1, AddHas
  <2>3. {c(i) : i \in 1..n} = {c(i) : i \in 1..(n - 1)} \cup {c(n)}
    BY <2>1
  <2> QED  BY <1>7, <2>1, <2>2, <2>3
<1> HIDE DEF T
<1>8. N \in T
  <2>1. 0..N \subseteq T
    BY <1>1, <1>6, <1>7, AllOfThem
  <2> QED  BY <1>1, <2>1
<1>9. p[N] \in Seq(Candidates)
  BY <1>1, <1>3
<1> QED  BY <1>2, <1>5, <1>8, <1>9 DEF T

EdgesAdded(p, edges, table) ==
    /\ p \in [0..Len(edges) -> Seq(Candidates)] /\ p[0] = <<>>
    /\ \A n \in 1..Len(edges) : p[n] = AddMatches(p[n - 1], edges[n], table)

\* The candidates of the static graph come edge by edge.
LEMMA EdgesUnroll ==
  ASSUME NEW edges \in Seq(StaticEdges), NEW table \in Seq(Entries)
  PROVE  \E p : /\ EdgesAdded(p, edges, table)
                /\ p[Len(edges)] = StaticCandidates(edges, table)
<1> DEFINE N == Len(edges)
           V == Seq(Candidates)
           more(acc, n) == AddMatches(acc, edges[n], table)
           step == [a \in V \X (1..N) |-> more(a[1], a[2])]
           Unrolled(f) == f = [s \in SUBSET (1..N) |->
                                 IF s = {} THEN <<>> ELSE more(f[s \ {Max(s)}], Max(s))]
           chosen == CHOOSE f : Unrolled(f)
<1>1. N \in Nat /\ DOMAIN edges = 1..N /\ <<>> \in V
  OBVIOUS
<1>2. \A acc \in V, n \in 1..N : more(acc, n) \in V
  BY MatchesHas
<1>3. StaticCandidates(edges, table) = chosen[1..N]
  BY <1>1 DEF StaticCandidates, FoldLeft, MapThenFoldSet
<1> HIDE DEF more, V
<1>4. step \in [V \X (1..N) -> V] /\ \A x \in V, n \in 1..N : step[<<x, n>>] = more(x, n)
  BY <1>2
<1> HIDE DEF step
<1>5. \E f : Unrolled(f)
  <2>1. PICK f : Folds(f, V, N, <<>>, step)
    <3> HIDE DEF N
    <3> QED  BY <1>1, <1>4, FoldsExist
  <2>2. ASSUME NEW s \in SUBSET (1..N), s # {} PROVE f[s] = more(f[s \ {Max(s)}], Max(s))
    <3> HIDE DEF N
    <3>1. Max(s) \in 1..N
      BY <1>1, <2>2, LastOfSet
    <3>2. f[s \ {Max(s)}] \in V
      BY <2>1 DEF Folds
    <3> QED  BY <1>4, <2>1, <2>2, <3>1, <3>2 DEF Folds
  <2>3. f = [s \in SUBSET (1..N) |-> IF s = {} THEN <<>> ELSE more(f[s \ {Max(s)}], Max(s))]
    BY <2>1, <2>2 DEF Folds
  <2> QED  BY <2>3
<1>6. Unrolled(chosen)
  BY <1>5
<1> HIDE DEF chosen, N
<1>7. \E p : Runs(p, V, N, <<>>, step, chosen[1..N])
  <2>1. chosen[{}] = <<>>
    BY <1>6
  <2>2. ASSUME NEW s \in SUBSET (1..N), s # {}, chosen[s \ {Max(s)}] \in V
        PROVE  chosen[s] = step[<<chosen[s \ {Max(s)}], Max(s)>>]
    <3>1. Max(s) \in 1..N
      BY <1>1, <2>2, LastOfSet
    <3>2. chosen[s] = more(chosen[s \ {Max(s)}], Max(s))
      BY <1>6, <2>2
    <3> QED  BY <1>4, <2>2, <3>1, <3>2
  <2> HIDE DEF Unrolled
  <2> QED  BY <1>1, <1>4, <2>1, <2>2, FoldRuns
<1>8. PICK p : Runs(p, V, N, <<>>, step, chosen[1..N])
  BY <1>7
<1>9. p \in [0..N -> V] /\ p[0] = <<>> /\ p[N] = chosen[1..N]
  BY <1>8 DEF Runs, Solves
<1>10. ASSUME NEW n \in 1..N PROVE p[n] = more(p[n - 1], n)
  <2>1. n - 1 \in 0..N
    BY <1>1
  <2> QED  BY <1>4, <1>8, <1>9, <2>1 DEF Runs, Solves
<1> QED  BY <1>3, <1>9, <1>10 DEF N, V, more, EdgesAdded

\* They are what its edges propose.
LEMMA StaticHas ==
  ASSUME NEW edges \in Seq(StaticEdges), NEW table \in Seq(Entries)
  PROVE  /\ StaticCandidates(edges, table) \in Seq(Candidates)
         /\ ToSet(StaticCandidates(edges, table))
              = UNION {Proposes(e, table) : e \in ToSet(edges)}
<1> DEFINE N == Len(edges)
           P(n) == UNION {Proposes(edges[i], table) : i \in 1..n}
<1>1. N \in Nat /\ DOMAIN edges = 1..N /\ \A n \in 1..N : edges[n] \in StaticEdges
  OBVIOUS
<1>2. PICK p : EdgesAdded(p, edges, table) /\ p[N] = StaticCandidates(edges, table)
  BY EdgesUnroll
<1>3. /\ p \in [0..N -> Seq(Candidates)] /\ p[0] = <<>>
      /\ \A n \in 1..N : p[n] = AddMatches(p[n - 1], edges[n], table)
  BY <1>2 DEF EdgesAdded
<1>4. UNION {Proposes(e, table) : e \in ToSet(edges)} = P(N)
  BY <1>1 DEF ToSet
<1>5. /\ P(0) = {} /\ \A n \in 1..N : P(n) = P(n - 1) \cup Proposes(edges[n], table)
  <2>1. 1..0 = {}
    OBVIOUS
  <2>2. ASSUME NEW n \in 1..N PROVE P(n) = P(n - 1) \cup Proposes(edges[n], table)
    <3>1. 1..n = (1..(n - 1)) \cup {n}
      BY <1>1
    <3> QED  BY <3>1
  <2> QED  BY <2>1, <2>2
<1> HIDE DEF N, P
<1> DEFINE T == {n \in 0..N : ToSet(p[n]) = P(n)}
<1>6. 0 \in T
  <2>1. 0 \in 0..N /\ ToSet(<<>>) = {}
    BY <1>1 DEF ToSet
  <2> QED  BY <1>3, <1>5, <2>1
<1>7. ASSUME NEW n \in 1..N, n - 1 \in T PROVE n \in T
  <2>1. p[n - 1] \in Seq(Candidates) /\ n \in 0..N
    BY <1>1, <1>3
  <2>2. ToSet(p[n]) = ToSet(p[n - 1]) \cup Proposes(edges[n], table)
    <3>1. edges[n] \in StaticEdges /\ p[n] = AddMatches(p[n - 1], edges[n], table)
      BY <1>1, <1>3
    <3> HIDE DEF N
    <3>2. ToSet(AddMatches(p[n - 1], edges[n], table))
            = ToSet(p[n - 1]) \cup Proposes(edges[n], table)
      BY <2>1, <3>1, MatchesHas
    <3> QED  BY <3>1, <3>2
  <2> QED  BY <1>5, <1>7, <2>1, <2>2
<1> HIDE DEF T
<1>8. N \in T
  <2>1. 0..N \subseteq T
    BY <1>1, <1>6, <1>7, AllOfThem
  <2> QED  BY <1>1, <2>1
<1>9. p[N] \in Seq(Candidates)
  BY <1>1, <1>3
<1> QED  BY <1>2, <1>4, <1>8, <1>9 DEF T

\* What the table of Q-values adds.
Discovered(e) == Candidate(e.pair[1], e.pair[2], e, Null, e.q, FALSE)

\* What the table adds is a candidate.
LEMMA DiscoveredFits == ASSUME NEW e \in Entries PROVE Discovered(e) \in Candidates
<1>1. /\ e.param \in Nat /\ e.producedBy \in Nat /\ e.producedIn \in Buckets
      /\ e.pair \in Nat \X Nat /\ e.q \in Int
  BY GraphMergeAssumption DEF Buckets
<1> QED  BY <1>1, CandidateFits DEF Discovered

\* The candidates after the first so many entries.
Grown(p, cands, table) ==
    /\ p \in [0..Len(table) -> Seq(Candidates)] /\ p[0] = cands
    /\ \A n \in 1..Len(table) :
          p[n] = IF KnownIn(p[n - 1], table[n]) THEN p[n - 1]
                 ELSE AddCandidate(p[n - 1], Discovered(table[n]))

\* The table adds entry by entry.
LEMMA DiscoveredUnroll ==
  ASSUME NEW cands \in Seq(Candidates), NEW table \in Seq(Entries)
  PROVE  \E p : Grown(p, cands, table) /\ p[Len(table)] = WithDiscovered(cands, table)
<1> DEFINE N == Len(table)
           V == Seq(Candidates)
           more(acc, n) == IF KnownIn(acc, table[n]) THEN acc
                           ELSE AddCandidate(acc, Discovered(table[n]))
           step == [a \in V \X (1..N) |-> more(a[1], a[2])]
           Unrolled(f) == f = [s \in SUBSET (1..N) |->
                                 IF s = {} THEN cands ELSE more(f[s \ {Max(s)}], Max(s))]
           chosen == CHOOSE f : Unrolled(f)
<1>1. N \in Nat /\ DOMAIN table = 1..N /\ cands \in V
  OBVIOUS
<1>2. \A acc \in V, n \in 1..N : more(acc, n) \in V
  <2>1. \A n \in 1..N : Discovered(table[n]) \in Candidates
    BY DiscoveredFits
  <2> QED  BY <2>1, AddFits
<1>3. WithDiscovered(cands, table) = chosen[1..N]
  BY <1>1 DEF WithDiscovered, Discovered, FoldLeft, MapThenFoldSet
<1> HIDE DEF more, V
<1>4. step \in [V \X (1..N) -> V] /\ \A x \in V, n \in 1..N : step[<<x, n>>] = more(x, n)
  BY <1>2
<1> HIDE DEF step
<1>5. \E f : Unrolled(f)
  <2>1. PICK f : Folds(f, V, N, cands, step)
    <3> HIDE DEF N
    <3> QED  BY <1>1, <1>4, FoldsExist
  <2>2. ASSUME NEW s \in SUBSET (1..N), s # {} PROVE f[s] = more(f[s \ {Max(s)}], Max(s))
    <3> HIDE DEF N
    <3>1. Max(s) \in 1..N
      BY <1>1, <2>2, LastOfSet
    <3>2. f[s \ {Max(s)}] \in V
      BY <2>1 DEF Folds
    <3> QED  BY <1>4, <2>1, <2>2, <3>1, <3>2 DEF Folds
  <2>3. f = [s \in SUBSET (1..N) |-> IF s = {} THEN cands ELSE more(f[s \ {Max(s)}], Max(s))]
    BY <2>1, <2>2 DEF Folds
  <2> QED  BY <2>3
<1>6. Unrolled(chosen)
  BY <1>5
<1> HIDE DEF chosen, N
<1>7. \E p : Runs(p, V, N, cands, step, chosen[1..N])
  <2>1. chosen[{}] = cands
    BY <1>6
  <2>2. ASSUME NEW s \in SUBSET (1..N), s # {}, chosen[s \ {Max(s)}] \in V
        PROVE  chosen[s] = step[<<chosen[s \ {Max(s)}], Max(s)>>]
    <3>1. Max(s) \in 1..N
      BY <1>1, <2>2, LastOfSet
    <3>2. chosen[s] = more(chosen[s \ {Max(s)}], Max(s))
      BY <1>6, <2>2
    <3> QED  BY <1>4, <2>2, <3>1, <3>2
  <2> HIDE DEF Unrolled
  <2> QED  BY <1>1, <1>4, <2>1, <2>2, FoldRuns
<1>8. PICK p : Runs(p, V, N, cands, step, chosen[1..N])
  BY <1>7
<1>9. p \in [0..N -> V] /\ p[0] = cands /\ p[N] = chosen[1..N]
  BY <1>8 DEF Runs, Solves
<1>10. ASSUME NEW n \in 1..N PROVE p[n] = more(p[n - 1], n)
  <2>1. n - 1 \in 0..N
    BY <1>1
  <2> QED  BY <1>4, <1>8, <1>9, <2>1 DEF Runs, Solves
<1> QED  BY <1>3, <1>9, <1>10 DEF N, V, more, Grown

\* Who is known stays known.
LEMMA KnownStays ==
  ASSUME NEW acc \in Seq(Candidates), NEW c \in Candidates, NEW e, KnownIn(acc, e)
  PROVE  KnownIn(AddCandidate(acc, c), e)
<1> DEFINE more == AddCandidate(acc, c)
<1>1. PICK i \in DOMAIN acc : /\ Slot(acc[i]) = <<e.pair[1], e.param>>
                              /\ acc[i].producer = e.pair[2] /\ acc[i].producedBy = e.producedBy
  BY DEF KnownIn
<1>2. more \in Seq(Candidates) /\ DOMAIN acc \subseteq DOMAIN more /\ more[i] = acc[i]
  <2>1. CASE c.producer = c.consumer
    BY <2>1, AddFits
  <2>2. CASE c.producer # c.consumer
    <3>1. /\ more \in Seq(Candidates) /\ Len(more) = Len(acc) + 1
          /\ \A j \in 1..Len(acc) : more[j] = acc[j]
      BY <2>2, AddFits
    <3> HIDE DEF more
    <3> QED  BY <3>1
  <2> QED  BY <2>1, <2>2
<1> HIDE DEF more
<1>3. KnownIn(more, e)
  BY <1>1, <1>2 DEF KnownIn
<1> QED  BY <1>3 DEF more

\* An entry added is known.
LEMMA DiscoveredIsKnown ==
  ASSUME NEW acc \in Seq(Candidates), NEW e \in Entries, e.pair[1] # e.pair[2]
  PROVE  KnownIn(AddCandidate(acc, Discovered(e)), e)
<1> DEFINE c == Discovered(e)
           more == AddCandidate(acc, c)
<1>1. /\ c.consumer = e.pair[1] /\ c.producer = e.pair[2] /\ c.param = e.param
      /\ c.producedBy = e.producedBy
  BY DEF Discovered, Candidate
<1>2. c \in Candidates
  BY DiscoveredFits
<1> HIDE DEF c
<1>3. /\ more \in Seq(Candidates) /\ Len(more) = Len(acc) + 1 /\ more[Len(acc) + 1] = c
  <2>1. c.producer # c.consumer
    BY <1>1
  <2> QED  BY <1>2, <2>1, AddFits
<1>30. Len(acc) + 1 \in DOMAIN more
  <2> HIDE DEF more
  <2> QED  BY <1>3
<1> HIDE DEF more
<1>4. KnownIn(more, e)
  BY <1>1, <1>3, <1>30 DEF KnownIn, Slot
<1> QED  BY <1>4 DEF more, c

\* Every entry is among the candidates once the table has been read.
LEMMA EntriesCompete ==
  ASSUME NEW cands \in Seq(Candidates), NEW table \in Seq(Entries)
  PROVE  /\ WithDiscovered(cands, table) \in Seq(Candidates)
         /\ \A i \in DOMAIN table : table[i].pair[1] # table[i].pair[2] =>
               KnownIn(WithDiscovered(cands, table), table[i])
<1> DEFINE N == Len(table)
<1>1. N \in Nat /\ DOMAIN table = 1..N /\ \A i \in 1..N : table[i] \in Entries
  OBVIOUS
<1>2. PICK p : Grown(p, cands, table) /\ p[N] = WithDiscovered(cands, table)
  BY DiscoveredUnroll
<1>3. /\ p \in [0..N -> Seq(Candidates)]
      /\ \A n \in 1..N : p[n] = IF KnownIn(p[n - 1], table[n]) THEN p[n - 1]
                                ELSE AddCandidate(p[n - 1], Discovered(table[n]))
  BY <1>2 DEF Grown
<1> HIDE DEF N
<1> DEFINE T == {n \in 0..N : \A i \in 1..n :
                    table[i].pair[1] # table[i].pair[2] => KnownIn(p[n], table[i])}
<1>4. 0 \in T
  BY <1>1
<1>5. ASSUME NEW n \in 1..N, n - 1 \in T PROVE n \in T
  <2> DEFINE acc == p[n - 1]
             c == Discovered(table[n])
  <2>1. acc \in Seq(Candidates) /\ c \in Candidates /\ table[n] \in Entries /\ n \in 0..N
    <3>1. n - 1 \in 0..N
      BY <1>1
    <3> QED  BY <1>1, <1>3, <3>1, DiscoveredFits
  <2>2. p[n] = IF KnownIn(acc, table[n]) THEN acc ELSE AddCandidate(acc, c)
    BY <1>3
  <2>3. \A i \in 1..(n - 1) : table[i].pair[1] # table[i].pair[2] => KnownIn(acc, table[i])
    BY <1>5
  <2> HIDE DEF acc
  <2>4. ASSUME NEW i \in 1..n, table[i].pair[1] # table[i].pair[2] PROVE KnownIn(p[n], table[i])
    <3>1. CASE i = n
      BY <2>1, <2>2, <2>4, <3>1, DiscoveredIsKnown
    <3>2. CASE i # n
      <4>1. KnownIn(acc, table[i])
        BY <1>1, <2>3, <2>4, <3>2
      <4> HIDE DEF c
      <4> QED  BY <2>1, <2>2, <4>1, KnownStays
    <3> QED  BY <3>1, <3>2
  <2> QED  BY <2>1, <2>4
<1> HIDE DEF T
<1>6. N \in T
  <2>1. 0..N \subseteq T
    BY <1>1, <1>4, <1>5, AllOfThem
  <2> QED  BY <1>1, <2>1
<1>7. p[N] \in Seq(Candidates)
  BY <1>1, <1>3
<1> QED  BY <1>1, <1>2, <1>6, <1>7 DEF T

GraphTypeOK == static \in Seq(StaticEdges) /\ learned \in Seq(Entries)

\* The input stays two lists of what may be listed.
LEMMA GraphTypeStep == GraphTypeOK /\ [MergeNext]_mergeVars => GraphTypeOK'
<1> SUFFICES ASSUME GraphTypeOK, [MergeNext]_mergeVars PROVE GraphTypeOK'
  OBVIOUS
<1> USE DEF GraphTypeOK
<1>1. CASE AddEdge
  <2>1. PICK pair \in StaticPairs, m \in Matches :
           static' = Append(static, [pair |-> pair, matches |-> <<m>>,
                        tentative |-> m.similarity = Min({n.similarity : n \in Matches})])
    BY <1>1 DEF AddEdge
  <2> DEFINE t == m.similarity = Min({n.similarity : n \in Matches})
  <2>2. t \in BOOLEAN
    OBVIOUS
  <2> HIDE DEF t
  <2>3. [pair |-> pair, matches |-> <<m>>, tentative |-> t] \in StaticEdges
    BY <2>2 DEF StaticEdges
  <2> QED  BY <1>1, <2>1, <2>3, AppendProperties DEF AddEdge, t
<1>2. CASE AddMatch
  <2> DEFINE k == Len(static)
  <2>1. PICK m \in Matches : static' = [static EXCEPT ![k].matches = Append(@, m)]
    BY <1>2 DEF AddMatch
  <2>2. k \in DOMAIN static /\ k \in Nat /\ DOMAIN static = 1..k
    BY <1>2 DEF AddMatch
  <2>3. static[k] \in StaticEdges
    BY <2>2
  <2>4. Append(static[k].matches, m) \in Seq(Matches)
    BY <2>3, AppendProperties DEF StaticEdges
  <2>5. [static[k] EXCEPT !.matches = Append(@, m)] \in StaticEdges
    BY <2>3, <2>4 DEF StaticEdges
  <2>6. static' = [static EXCEPT ![k] = [static[k] EXCEPT !.matches = Append(@, m)]]
    BY <2>1
  <2>7. static' \in Seq(StaticEdges)
    BY <2>2, <2>5, <2>6, ExceptSeq
  <2> QED  BY <1>2, <2>7 DEF AddMatch
<1>3. CASE Learn
  BY <1>3, AppendProperties DEF Learn
<1>4. CASE UNCHANGED mergeVars
  BY <1>4 DEF mergeVars
<1> QED  BY <1>1, <1>2, <1>3, <1>4 DEF MergeNext

\* The input of a merge is two lists of what may be listed.
THEOREM InputsAreLists == MergeSpec => []GraphTypeOK
<1>1. MergeInit => GraphTypeOK
  BY DEF MergeInit, GraphTypeOK
<1> QED  BY <1>1, GraphTypeStep, PTL DEF MergeSpec

-----------------------------------------------------------------------------
\* The elements picked so far.
Picks(p, S, seq, places) ==
    /\ p \in [0..Len(seq) -> Seq(S)] /\ p[0] = <<>>
    /\ \A n \in 1..Len(seq) :
          p[n] = IF n \in places THEN Append(p[n - 1], seq[n]) ELSE p[n - 1]

\* Picking goes element by element.
LEMMA PickedUnroll ==
  ASSUME NEW S, NEW seq \in Seq(S), NEW places
  PROVE  \E p : Picks(p, S, seq, places) /\ p[Len(seq)] = Picked(seq, places)
<1> DEFINE indices == [i \in DOMAIN seq |-> i]
           N == Len(indices)
           V == Seq(S)
           more(acc, n) == IF indices[n] \in places THEN Append(acc, seq[indices[n]]) ELSE acc
           step == [a \in V \X (1..N) |-> more(a[1], a[2])]
           Unrolled(f) == f = [s \in SUBSET (1..N) |->
                                 IF s = {} THEN <<>> ELSE more(f[s \ {Max(s)}], Max(s))]
           chosen == CHOOSE f : Unrolled(f)
<1>1. N \in Nat /\ DOMAIN indices = 1..N /\ <<>> \in V
  OBVIOUS
<1>10. N = Len(seq) /\ \A n \in 1..N : indices[n] = n /\ seq[n] \in S
  OBVIOUS
<1>2. \A acc \in V, n \in 1..N : more(acc, n) \in V
  BY <1>10, AppendProperties
<1>3. Picked(seq, places) = chosen[1..N]
  BY <1>1 DEF Picked, FoldLeft, MapThenFoldSet
<1> HIDE DEF more, V, indices
<1>4. step \in [V \X (1..N) -> V] /\ \A x \in V, n \in 1..N : step[<<x, n>>] = more(x, n)
  BY <1>2
<1> HIDE DEF step
<1>5. \E f : Unrolled(f)
  <2>1. PICK f : Folds(f, V, N, <<>>, step)
    <3> HIDE DEF N
    <3> QED  BY <1>1, <1>4, FoldsExist
  <2>2. ASSUME NEW s \in SUBSET (1..N), s # {} PROVE f[s] = more(f[s \ {Max(s)}], Max(s))
    <3> HIDE DEF N
    <3>1. Max(s) \in 1..N
      BY <1>1, <2>2, LastOfSet
    <3>2. f[s \ {Max(s)}] \in V
      BY <2>1 DEF Folds
    <3> QED  BY <1>4, <2>1, <2>2, <3>1, <3>2 DEF Folds
  <2>3. f = [s \in SUBSET (1..N) |-> IF s = {} THEN <<>> ELSE more(f[s \ {Max(s)}], Max(s))]
    BY <2>1, <2>2 DEF Folds
  <2> QED  BY <2>3
<1>6. Unrolled(chosen)
  BY <1>5
<1> HIDE DEF chosen, N
<1>7. \E p : Runs(p, V, N, <<>>, step, chosen[1..N])
  <2>1. chosen[{}] = <<>>
    BY <1>6
  <2>2. ASSUME NEW s \in SUBSET (1..N), s # {}, chosen[s \ {Max(s)}] \in V
        PROVE  chosen[s] = step[<<chosen[s \ {Max(s)}], Max(s)>>]
    <3>1. Max(s) \in 1..N
      BY <1>1, <2>2, LastOfSet
    <3>2. chosen[s] = more(chosen[s \ {Max(s)}], Max(s))
      BY <1>6, <2>2
    <3> QED  BY <1>4, <2>2, <3>1, <3>2
  <2> HIDE DEF Unrolled
  <2> QED  BY <1>1, <1>4, <2>1, <2>2, FoldRuns
<1>8. PICK p : Runs(p, V, N, <<>>, step, chosen[1..N])
  BY <1>7
<1>9. p \in [0..N -> V] /\ p[0] = <<>> /\ p[N] = chosen[1..N]
  BY <1>8 DEF Runs, Solves
<1>11. ASSUME NEW n \in 1..N PROVE p[n] = more(p[n - 1], n)
  <2>1. n - 1 \in 0..N
    BY <1>1
  <2> QED  BY <1>4, <1>8, <1>9, <2>1 DEF Runs, Solves
<1>12. ASSUME NEW n \in 1..N
       PROVE  p[n] = IF n \in places THEN Append(p[n - 1], seq[n]) ELSE p[n - 1]
  BY <1>10, <1>11 DEF more
<1> QED  BY <1>3, <1>9, <1>10, <1>12 DEF V, Picks

\* Picked has the elements at these places, and none twice if they differ.
LEMMA PickedHas ==
  ASSUME NEW S, NEW seq \in Seq(S), NEW places
  PROVE  /\ Picked(seq, places) \in Seq(S)
         /\ ToSet(Picked(seq, places)) = {seq[i] : i \in places \cap DOMAIN seq}
         /\ (\A i, j \in places \cap DOMAIN seq : seq[i] = seq[j] => i = j) =>
               \A i, j \in DOMAIN Picked(seq, places) :
                  Picked(seq, places)[i] = Picked(seq, places)[j] => i = j
<1> DEFINE N == Len(seq)
           differ == \A i, j \in places \cap DOMAIN seq : seq[i] = seq[j] => i = j
           Once(s) == \A i, j \in DOMAIN s : s[i] = s[j] => i = j
<1>1. N \in Nat /\ DOMAIN seq = 1..N /\ \A n \in 1..N : seq[n] \in S
  OBVIOUS
<1>2. PICK p : Picks(p, S, seq, places) /\ p[N] = Picked(seq, places)
  BY PickedUnroll
<1>3. /\ p \in [0..N -> Seq(S)] /\ p[0] = <<>>
      /\ \A n \in 1..N : p[n] = IF n \in places THEN Append(p[n - 1], seq[n]) ELSE p[n - 1]
  BY <1>2 DEF Picks
<1> HIDE DEF N
<1> DEFINE T == {n \in 0..N : /\ ToSet(p[n]) = {seq[i] : i \in places \cap (1..n)}
                              /\ differ => Once(p[n])}
<1>4. 0 \in T
  <2>1. ToSet(p[0]) = {} /\ Once(p[0]) /\ 1..0 = {} /\ 0 \in 0..N
    BY <1>1, <1>3 DEF ToSet
  <2> QED  BY <2>1
<1>5. ASSUME NEW n \in 1..N, n - 1 \in T PROVE n \in T
  <2> DEFINE old == p[n - 1]
             x == seq[n]
  <2>1. /\ old \in Seq(S) /\ x \in S /\ n \in 0..N /\ 1..n = (1..(n - 1)) \cup {n}
        /\ n \in Nat /\ n \notin 1..(n - 1)
    <3>1. n - 1 \in 0..N /\ n \in 0..N /\ n \in Nat /\ n \notin 1..(n - 1)
      BY <1>1
    <3>2. 1..n = (1..(n - 1)) \cup {n}
      BY <1>1
    <3> HIDE DEF old
    <3>3. old \in Seq(S) /\ x \in S
      BY <1>1, <1>3, <3>1 DEF old
    <3> QED  BY <3>1, <3>2, <3>3
  <2>2. /\ ToSet(old) = {seq[i] : i \in places \cap (1..(n - 1))}
        /\ differ => Once(old)
    BY <1>5
  <2>3. CASE n \notin places
    <3>1. p[n] = old
      BY <1>3, <2>3
    <3>2. places \cap (1..n) = places \cap (1..(n - 1))
      BY <2>1, <2>3
    <3> HIDE DEF old
    <3> QED  BY <2>1, <2>2, <3>1, <3>2
  <2>4. CASE n \in places
    <3>1. p[n] = Append(old, x)
      BY <1>3, <2>4
    <3> HIDE DEF old
    <3>2. /\ p[n] \in Seq(S) /\ Len(p[n]) = Len(old) + 1 /\ Len(old) \in Nat
          /\ DOMAIN p[n] = 1..(Len(old) + 1) /\ DOMAIN old = 1..Len(old)
          /\ p[n][Len(old) + 1] = x /\ \A i \in 1..Len(old) : p[n][i] = old[i]
      BY <2>1, <3>1, AppendProperties
    <3>3. ToSet(p[n]) = ToSet(old) \cup {x}
      <4>1. \A i \in DOMAIN p[n] : i \in 1..Len(old) \/ i = Len(old) + 1
        BY <3>2
      <4> QED  BY <3>2, <4>1 DEF ToSet
    <3>4. ToSet(p[n]) = {seq[i] : i \in places \cap (1..n)}
      BY <2>1, <2>2, <2>4, <3>3
    <3>5. ASSUME differ PROVE Once(p[n])
      <4>1. x \notin ToSet(old)
        <5>1. \A i \in places \cap (1..(n - 1)) : seq[i] # seq[n]
          BY <1>1, <2>1, <2>4, <3>5
        <5> QED  BY <2>2, <5>1
      <4>2. \A i \in 1..Len(old) : old[i] # x
        BY <3>2, <4>1 DEF ToSet
      <4>3. \A i \in DOMAIN p[n] : i \in 1..Len(old) \/ i = Len(old) + 1
        BY <3>2
      <4> QED  BY <2>2, <3>2, <3>5, <4>2, <4>3
    <3> QED  BY <2>1, <3>4, <3>5
  <2> QED  BY <2>3, <2>4
<1> HIDE DEF T
<1>6. N \in T
  <2>1. 0..N \subseteq T
    BY <1>1, <1>4, <1>5, AllOfThem
  <2> QED  BY <1>1, <2>1
<1>7. p[N] \in Seq(S)
  BY <1>1, <1>3
<1> QED  BY <1>1, <1>2, <1>6, <1>7 DEF T

\* Distinct forgets no element and repeats none.
LEMMA DistinctHas ==
  ASSUME NEW S, NEW seq \in Seq(S)
  PROVE  /\ Distinct(seq) \in Seq(S) /\ ToSet(Distinct(seq)) = ToSet(seq)
         /\ \A i, j \in DOMAIN Distinct(seq) : Distinct(seq)[i] = Distinct(seq)[j] => i = j
<1> DEFINE places == {i \in DOMAIN seq : \A j \in 1..(i - 1) : seq[j] # seq[i]}
<1>1. DOMAIN seq = 1..Len(seq) /\ Len(seq) \in Nat
  OBVIOUS
<1>2. ASSUME NEW i \in places, NEW j \in places, seq[i] = seq[j] PROVE i = j
  <2>1. i \in Nat /\ j \in Nat /\ i >= 1 /\ j >= 1
    BY <1>1
  <2>2. ~(j \in 1..(i - 1)) /\ ~(i \in 1..(j - 1))
    BY <1>2
  <2> QED  BY <2>1, <2>2
<1>3. ASSUME NEW k \in DOMAIN seq PROVE \E i \in places : seq[i] = seq[k]
  <2> DEFINE same == {i \in DOMAIN seq : seq[i] = seq[k]}
  <2>1. same \in SUBSET Nat /\ same # {}
    BY <1>1
  <2>2. PICK i \in same : \A j \in same : i <= j
    <3> HIDE DEF same
    <3> QED  BY <2>1, LeastOfSome
  <2>3. \A j \in 1..(i - 1) : seq[j] # seq[i]
    <3> SUFFICES ASSUME NEW j \in 1..(i - 1), seq[j] = seq[i] PROVE FALSE
      OBVIOUS
    <3>1. j \in same
      BY <1>1, <2>2
    <3> QED  BY <1>1, <2>2, <3>1
  <2> QED  BY <2>2, <2>3
<1>4. Distinct(seq) = Picked(seq, places)
  BY DEF Distinct
<1>5. places \cap DOMAIN seq = places /\ places \subseteq DOMAIN seq
  OBVIOUS
<1> HIDE DEF places
<1>6. {seq[i] : i \in places} = ToSet(seq)
  BY <1>3, <1>5 DEF ToSet
<1>7. \A i, j \in places \cap DOMAIN seq : seq[i] = seq[j] => i = j
  BY <1>2
<1>8. {seq[i] : i \in places \cap DOMAIN seq} = ToSet(seq)
  BY <1>5, <1>6
<1>9. /\ Picked(seq, places) \in Seq(S)
      /\ ToSet(Picked(seq, places)) = {seq[i] : i \in places \cap DOMAIN seq}
  BY PickedHas
<1>10. \A i, j \in DOMAIN Picked(seq, places) :
          Picked(seq, places)[i] = Picked(seq, places)[j] => i = j
  BY <1>7, PickedHas
<1> QED  BY <1>4, <1>8, <1>9, <1>10

\* Of the candidates of a merge, a Q-value is the one its entry of the table has.
QsAreLearned(S, table) ==
    \A c \in S : c.q = LearnedQ(table, <<c.consumer, c.producer>>, c)

\* A candidate of the static graph has the Q of its field.
LEMMA StaticQs ==
  ASSUME NEW edges \in Seq(StaticEdges), NEW table \in Seq(Entries)
  PROVE  QsAreLearned(ToSet(StaticCandidates(edges, table)), table)
<1> SUFFICES ASSUME NEW e \in ToSet(edges), NEW m \in ToSet(e.matches)
             PROVE  LET c == StaticCandidate(e, m, table)
                    IN c.q = LearnedQ(table, <<c.consumer, c.producer>>, c)
  BY StaticHas DEF QsAreLearned, Proposes
<1>1. e.pair = <<e.pair[1], e.pair[2]>>
  <2>1. e \in StaticEdges
    BY DEF ToSet
  <2>2. e.pair \in Nat \X Nat
    BY <2>1, GraphMergeAssumption DEF StaticEdges
  <2> QED  BY <2>2
<1> DEFINE c == StaticCandidate(e, m, table)
<1>2. /\ c.consumer = e.pair[1] /\ c.producer = e.pair[2] /\ c.param = m.param
      /\ c.producedBy = m.producedBy /\ c.q = LearnedQ(table, e.pair, m)
  BY DEF StaticCandidate, Candidate
<1>3. LearnedQ(table, e.pair, c) = LearnedQ(table, e.pair, m)
  <2> HIDE DEF c
  <2> QED  BY <1>2 DEF LearnedQ
<1> QED  BY <1>1, <1>2, <1>3

\* Two entries of one parameter, producer and field.
SameField(d, e) == d.pair = e.pair /\ d.param = e.param /\ d.producedBy = e.producedBy

\* The first entry of its field gives the Q of its field.
LEMMA FirstOfItsField ==
  ASSUME NEW table \in Seq(Entries), NEW n \in DOMAIN table,
         \A i \in 1..(n - 1) : ~SameField(table[i], table[n])
  PROVE  LET c == Discovered(table[n])
         IN c.q = LearnedQ(table, <<c.consumer, c.producer>>, c)
<1> DEFINE e == table[n]
           c == Discovered(e)
           hits == {i \in DOMAIN table : /\ table[i].pair = e.pair /\ table[i].param = e.param
                                         /\ table[i].producedBy = e.producedBy}
<1>1. /\ e \in Entries /\ DOMAIN table = 1..Len(table) /\ Len(table) \in Nat
  OBVIOUS
<1>2. /\ c.consumer = e.pair[1] /\ c.producer = e.pair[2] /\ c.param = e.param
      /\ c.producedBy = e.producedBy /\ c.q = e.q /\ e.pair = <<e.pair[1], e.pair[2]>>
  <2>1. e.pair \in Nat \X Nat
    BY <1>1, GraphMergeAssumption
  <2> HIDE DEF e
  <2> QED  BY <2>1 DEF Discovered, Candidate
<1>3. n \in hits /\ \A i \in hits : n <= i
  <2> SUFFICES ASSUME NEW i \in hits, ~(n <= i) PROVE FALSE
    OBVIOUS
  <2>1. i \in 1..(n - 1)
    BY <1>1
  <2> QED  BY <2>1 DEF SameField
<1>4. Min(hits) = n
  <2>1. hits \subseteq Nat
    BY <1>1
  <2> HIDE DEF hits
  <2>2. \A m \in hits : (\A i \in hits : m <= i) => m = n
    BY <1>3, <2>1
  <2> QED  BY <1>3, <2>2 DEF Min
<1>5. LearnedQ(table, e.pair, c) = e.q
  <2>1. hits = {i \in DOMAIN table : /\ table[i].pair = e.pair /\ table[i].param = c.param
                                     /\ table[i].producedBy = c.producedBy}
    BY <1>2
  <2> HIDE DEF hits, c
  <2>2. LearnedQ(table, e.pair, c) = IF hits = {} THEN Null ELSE table[Min(hits)].q
    BY <2>1 DEF LearnedQ
  <2> QED  BY <1>3, <1>4, <2>2
<1> QED  BY <1>2, <1>5

\* Who is known depends on who is listed, not in which order.
LEMMA KnownOf ==
  ASSUME NEW acc, NEW e
  PROVE  KnownIn(acc, e) <=> \E c \in ToSet(acc) : /\ Slot(c) = <<e.pair[1], e.param>>
                                                   /\ c.producer = e.pair[2]
                                                   /\ c.producedBy = e.producedBy
BY DEF KnownIn, ToSet

\* An entry is known as soon as one of its field is.
LEMMA SameFieldIsKnown ==
  ASSUME NEW acc, NEW d, NEW e, SameField(d, e), KnownIn(acc, d) PROVE KnownIn(acc, e)
BY DEF SameField, KnownIn

\* So a candidate of the table has the Q of its field.
LEMMA DiscoveredQs ==
  ASSUME NEW cands \in Seq(Candidates), NEW table \in Seq(Entries),
         QsAreLearned(ToSet(cands), table), ToSet(cands) \subseteq Apart
  PROVE  /\ QsAreLearned(ToSet(WithDiscovered(cands, table)), table)
         /\ ToSet(WithDiscovered(cands, table)) \subseteq Apart
<1> DEFINE N == Len(table)
<1>1. N \in Nat /\ DOMAIN table = 1..N /\ \A i \in 1..N : table[i] \in Entries
  OBVIOUS
<1>2. PICK p : Grown(p, cands, table) /\ p[N] = WithDiscovered(cands, table)
  BY DiscoveredUnroll
<1>3. /\ p \in [0..N -> Seq(Candidates)] /\ p[0] = cands
      /\ \A n \in 1..N : p[n] = IF KnownIn(p[n - 1], table[n]) THEN p[n - 1]
                                ELSE AddCandidate(p[n - 1], Discovered(table[n]))
  BY <1>2 DEF Grown
<1> HIDE DEF N
<1> DEFINE T == {n \in 0..N : /\ QsAreLearned(ToSet(p[n]), table) /\ ToSet(p[n]) \subseteq Apart
                              /\ \A i \in 1..n : \/ table[i].pair[1] = table[i].pair[2]
                                                 \/ KnownIn(p[n], table[i])}
<1>4. 0 \in T
  BY <1>1, <1>3
<1>5. ASSUME NEW n \in 1..N, n - 1 \in T PROVE n \in T
  <2> DEFINE acc == p[n - 1]
             e == table[n]
             c == Discovered(e)
  <2>1. acc \in Seq(Candidates) /\ c \in Candidates /\ e \in Entries /\ n \in 0..N
    <3>1. n - 1 \in 0..N
      BY <1>1
    <3> QED  BY <1>1, <1>3, <3>1, DiscoveredFits
  <2>2. p[n] = IF KnownIn(acc, e) THEN acc ELSE AddCandidate(acc, c)
    BY <1>3
  <2>3. /\ QsAreLearned(ToSet(acc), table) /\ ToSet(acc) \subseteq Apart
        /\ \A i \in 1..(n - 1) : table[i].pair[1] = table[i].pair[2] \/ KnownIn(acc, table[i])
    BY <1>5
  <2>4. \A i \in 1..n : i \in 1..(n - 1) \/ i = n
    BY <1>1
  <2> HIDE DEF acc
  <2>5. CASE KnownIn(acc, e)
    BY <2>1, <2>2, <2>3, <2>4, <2>5
  <2>6. CASE ~KnownIn(acc, e)
    <3>1. p[n] = AddCandidate(acc, c) /\ ToSet(p[n]) = ToSet(acc) \cup ({c} \cap Apart)
      BY <2>1, <2>2, <2>6, AddHas
    <3>2. ASSUME c \in Apart
          PROVE  c.q = LearnedQ(table, <<c.consumer, c.producer>>, c) /\ KnownIn(p[n], e)
      <4>1. e.pair[1] # e.pair[2]
        BY <3>2 DEF Apart, Discovered, Candidate
      <4>2. ASSUME NEW i \in 1..(n - 1), SameField(table[i], e) PROVE FALSE
        <5>1. KnownIn(acc, table[i])
          BY <2>3, <4>1, <4>2 DEF SameField
        <5> QED  BY <2>6, <4>2, <5>1, SameFieldIsKnown
      <4>3. c.q = LearnedQ(table, <<c.consumer, c.producer>>, c)
        BY <1>1, <4>2, FirstOfItsField
      <4>4. KnownIn(p[n], e)
        BY <2>1, <3>1, <4>1, DiscoveredIsKnown
      <4> QED  BY <4>3, <4>4
    <3>3. c \notin Apart => e.pair[1] = e.pair[2]
      BY <2>1 DEF Apart, Discovered, Candidate
    <3> HIDE DEF c, e
    <3>4. QsAreLearned(ToSet(p[n]), table) /\ ToSet(p[n]) \subseteq Apart
      BY <2>3, <3>1, <3>2 DEF QsAreLearned
    <3>5. ASSUME NEW i \in 1..n
          PROVE  table[i].pair[1] = table[i].pair[2] \/ KnownIn(p[n], table[i])
      <4>1. CASE i \in 1..(n - 1)
        BY <2>1, <2>3, <3>1, <4>1, KnownStays
      <4>2. CASE i = n
        BY <3>2, <3>3, <4>2 DEF e
      <4> QED  BY <2>4, <4>1, <4>2
    <3> QED  BY <2>1, <3>4, <3>5
  <2> QED  BY <2>5, <2>6
<1> HIDE DEF T
<1>6. N \in T
  <2>1. 0..N \subseteq T
    BY <1>1, <1>4, <1>5, AllOfThem
  <2> QED  BY <1>1, <2>1
<1> QED  BY <1>2, <1>6 DEF T

\* The same candidates of the static graph are joined by the same of the table.
LEMMA DiscoveredAlike ==
  ASSUME NEW one \in Seq(Candidates), NEW other \in Seq(Candidates), NEW table \in Seq(Entries),
         ToSet(one) = ToSet(other)
  PROVE  ToSet(WithDiscovered(one, table)) = ToSet(WithDiscovered(other, table))
<1> DEFINE N == Len(table)
<1>1. N \in Nat /\ DOMAIN table = 1..N /\ \A i \in 1..N : table[i] \in Entries
  OBVIOUS
<1>2. PICK p : Grown(p, one, table) /\ p[N] = WithDiscovered(one, table)
  BY DiscoveredUnroll
<1>3. PICK q : Grown(q, other, table) /\ q[N] = WithDiscovered(other, table)
  BY DiscoveredUnroll
<1>4. /\ p \in [0..N -> Seq(Candidates)] /\ p[0] = one
      /\ \A n \in 1..N : p[n] = IF KnownIn(p[n - 1], table[n]) THEN p[n - 1]
                                ELSE AddCandidate(p[n - 1], Discovered(table[n]))
  BY <1>2 DEF Grown
<1>5. /\ q \in [0..N -> Seq(Candidates)] /\ q[0] = other
      /\ \A n \in 1..N : q[n] = IF KnownIn(q[n - 1], table[n]) THEN q[n - 1]
                                ELSE AddCandidate(q[n - 1], Discovered(table[n]))
  BY <1>3 DEF Grown
<1> HIDE DEF N
<1> DEFINE T == {n \in 0..N : ToSet(p[n]) = ToSet(q[n])}
<1>6. 0 \in T
  BY <1>1, <1>4, <1>5
<1>7. ASSUME NEW n \in 1..N, n - 1 \in T PROVE n \in T
  <2>1. /\ p[n - 1] \in Seq(Candidates) /\ q[n - 1] \in Seq(Candidates)
        /\ Discovered(table[n]) \in Candidates /\ n \in 0..N
    <3>1. n - 1 \in 0..N
      BY <1>1
    <3> QED  BY <1>1, <1>4, <1>5, <3>1, DiscoveredFits
  <2>2. ToSet(p[n - 1]) = ToSet(q[n - 1])
    BY <1>7
  <2>3. KnownIn(p[n - 1], table[n]) <=> KnownIn(q[n - 1], table[n])
    BY <2>2, KnownOf
  <2>4. ToSet(AddCandidate(p[n - 1], Discovered(table[n])))
          = ToSet(AddCandidate(q[n - 1], Discovered(table[n])))
    <3>1. ToSet(AddCandidate(p[n - 1], Discovered(table[n])))
            = ToSet(p[n - 1]) \cup ({Discovered(table[n])} \cap Apart)
      BY <2>1, AddHas
    <3>2. ToSet(AddCandidate(q[n - 1], Discovered(table[n])))
            = ToSet(q[n - 1]) \cup ({Discovered(table[n])} \cap Apart)
      BY <2>1, AddHas
    <3> QED  BY <2>2, <3>1, <3>2
  <2> QED  BY <1>4, <1>5, <2>1, <2>2, <2>3, <2>4
<1> HIDE DEF T
<1>8. N \in T
  <2>1. 0..N \subseteq T
    BY <1>1, <1>6, <1>7, AllOfThem
  <2> QED  BY <1>1, <2>1
<1> QED  BY <1>2, <1>3, <1>8 DEF T

-----------------------------------------------------------------------------
\* The elements of two lists one after the other.
LEMMA JoinedHas ==
  ASSUME NEW S, NEW s \in Seq(S), NEW t \in Seq(S)
  PROVE  s \o t \in Seq(S) /\ ToSet(s \o t) = ToSet(s) \cup ToSet(t)
<1>1. /\ s \o t \in Seq(S) /\ DOMAIN (s \o t) = 1..(Len(s) + Len(t))
      /\ DOMAIN s = 1..Len(s) /\ DOMAIN t = 1..Len(t) /\ Len(s) \in Nat /\ Len(t) \in Nat
  BY ConcatProperties
<1>2. \A i \in 1..(Len(s) + Len(t)) : (s \o t)[i] = IF i <= Len(s) THEN s[i] ELSE t[i - Len(s)]
  BY ConcatProperties
<1> DEFINE st == s \o t
<1> HIDE DEF st
<1>3. ToSet(st) \subseteq ToSet(s) \cup ToSet(t)
  <2> SUFFICES ASSUME NEW i \in 1..(Len(s) + Len(t)) PROVE st[i] \in ToSet(s) \cup ToSet(t)
    BY <1>1 DEF ToSet, st
  <2>1. CASE i <= Len(s)
    BY <1>1, <1>2, <2>1 DEF ToSet, st
  <2>2. CASE ~(i <= Len(s))
    <3>1. i - Len(s) \in DOMAIN t
      BY <1>1, <2>2
    <3> QED  BY <1>2, <2>2, <3>1 DEF ToSet, st
  <2> QED  BY <2>1, <2>2
<1>4. ASSUME NEW i \in DOMAIN s PROVE s[i] \in ToSet(st)
  <2>1. i \in 1..(Len(s) + Len(t)) /\ i <= Len(s)
    BY <1>1
  <2>2. i \in DOMAIN st /\ st[i] = s[i]
    BY <1>1, <1>2, <2>1 DEF st
  <2> QED  BY <2>2 DEF ToSet
<1>5. ASSUME NEW i \in DOMAIN t PROVE t[i] \in ToSet(st)
  <2> DEFINE k == i + Len(s)
  <2>1. k \in 1..(Len(s) + Len(t)) /\ ~(k <= Len(s)) /\ k - Len(s) = i
    BY <1>1
  <2> HIDE DEF k
  <2>2. k \in DOMAIN st /\ st[k] = t[i]
    BY <1>1, <1>2, <2>1 DEF st
  <2> QED  BY <2>2 DEF ToSet
<1>6. ToSet(s) \cup ToSet(t) \subseteq ToSet(st)
  BY <1>4, <1>5 DEF ToSet
<1> QED  BY <1>1, <1>3, <1>6 DEF st

\* Inserting adds the element.
LEMMA InsertHas ==
  ASSUME NEW S, NEW acc \in Seq(S), NEW x \in S, NEW k \in 1..(Len(acc) + 1)
  PROVE  InsertAt(acc, k, x) \in Seq(S) /\ ToSet(InsertAt(acc, k, x)) = ToSet(acc) \cup {x}
<1> DEFINE N == Len(acc)
           a == SubSeq(acc, 1, k - 1)
           b == SubSeq(acc, k, N)
<1>1. N \in Nat /\ DOMAIN acc = 1..N /\ k \in Int /\ k - 1 \in Int /\ 1 \in Int
  OBVIOUS
<1>2. /\ \A i \in 1..(k - 1) : acc[i] \in S
      /\ \A i \in k..N : acc[i] \in S
  BY <1>1
<1>3. /\ a \in Seq(S) /\ Len(a) = k - 1 /\ \A i \in 1..(k - 1) : a[i] = acc[i]
  <2>1. /\ a \in Seq(S) /\ Len(a) = IF 1 <= k - 1 THEN (k - 1) - 1 + 1 ELSE 0
        /\ \A i \in 1..((k - 1) - 1 + 1) : a[i] = acc[1 + i - 1]
    BY <1>1, <1>2, SubSeqProperties
  <2> HIDE DEF a
  <2> QED  BY <1>1, <2>1
<1>4. /\ b \in Seq(S) /\ Len(b) = N - k + 1 /\ \A i \in 1..(N - k + 1) : b[i] = acc[k + i - 1]
  <2>1. /\ b \in Seq(S) /\ Len(b) = IF k <= N THEN N - k + 1 ELSE 0
        /\ \A i \in 1..(N - k + 1) : b[i] = acc[k + i - 1]
    BY <1>1, <1>2, SubSeqProperties
  <2> HIDE DEF b
  <2> QED  BY <1>1, <2>1
<1>5. InsertAt(acc, k, x) = (a \o <<x>>) \o b
  BY DEF InsertAt
<1> HIDE DEF a, b, N
<1> DEFINE one == <<x>>
<1>6. one \in Seq(S) /\ ToSet(one) = {x}
  <2>1. one \in Seq(S) /\ DOMAIN one = {1} /\ one[1] = x
    OBVIOUS
  <2> HIDE DEF one
  <2> QED  BY <2>1 DEF ToSet
<1> DEFINE head == a \o one
<1>10. InsertAt(acc, k, x) = head \o b
  BY <1>5
<1> HIDE DEF one
<1>7. head \in Seq(S) /\ ToSet(head) = ToSet(a) \cup {x}
  <2>1. head \in Seq(S) /\ ToSet(head) = ToSet(a) \cup ToSet(one)
    BY <1>3, <1>6, JoinedHas
  <2> QED  BY <1>6, <2>1
<1> HIDE DEF head
<1>8. head \o b \in Seq(S) /\ ToSet(head \o b) = (ToSet(a) \cup {x}) \cup ToSet(b)
  <2>1. head \o b \in Seq(S) /\ ToSet(head \o b) = ToSet(head) \cup ToSet(b)
    BY <1>4, <1>7, JoinedHas
  <2> QED  BY <1>7, <2>1
<1>9. ToSet(acc) = ToSet(a) \cup ToSet(b)
  <2>1. DOMAIN a = 1..(k - 1) /\ DOMAIN b = 1..(N - k + 1)
    BY <1>3, <1>4
  <2>2. ASSUME NEW i \in 1..N PROVE acc[i] \in ToSet(a) \cup ToSet(b)
    <3>1. CASE i <= k - 1
      <4>1. i \in DOMAIN a /\ a[i] = acc[i]
        BY <1>1, <1>3, <2>1, <3>1
      <4> QED  BY <4>1 DEF ToSet
    <3>2. CASE ~(i <= k - 1)
      <4> DEFINE j == i - k + 1
      <4>1. j \in 1..(N - k + 1) /\ k + j - 1 = i
        BY <1>1, <3>2
      <4> HIDE DEF j
      <4>2. j \in DOMAIN b /\ b[j] = acc[i]
        BY <1>4, <2>1, <4>1
      <4> QED  BY <4>2 DEF ToSet
    <3> QED  BY <3>1, <3>2
  <2>3. ASSUME NEW i \in 1..(k - 1) PROVE a[i] \in ToSet(acc)
    <3>1. i \in DOMAIN acc /\ a[i] = acc[i]
      BY <1>1, <1>3 DEF N
    <3> QED  BY <3>1 DEF ToSet
  <2>4. ASSUME NEW i \in 1..(N - k + 1) PROVE b[i] \in ToSet(acc)
    <3> DEFINE j == k + i - 1
    <3>1. j \in DOMAIN acc /\ b[i] = acc[j]
      BY <1>1, <1>4 DEF N
    <3> QED  BY <3>1 DEF ToSet
  <2>5. ToSet(a) \cup ToSet(b) \subseteq ToSet(acc)
    BY <2>1, <2>3, <2>4 DEF ToSet
  <2>6. ToSet(acc) \subseteq ToSet(a) \cup ToSet(b)
    <3> SUFFICES ASSUME NEW i \in DOMAIN acc PROVE acc[i] \in ToSet(a) \cup ToSet(b)
      BY DEF ToSet
    <3> QED  BY <1>1, <2>2
  <2> QED  BY <2>5, <2>6
<1> QED  BY <1>8, <1>9, <1>10

\* Where a match goes among those already in order.
Rung(acc, m) == Cardinality({i \in DOMAIN acc : ~MatchBefore(m, acc[i])}) + 1

\* There is such a place.
LEMMA RungFits ==
  ASSUME NEW S, NEW acc \in Seq(S), NEW m PROVE Rung(acc, m) \in 1..(Len(acc) + 1)
<1> DEFINE N == Len(acc)
           after == {i \in DOMAIN acc : ~MatchBefore(m, acc[i])}
<1>1. N \in Nat /\ after \subseteq 1..N
  OBVIOUS
<1> HIDE DEF after, N
<1>2. IsFiniteSet(1..N) /\ Cardinality(1..N) = N
  <2>1. IsFiniteSet(1..N) /\ Cardinality(1..N) = IF 1 > N THEN 0 ELSE N - 1 + 1
    BY <1>1, FS_Interval
  <2> QED  BY <1>1, <2>1
<1>3. IsFiniteSet(after) /\ Cardinality(after) <= N
  BY <1>1, <1>2, FS_Subset
<1>4. Cardinality(after) \in Nat
  BY <1>3, FS_CardinalityType
<1>5. Rung(acc, m) = Cardinality(after) + 1
  BY DEF Rung, after
<1> QED  BY <1>1, <1>3, <1>4, <1>5 DEF N

\* The matches sorted so far.
Sorts(p, S, matches) ==
    /\ p \in [0..Len(matches) -> Seq(S)] /\ p[0] = <<>>
    /\ \A n \in 1..Len(matches) :
          p[n] = InsertAt(p[n - 1], Rung(p[n - 1], matches[n]), matches[n])

\* Sorting goes match by match.
LEMMA SortedUnroll ==
  ASSUME NEW S, NEW matches \in Seq(S)
  PROVE  \E p : Sorts(p, S, matches) /\ p[Len(matches)] = Sorted(matches)
<1> DEFINE N == Len(matches)
           V == Seq(S)
           more(acc, n) == InsertAt(acc, Rung(acc, matches[n]), matches[n])
           step == [a \in V \X (1..N) |-> more(a[1], a[2])]
           Unrolled(f) == f = [s \in SUBSET (1..N) |->
                                 IF s = {} THEN <<>> ELSE more(f[s \ {Max(s)}], Max(s))]
           chosen == CHOOSE f : Unrolled(f)
<1>1. N \in Nat /\ DOMAIN matches = 1..N /\ <<>> \in V
  OBVIOUS
<1>2. \A acc \in V, n \in 1..N : more(acc, n) \in V
  BY RungFits, InsertHas
<1>3. Sorted(matches) = chosen[1..N]
  BY <1>1 DEF Sorted, Rung, FoldLeft, MapThenFoldSet
<1> HIDE DEF more, V
<1>4. step \in [V \X (1..N) -> V] /\ \A x \in V, n \in 1..N : step[<<x, n>>] = more(x, n)
  BY <1>2
<1> HIDE DEF step
<1>5. \E f : Unrolled(f)
  <2>1. PICK f : Folds(f, V, N, <<>>, step)
    <3> HIDE DEF N
    <3> QED  BY <1>1, <1>4, FoldsExist
  <2>2. ASSUME NEW s \in SUBSET (1..N), s # {} PROVE f[s] = more(f[s \ {Max(s)}], Max(s))
    <3> HIDE DEF N
    <3>1. Max(s) \in 1..N
      BY <1>1, <2>2, LastOfSet
    <3>2. f[s \ {Max(s)}] \in V
      BY <2>1 DEF Folds
    <3> QED  BY <1>4, <2>1, <2>2, <3>1, <3>2 DEF Folds
  <2>3. f = [s \in SUBSET (1..N) |-> IF s = {} THEN <<>> ELSE more(f[s \ {Max(s)}], Max(s))]
    BY <2>1, <2>2 DEF Folds
  <2> QED  BY <2>3
<1>6. Unrolled(chosen)
  BY <1>5
<1> HIDE DEF chosen, N
<1>7. \E p : Runs(p, V, N, <<>>, step, chosen[1..N])
  <2>1. chosen[{}] = <<>>
    BY <1>6
  <2>2. ASSUME NEW s \in SUBSET (1..N), s # {}, chosen[s \ {Max(s)}] \in V
        PROVE  chosen[s] = step[<<chosen[s \ {Max(s)}], Max(s)>>]
    <3>1. Max(s) \in 1..N
      BY <1>1, <2>2, LastOfSet
    <3>2. chosen[s] = more(chosen[s \ {Max(s)}], Max(s))
      BY <1>6, <2>2
    <3> QED  BY <1>4, <2>2, <3>1, <3>2
  <2> HIDE DEF Unrolled
  <2> QED  BY <1>1, <1>4, <2>1, <2>2, FoldRuns
<1>8. PICK p : Runs(p, V, N, <<>>, step, chosen[1..N])
  BY <1>7
<1>9. p \in [0..N -> V] /\ p[0] = <<>> /\ p[N] = chosen[1..N]
  BY <1>8 DEF Runs, Solves
<1>10. ASSUME NEW n \in 1..N PROVE p[n] = more(p[n - 1], n)
  <2>1. n - 1 \in 0..N
    BY <1>1
  <2> QED  BY <1>4, <1>8, <1>9, <2>1 DEF Runs, Solves
<1> QED  BY <1>3, <1>9, <1>10 DEF N, V, more, Sorts

\* Sorting matches forgets none and adds none.
LEMMA SortedHas ==
  ASSUME NEW S, NEW matches \in Seq(S)
  PROVE  Sorted(matches) \in Seq(S) /\ ToSet(Sorted(matches)) = ToSet(matches)
<1> DEFINE N == Len(matches)
<1>1. N \in Nat /\ DOMAIN matches = 1..N /\ \A n \in 1..N : matches[n] \in S
  OBVIOUS
<1>2. PICK p : Sorts(p, S, matches) /\ p[N] = Sorted(matches)
  BY SortedUnroll
<1>3. /\ p \in [0..N -> Seq(S)] /\ p[0] = <<>>
      /\ \A n \in 1..N : p[n] = InsertAt(p[n - 1], Rung(p[n - 1], matches[n]), matches[n])
  BY <1>2 DEF Sorts
<1> HIDE DEF N
<1> DEFINE T == {n \in 0..N : ToSet(p[n]) = {matches[i] : i \in 1..n}}
<1>4. 0 \in T
  <2>1. ToSet(p[0]) = {} /\ 1..0 = {} /\ 0 \in 0..N
    BY <1>1, <1>3 DEF ToSet
  <2> QED  BY <2>1
<1>5. ASSUME NEW n \in 1..N, n - 1 \in T PROVE n \in T
  <2> DEFINE old == p[n - 1]
             x == matches[n]
  <2>1. /\ old \in Seq(S) /\ x \in S /\ n \in 0..N
    <3>1. n - 1 \in 0..N /\ n \in 0..N /\ x \in S
      BY <1>1
    <3>2. old \in Seq(S)
      BY <1>3, <3>1
    <3> QED  BY <3>1, <3>2
  <2>6. 1..n = (1..(n - 1)) \cup {n}
    BY <1>1
  <2>2. ToSet(old) = {matches[i] : i \in 1..(n - 1)}
    BY <1>5
  <2>3. p[n] = InsertAt(old, Rung(old, x), x)
    BY <1>3
  <2> HIDE DEF old, x
  <2>4. ToSet(p[n]) = ToSet(old) \cup {x}
    BY <2>1, <2>3, RungFits, InsertHas
  <2>5. ToSet(p[n]) = {matches[i] : i \in 1..n}
    BY <2>2, <2>4, <2>6 DEF x
  <2> QED  BY <2>1, <2>5
<1> HIDE DEF T
<1>6. N \in T
  <2>1. 0..N \subseteq T
    BY <1>1, <1>4, <1>5, AllOfThem
  <2> QED  BY <1>1, <2>1
<1>7. p[N] \in Seq(S)
  BY <1>1, <1>3
<1> QED  BY <1>1, <1>2, <1>6, <1>7 DEF T, ToSet

-----------------------------------------------------------------------------
Known(qs) == {i \in DOMAIN qs : qs[i] # Null}

\* strongestQ gives a Q none is felt more strongly about than, if there is any.
LEMMA StrongestIs ==
  ASSUME NEW qs \in Seq(Int \cup {Null})
  PROVE  IF Known(qs) = {} THEN StrongestQ(qs) = Null
         ELSE \E i \in Known(qs) : /\ StrongestQ(qs) = qs[i]
                                   /\ \A j \in Known(qs) : Abs(qs[j]) <= Abs(qs[i])
<1> DEFINE known == Known(qs)
           strongest == {i \in known : \A j \in known : Abs(qs[j]) <= Abs(qs[i])}
           N == Len(qs)
<1>1. N \in Nat /\ known \subseteq 1..N /\ \A i \in known : qs[i] \in Int
  BY DEF Known
<1>2. StrongestQ(qs) = IF known = {} THEN Null ELSE qs[Min(strongest)]
  BY DEF StrongestQ, Known
<1> HIDE DEF known, N
<1>3. \A i \in known : Abs(qs[i]) \in Int
  BY <1>1 DEF Abs
<1> DEFINE T == {n \in 0..N : \/ known \cap (1..n) = {}
                              \/ \E i \in known : \A j \in known \cap (1..n) :
                                    Abs(qs[j]) <= Abs(qs[i])}
<1>4. 0 \in T
  <2>1. 0 \in 0..N /\ 1..0 = {}
    BY <1>1
  <2> QED  BY <2>1
<1>5. ASSUME NEW n \in 1..N, n - 1 \in T PROVE n \in T
  <2>1. n \in 0..N /\ 1..n = (1..(n - 1)) \cup {n}
    BY <1>1
  <2>2. CASE n \notin known
    <3>1. known \cap (1..n) = known \cap (1..(n - 1))
      BY <2>1, <2>2
    <3> QED  BY <1>5, <2>1, <3>1
  <2>3. CASE n \in known /\ known \cap (1..(n - 1)) = {}
    <3>1. \A j \in known \cap (1..n) : j = n
      BY <2>1, <2>3
    <3>2. Abs(qs[n]) <= Abs(qs[n])
      BY <1>3, <2>3
    <3>3. \A j \in known \cap (1..n) : Abs(qs[j]) <= Abs(qs[n])
      BY <3>1, <3>2
    <3> QED  BY <2>1, <2>3, <3>3
  <2>4. CASE n \in known /\ known \cap (1..(n - 1)) # {}
    <3>1. PICK i \in known : \A j \in known \cap (1..(n - 1)) : Abs(qs[j]) <= Abs(qs[i])
      BY <1>5, <2>4
    <3>2. Abs(qs[i]) \in Int /\ Abs(qs[n]) \in Int
      BY <1>3, <2>4, <3>1
    <3>3. CASE Abs(qs[n]) <= Abs(qs[i])
      <4>1. \A j \in known \cap (1..n) : Abs(qs[j]) <= Abs(qs[i])
        BY <2>1, <3>1, <3>3
      <4> QED  BY <2>1, <4>1
    <3>4. CASE ~(Abs(qs[n]) <= Abs(qs[i]))
      <4>1. ASSUME NEW j \in known \cap (1..n) PROVE Abs(qs[j]) <= Abs(qs[n])
        <5>1. CASE j = n
          BY <3>2, <5>1
        <5>2. CASE j # n
          <6>1. Abs(qs[j]) <= Abs(qs[i]) /\ Abs(qs[j]) \in Int
            BY <1>3, <2>1, <3>1, <5>2
          <6> QED  BY <3>2, <3>4, <6>1
        <5> QED  BY <5>1, <5>2
      <4> QED  BY <2>1, <2>4, <4>1
    <3> QED  BY <3>3, <3>4
  <2> QED  BY <2>2, <2>3, <2>4
<1> HIDE DEF T
<1>6. N \in T
  <2>1. 0..N \subseteq T
    BY <1>1, <1>4, <1>5, AllOfThem
  <2> QED  BY <1>1, <2>1
<1>7. ASSUME known # {} PROVE Min(strongest) \in strongest
  <2>1. strongest # {}
    <3>1. known \cap (1..N) = known
      BY <1>1
    <3> QED  BY <1>6, <1>7, <3>1 DEF T
  <2>2. strongest \in SUBSET Nat
    <3>1. strongest \subseteq known
      OBVIOUS
    <3>2. 1..N \subseteq Nat
      BY <1>1
    <3> HIDE DEF strongest
    <3> QED  BY <1>1, <3>1, <3>2
  <2> HIDE DEF strongest
  <2>3. \E k \in strongest : \A n \in strongest : k <= n
    BY <2>1, <2>2, LeastOfSome
  <2> QED  BY <2>3 DEF Min
<1> HIDE DEF strongest
<1>8. CASE known = {}
  BY <1>2, <1>8 DEF known
<1>9. CASE known # {}
  <2>1. Min(strongest) \in known /\ \A j \in known : Abs(qs[j]) <= Abs(qs[Min(strongest)])
    BY <1>7, <1>9 DEF strongest
  <2>2. StrongestQ(qs) = qs[Min(strongest)]
    BY <1>2, <1>9
  <2> QED  BY <1>9, <2>1, <2>2 DEF known
<1> QED  BY <1>8, <1>9

\* Of a set of matches, the Q felt most strongly about; none where there is none.
StrongestOf(S, q) ==
    /\ (\A m \in S : m.q = Null) => q = Null
    /\ (\E m \in S : m.q # Null) =>
          /\ \E m \in S : m.q # Null /\ q = m.q
          /\ \A m \in S : m.q # Null => Abs(m.q) <= Abs(q)

\* A similarity is a number where there is one.
LEMMA LargestIs ==
  ASSUME NEW sims \in Seq((Nat \ {0}) \cup {Null})
  PROVE  Or0(MaxOrNull(ToSet(sims) \ {Null})) \in Int
<1> DEFINE S == ToSet(sims) \ {Null}
<1>1. /\ \A i \in DOMAIN sims : sims[i] \in (Nat \ {0}) \cup {Null}
      /\ sims \in Seq(Int \cup {Null}) /\ Null \notin Int
  BY GraphMergeAssumption
<1>2. CASE Known(sims) = {}
  <2>1. S = {}
    BY <1>2 DEF Known, ToSet
  <2> QED  BY <2>1 DEF MaxOrNull, Or0
<1>3. CASE Known(sims) # {}
  <2>1. PICK i \in Known(sims) : \A j \in Known(sims) : Abs(sims[j]) <= Abs(sims[i])
    BY <1>1, <1>3, StrongestIs
  <2>2. \A j \in Known(sims) : sims[j] \in Nat /\ Abs(sims[j]) = sims[j]
    BY <1>1 DEF Known, Abs
  <2>3. sims[i] \in S /\ \A x \in S : \E j \in Known(sims) : x = sims[j]
    BY <2>1 DEF Known, ToSet
  <2> HIDE DEF S
  <2>4. \A x \in S : sims[i] >= x
    BY <2>1, <2>2, <2>3
  <2>5. Max(S) \in S
    BY <2>3, <2>4 DEF Max
  <2>6. MaxOrNull(S) \in Int
    BY <2>2, <2>3, <2>5 DEF MaxOrNull
  <2> QED  BY <1>1, <2>6 DEF Or0, S
<1> QED  BY <1>2, <1>3

\* What an edge says: the matches of its winners, and of their Q-values its kind.
Says(e, won, proposed, hasLearned) ==
    /\ ToSet(e.matches) = {MatchOf(w, hasLearned) : w \in won}
    /\ StrongestOf(ToSet(e.matches), e.maxQ)
    /\ e.kind = Classify(e.maxQ, <<e.from, e.to>> \in proposed)
    /\ Or0(e.maxSimilarity) \in Int

\* The Q of a match is a number or nothing.
LEMMA MatchFits ==
  ASSUME NEW w \in Candidates, NEW hasLearned
  PROVE  MatchOf(w, hasLearned).q \in Int \cup {Null}
BY DEF MatchOf, Candidates

\* Every edge says what its winners come to.
LEMMA EdgeSays ==
  ASSUME NEW won \in Seq(Candidates), NEW from, NEW to, NEW proposed, NEW hasLearned
  PROVE  LET e == Edge(<<from, to>>, won, proposed, hasLearned)
         IN e.from = from /\ e.to = to /\ Says(e, ToSet(won), proposed, hasLearned)
<1> DEFINE pair == <<from, to>>
           M == {MatchOf(w, hasLearned) : w \in Candidates}
           matches == [i \in DOMAIN won |-> MatchOf(won[i], hasLearned)]
           qs == [i \in DOMAIN won |-> matches[i].q]
           sims == [i \in DOMAIN won |-> matches[i].similarity]
           e == Edge(pair, won, proposed, hasLearned)
<1>1. DOMAIN won = 1..Len(won) /\ Len(won) \in Nat /\ \A i \in DOMAIN won : won[i] \in Candidates
  OBVIOUS
<1>2. /\ e.from = from /\ e.to = to /\ e.matches = Sorted(matches)
      /\ e.maxQ = StrongestQ(qs) /\ e.kind = Classify(StrongestQ(qs), pair \in proposed)
  <2> HIDE DEF qs, matches
  <2>1. pair[1] = from /\ pair[2] = to
    OBVIOUS
  <2> HIDE DEF pair
  <2> QED  BY <2>1 DEF Edge, qs, matches
<1>3. matches \in Seq(M) /\ DOMAIN matches = DOMAIN won
  BY <1>1
<1>4. \A i \in DOMAIN won : qs[i] = matches[i].q /\ matches[i].q \in Int \cup {Null}
  BY <1>1, MatchFits
<1>5. qs \in Seq(Int \cup {Null}) /\ DOMAIN qs = DOMAIN won
  BY <1>1, <1>4
<1>6. ToSet(matches) = {MatchOf(w, hasLearned) : w \in ToSet(won)}
  BY DEF ToSet
<1>10. Or0(e.maxSimilarity) \in Int
  <2>1. e.maxSimilarity = MaxOrNull({matches[i].similarity : i \in DOMAIN won} \ {Null})
    <3> HIDE DEF qs, matches
    <3> QED  BY DEF Edge, qs, matches
  <2>2. ToSet(sims) = {matches[i].similarity : i \in DOMAIN won}
    BY DEF ToSet
  <2>3. \A i \in DOMAIN won : sims[i] \in (Nat \ {0}) \cup {Null}
    BY <1>1 DEF MatchOf, Candidates
  <2>4. sims \in Seq((Nat \ {0}) \cup {Null})
    BY <1>1, <2>3
  <2> HIDE DEF sims
  <2> QED  BY <2>1, <2>2, <2>4, LargestIs
<1> HIDE DEF e, M, qs, sims
<1>7. ToSet(e.matches) = ToSet(matches)
  <2> HIDE DEF matches
  <2> QED  BY <1>2, <1>3, SortedHas
<1> HIDE DEF matches
<1>8. StrongestOf(ToSet(matches), e.maxQ)
  <2>1. CASE Known(qs) = {}
    <3>1. e.maxQ = Null
      BY <1>2, <1>5, <2>1, StrongestIs
    <3>2. \A m \in ToSet(matches) : m.q = Null
      BY <1>3, <1>4, <1>5, <2>1 DEF ToSet, Known
    <3> QED  BY <3>1, <3>2 DEF StrongestOf
  <2>2. CASE Known(qs) # {}
    <3>1. PICK i \in Known(qs) : /\ e.maxQ = qs[i]
                                 /\ \A j \in Known(qs) : Abs(qs[j]) <= Abs(qs[i])
      BY <1>2, <1>5, <2>2, StrongestIs
    <3>2. i \in DOMAIN matches /\ matches[i].q # Null /\ e.maxQ = matches[i].q
      BY <1>3, <1>4, <1>5, <3>1 DEF Known
    <3>3. matches[i] \in ToSet(matches)
      BY <3>2 DEF ToSet
    <3>4. ASSUME NEW m \in ToSet(matches), m.q # Null PROVE Abs(m.q) <= Abs(e.maxQ)
      <4>1. PICK j \in DOMAIN matches : m = matches[j]
        BY DEF ToSet
      <4>2. j \in Known(qs) /\ qs[j] = m.q
        BY <1>3, <1>4, <1>5, <3>4, <4>1 DEF Known
      <4> QED  BY <3>1, <4>2
    <3> QED  BY <3>2, <3>3, <3>4 DEF StrongestOf
  <2> QED  BY <2>1, <2>2
<1>9. Says(e, ToSet(won), proposed, hasLearned)
  BY <1>2, <1>6, <1>7, <1>8, <1>10 DEF Says
<1> QED  BY <1>2, <1>9 DEF e

-----------------------------------------------------------------------------
\* Who wins the parameters that have candidates, and those of one pair.
Winners(cands) == {Winner(cands, Slot(c)) : c \in ToSet(cands)}

Linked(won, from, to) == {w \in won : w.producer = from /\ w.consumer = to}

\* One edge for each pair of winners, that says what they come to.
Resolves(edges, won, proposed, hasLearned) ==
    /\ \A e \in edges : /\ Linked(won, e.from, e.to) # {}
                        /\ Says(e, Linked(won, e.from, e.to), proposed, hasLearned)
    /\ \A d, e \in edges : d.from = e.from /\ d.to = e.to => d = e

\* A winner is a candidate for its own parameter.
LEMMA WinnerFits ==
  ASSUME NEW cands \in Seq(Candidates), NEW c \in ToSet(cands)
  PROVE  /\ Winner(cands, Slot(c)) \in ToSet(cands) /\ Slot(Winner(cands, Slot(c))) = Slot(c)
         /\ Winner(cands, Slot(c)) \in Candidates /\ Best(cands, Slot(c), Winner(cands, Slot(c)))
<1>1. PICK k \in DOMAIN cands : c = cands[k]
  BY DEF ToSet
<1>2. Best(cands, Slot(c), Winner(cands, Slot(c)))
  BY <1>1, WinnerIsBest
<1>3. PICK i \in DOMAIN cands : Winner(cands, Slot(c)) = cands[i] /\ Slot(cands[i]) = Slot(c)
  BY <1>2 DEF Best
<1>4. cands[i] \in Candidates /\ cands[i] \in ToSet(cands)
  BY DEF ToSet
<1> QED  BY <1>2, <1>3, <1>4

\* Resolving draws one edge for each pair of winners, and leaves out none.
LEMMA ResolveSays ==
  ASSUME NEW cands \in Seq(Candidates), NEW proposed, NEW hasLearned
  PROVE  LET edges == ResolveSlots(cands, proposed, hasLearned)
         IN /\ edges \in Seq(ToSet(edges))
            /\ Resolves(ToSet(edges), Winners(cands), proposed, hasLearned)
            /\ \A w \in Winners(cands) : \E e \in ToSet(edges) :
                  e.from = w.producer /\ e.to = w.consumer
<1> DEFINE asked == [i \in DOMAIN cands |-> Slot(cands[i])]
           slots == Distinct(asked)
           winners == [i \in DOMAIN slots |-> Winner(cands, slots[i])]
           links == [i \in DOMAIN winners |-> <<winners[i].producer, winners[i].consumer>>]
           pairs == Distinct(links)
           at(p) == {i \in DOMAIN winners : <<winners[i].producer, winners[i].consumer>> = p}
           of(p) == Picked(winners, at(p))
           edges == [i \in DOMAIN pairs |-> Edge(pairs[i], of(pairs[i]), proposed, hasLearned)]
<1>1. ResolveSlots(cands, proposed, hasLearned) = edges
  BY DEF ResolveSlots
<1>2. /\ DOMAIN cands = 1..Len(cands) /\ Len(cands) \in Nat
      /\ \A i \in DOMAIN cands : cands[i] \in Candidates /\ Slot(cands[i]) \in Nat \X Nat
  <2>1. /\ DOMAIN cands = 1..Len(cands) /\ Len(cands) \in Nat
        /\ \A i \in DOMAIN cands : cands[i] \in Candidates
    OBVIOUS
  <2>2. \A c \in Candidates : Slot(c) \in Nat \X Nat
    BY DEF Candidates, Slot
  <2> QED  BY <2>1, <2>2
<1>3. asked \in Seq(Nat \X Nat) /\ ToSet(asked) = {Slot(c) : c \in ToSet(cands)}
  BY <1>2 DEF ToSet
<1> HIDE DEF asked
<1>4. slots \in Seq(Nat \X Nat) /\ ToSet(slots) = {Slot(c) : c \in ToSet(cands)}
  BY <1>3, DistinctHas
<1> HIDE DEF slots
<1>5. ASSUME NEW i \in DOMAIN slots
      PROVE  \E c \in ToSet(cands) : slots[i] = Slot(c)
  BY <1>4 DEF ToSet
<1>6. winners \in Seq(Candidates) /\ DOMAIN winners = DOMAIN slots
  <2>1. \A i \in DOMAIN slots : Winner(cands, slots[i]) \in Candidates
    BY <1>5, WinnerFits
  <2>2. DOMAIN slots = 1..Len(slots) /\ Len(slots) \in Nat
    BY <1>4
  <2> QED  BY <2>1, <2>2
<1>7. ToSet(winners) = Winners(cands)
  <2>1. ToSet(winners) = {Winner(cands, s) : s \in ToSet(slots)}
    BY <1>6 DEF ToSet
  <2> QED  BY <1>4, <2>1 DEF Winners
<1> HIDE DEF winners
<1>8. /\ DOMAIN winners = 1..Len(winners) /\ Len(winners) \in Nat
      /\ \A i \in DOMAIN winners : /\ winners[i] \in Candidates
                                   /\ winners[i].producer \in Nat /\ winners[i].consumer \in Nat
  <2>1. /\ DOMAIN winners = 1..Len(winners) /\ Len(winners) \in Nat
        /\ \A i \in DOMAIN winners : winners[i] \in Candidates
    BY <1>6
  <2> QED  BY <2>1 DEF Candidates
<1>9. links \in Seq(Nat \X Nat) /\ DOMAIN links = DOMAIN winners
  BY <1>8
<1>10. \A i \in DOMAIN winners : links[i] = <<winners[i].producer, winners[i].consumer>>
  OBVIOUS
<1> HIDE DEF links
<1>11. /\ pairs \in Seq(Nat \X Nat) /\ ToSet(pairs) = ToSet(links)
       /\ \A i, j \in DOMAIN pairs : pairs[i] = pairs[j] => i = j
  BY <1>9, DistinctHas
<1> HIDE DEF pairs
<1>12. ASSUME NEW i \in DOMAIN pairs
       PROVE  /\ pairs[i] = <<pairs[i][1], pairs[i][2]>>
              /\ \E k \in DOMAIN winners : pairs[i] = <<winners[k].producer, winners[k].consumer>>
  <2>1. pairs[i] \in Nat \X Nat
    BY <1>11
  <2>2. pairs[i] \in ToSet(links)
    BY <1>11 DEF ToSet
  <2>3. \E k \in DOMAIN winners : pairs[i] = links[k]
    BY <1>9, <2>2 DEF ToSet
  <2> QED  BY <1>10, <2>1, <2>3
<1>13. ASSUME NEW from, NEW to
       PROVE  /\ of(<<from, to>>) \in Seq(Candidates)
              /\ ToSet(of(<<from, to>>)) = Linked(Winners(cands), from, to)
  <2> DEFINE places == at(<<from, to>>)
  <2>1. /\ Picked(winners, places) \in Seq(Candidates)
        /\ ToSet(Picked(winners, places)) = {winners[i] : i \in places \cap DOMAIN winners}
    BY <1>6, PickedHas
  <2>2. {winners[i] : i \in places \cap DOMAIN winners} = Linked(ToSet(winners), from, to)
    BY DEF ToSet, Linked
  <2> QED  BY <1>7, <2>1, <2>2
<1> HIDE DEF of
<1>14. ASSUME NEW i \in DOMAIN pairs
       PROVE  /\ edges[i].from = pairs[i][1] /\ edges[i].to = pairs[i][2]
              /\ Says(edges[i], Linked(Winners(cands), pairs[i][1], pairs[i][2]), proposed,
                      hasLearned)
  <2> DEFINE from == pairs[i][1]
             to == pairs[i][2]
             won == of(<<from, to>>)
  <2>1. edges[i] = Edge(<<from, to>>, won, proposed, hasLearned)
    BY <1>12
  <2>2. won \in Seq(Candidates) /\ ToSet(won) = Linked(Winners(cands), from, to)
    BY <1>13
  <2> HIDE DEF from, to, won, edges
  <2>3. /\ edges[i].from = from /\ edges[i].to = to
        /\ Says(edges[i], ToSet(won), proposed, hasLearned)
    BY <2>1, <2>2, EdgeSays
  <2> QED  BY <2>2, <2>3 DEF from, to
<1>15. edges \in Seq(ToSet(edges)) /\ DOMAIN edges = DOMAIN pairs
  <2>1. DOMAIN pairs = 1..Len(pairs) /\ Len(pairs) \in Nat
    BY <1>11
  <2>2. DOMAIN edges = DOMAIN pairs /\ \A i \in DOMAIN pairs : edges[i] \in ToSet(edges)
    BY DEF ToSet
  <2>3. edges = [i \in 1..Len(pairs) |-> edges[i]]
    BY <2>1
  <2> HIDE DEF edges
  <2> QED  BY <2>1, <2>2, <2>3
<1> HIDE DEF edges
<1>16. Resolves(ToSet(edges), Winners(cands), proposed, hasLearned)
  <2>1. ASSUME NEW e \in ToSet(edges)
        PROVE  /\ Linked(Winners(cands), e.from, e.to) # {}
               /\ Says(e, Linked(Winners(cands), e.from, e.to), proposed, hasLearned)
    <3>1. PICK i \in DOMAIN pairs : e = edges[i]
      BY <1>15 DEF ToSet
    <3>2. PICK k \in DOMAIN winners : pairs[i] = <<winners[k].producer, winners[k].consumer>>
      BY <1>12
    <3>3. winners[k] \in Winners(cands)
      BY <1>7 DEF ToSet
    <3>4. /\ pairs[i][1] = e.from /\ pairs[i][2] = e.to
          /\ Says(e, Linked(Winners(cands), e.from, e.to), proposed, hasLearned)
      BY <1>14, <3>1
    <3>5. winners[k].producer = e.from /\ winners[k].consumer = e.to
      BY <3>2, <3>4
    <3>6. winners[k] \in Linked(Winners(cands), e.from, e.to)
      BY <3>3, <3>5 DEF Linked
    <3> QED  BY <3>4, <3>6
  <2>2. ASSUME NEW d \in ToSet(edges), NEW e \in ToSet(edges), d.from = e.from, d.to = e.to
        PROVE  d = e
    <3>1. PICK i \in DOMAIN pairs : d = edges[i]
      BY <1>15 DEF ToSet
    <3>2. PICK j \in DOMAIN pairs : e = edges[j]
      BY <1>15 DEF ToSet
    <3>3. pairs[i] = pairs[j]
      BY <1>12, <1>14, <2>2, <3>1, <3>2
    <3> QED  BY <1>11, <3>1, <3>2, <3>3
  <2> QED  BY <2>1, <2>2 DEF Resolves
<1>17. ASSUME NEW w \in Winners(cands)
       PROVE  \E e \in ToSet(edges) : e.from = w.producer /\ e.to = w.consumer
  <2>1. PICK k \in DOMAIN winners : w = winners[k]
    BY <1>7 DEF ToSet
  <2>2. links[k] \in ToSet(pairs)
    BY <1>9, <1>11 DEF ToSet
  <2>3. PICK i \in DOMAIN pairs : pairs[i] = <<w.producer, w.consumer>>
    BY <1>10, <2>1, <2>2 DEF ToSet
  <2>4. edges[i].from = w.producer /\ edges[i].to = w.consumer
    BY <1>14, <2>3
  <2>5. edges[i] \in ToSet(edges)
    BY <1>15 DEF ToSet
  <2> QED  BY <2>4, <2>5
<1> QED  BY <1>1, <1>15, <1>16, <1>17

\* Of the edges those are drawn whose operations are listed.
LEMMA DrawnHas ==
  ASSUME NEW edges, edges \in Seq(ToSet(edges)), NEW nodes
  PROVE  ToSet(Drawn(edges, nodes)) = {e \in ToSet(edges) : e.from \in nodes /\ e.to \in nodes}
<1> DEFINE places == {i \in DOMAIN edges : edges[i].from \in nodes /\ edges[i].to \in nodes}
<1>1. ToSet(Picked(edges, places)) = {edges[i] : i \in places \cap DOMAIN edges}
  BY PickedHas
<1>2. {edges[i] : i \in places \cap DOMAIN edges}
        = {e \in ToSet(edges) : e.from \in nodes /\ e.to \in nodes}
  BY DEF ToSet
<1>3. Drawn(edges, nodes) = Picked(edges, places)
  BY DEF Drawn
<1> QED  BY <1>1, <1>2, <1>3

-----------------------------------------------------------------------------
\* What a merge goes through: its candidates and the edges that can be drawn.
Merged(all, uncut, edges, table) ==
    /\ all \in Seq(Candidates) /\ QsAreLearned(ToSet(all), table) /\ ToSet(all) \subseteq Apart
    /\ Resolves(ToSet(uncut), Winners(all), Proposed(edges), table # <<>>)
    /\ \A e \in ToSet(uncut) : e.from \in Nodes /\ e.to \in Nodes
    /\ \A w \in Winners(all) : w.producer \in Nodes /\ w.consumer \in Nodes =>
          \E e \in ToSet(uncut) : e.from = w.producer /\ e.to = w.consumer
    /\ \E n \in Nat : DOMAIN uncut = 1..n

\* Every merge goes through such candidates and edges.
LEMMA MergeSays ==
  ASSUME NEW edges \in Seq(StaticEdges), NEW table \in Seq(Entries)
  PROVE  Merged(BuildSlots(edges, table), Resolved(edges, table), edges, table)
<1> DEFINE first == StaticCandidates(edges, table)
           all == BuildSlots(edges, table)
           hasLearned == table # <<>>
           whole == ResolveSlots(all, Proposed(edges), hasLearned)
           uncut == Resolved(edges, table)
<1>1. /\ first \in Seq(Candidates)
      /\ ToSet(first) = UNION {Proposes(e, table) : e \in ToSet(edges)}
  BY StaticHas
<1>2. ToSet(first) \subseteq Apart
  BY <1>1 DEF Proposes
<1>3. QsAreLearned(ToSet(first), table)
  BY StaticQs
<1>4. all = WithDiscovered(first, table) /\ uncut = Drawn(whole, Nodes)
  BY DEF BuildSlots, Resolved
<1> HIDE DEF first, all, uncut, hasLearned
<1>5. all \in Seq(Candidates) /\ QsAreLearned(ToSet(all), table) /\ ToSet(all) \subseteq Apart
  BY <1>1, <1>2, <1>3, <1>4, EntriesCompete, DiscoveredQs
<1>6. /\ whole \in Seq(ToSet(whole))
      /\ Resolves(ToSet(whole), Winners(all), Proposed(edges), hasLearned)
      /\ \A w \in Winners(all) : \E e \in ToSet(whole) : e.from = w.producer /\ e.to = w.consumer
  BY <1>5, ResolveSays
<1> HIDE DEF whole
<1>7. ToSet(uncut) = {e \in ToSet(whole) : e.from \in Nodes /\ e.to \in Nodes}
  BY <1>4, <1>6, DrawnHas
<1>8. \E n \in Nat : DOMAIN uncut = 1..n
  <2> DEFINE places == {i \in DOMAIN whole : whole[i].from \in Nodes /\ whole[i].to \in Nodes}
  <2>1. Picked(whole, places) \in Seq(ToSet(whole))
    BY <1>6, PickedHas
  <2>2. uncut = Picked(whole, places)
    BY <1>4 DEF Drawn
  <2>3. DOMAIN uncut = 1..Len(uncut) /\ Len(uncut) \in Nat
    BY <2>1, <2>2
  <2> QED  BY <2>3
<1>9. Resolves(ToSet(uncut), Winners(all), Proposed(edges), hasLearned)
  BY <1>6, <1>7 DEF Resolves
<1>10. /\ \A e \in ToSet(uncut) : e.from \in Nodes /\ e.to \in Nodes
       /\ \A w \in Winners(all) : w.producer \in Nodes /\ w.consumer \in Nodes =>
             \E e \in ToSet(uncut) : e.from = w.producer /\ e.to = w.consumer
  BY <1>6, <1>7
<1> QED  BY <1>5, <1>8, <1>9, <1>10 DEF Merged, all, uncut, hasLearned

\* A match on an edge is a winner's.
LEMMA MatchIsAWinners ==
  ASSUME NEW edges, NEW won, NEW proposed, NEW hasLearned,
         Resolves(edges, won, proposed, hasLearned),
         NEW e \in edges, NEW m \in ToSet(e.matches)
  PROVE  \E w \in won : w.producer = e.from /\ w.consumer = e.to /\ m = MatchOf(w, hasLearned)
<1> DEFINE mine == Linked(won, e.from, e.to)
<1>1. Says(e, mine, proposed, hasLearned)
  BY DEF Resolves
<1> HIDE DEF mine
<1>2. ToSet(e.matches) = {MatchOf(w, hasLearned) : w \in mine}
  BY <1>1 DEF Says
<1>3. \E w \in mine : m = MatchOf(w, hasLearned)
  BY <1>2
<1> QED  BY <1>3 DEF mine, Linked

\* What is sent is what was cut from it.
LEMMA CutFromUncut ==
  ASSUME NEW edges, NEW table
  PROVE  /\ MergeGraph(edges, table).edges = Pruned(Resolved(edges, table))
         /\ MergeGraph(edges, table).edges \subseteq ToSet(Resolved(edges, table))
<1>1. MergeGraph(edges, table).edges = Pruned(Resolved(edges, table))
  BY DEF MergeGraph
<1> QED  BY <1>1 DEF Pruned, ToSet

\* An empty table has learned nothing.
LEMMA NothingLearned == ASSUME NEW pair, NEW m PROVE LearnedQ(<<>>, pair, m) = Null
BY DEF LearnedQ

\* One winner for a parameter, and none that could supply it has a higher Q.
LEMMA OneWinner ==
  ASSUME NEW edges, NEW table, NEW all, NEW uncut, Merged(all, uncut, edges, table),
         NEW g, g.edges \subseteq ToSet(uncut)
  PROVE  WinnerIsTheAgents(g, all)
<1> DEFINE W == Winners(all)
           hasLearned == table # <<>>
<1>1. /\ all \in Seq(Candidates) /\ QsAreLearned(ToSet(all), table)
      /\ Resolves(ToSet(uncut), W, Proposed(edges), hasLearned)
  BY DEF Merged
<1> HIDE DEF hasLearned
<1>2. ASSUME NEW e \in g.edges, NEW m \in ToSet(e.matches)
      PROVE  \E c \in ToSet(all) :
                LET w == Winner(all, Slot(c)) IN
                /\ w.producer = e.from /\ w.consumer = e.to /\ m = MatchOf(w, hasLearned)
                /\ Slot(c) = <<e.to, m.param>> /\ Best(all, Slot(c), w)
  <2>1. PICK w \in W : w.producer = e.from /\ w.consumer = e.to /\ m = MatchOf(w, hasLearned)
    BY <1>1, MatchIsAWinners
  <2>2. PICK c \in ToSet(all) : w = Winner(all, Slot(c))
    BY DEF Winners
  <2>3. Slot(w) = Slot(c) /\ Best(all, Slot(c), w)
    BY <1>1, <2>2, WinnerFits
  <2>4. m.param = w.param
    BY <2>1 DEF MatchOf
  <2>5. Slot(c) = <<e.to, m.param>>
    BY <2>1, <2>3, <2>4 DEF Slot
  <2> QED  BY <2>1, <2>2, <2>3, <2>5
<1>3. ASSUME NEW e \in g.edges, NEW m \in ToSet(e.matches), NEW d \in g.edges,
             NEW n \in ToSet(d.matches), d.to = e.to, n.param = m.param
      PROVE  d = e /\ n = m
  <2>1. PICK c \in ToSet(all) :
           LET w == Winner(all, Slot(c)) IN
           /\ w.producer = e.from /\ w.consumer = e.to /\ m = MatchOf(w, hasLearned)
           /\ Slot(c) = <<e.to, m.param>>
    BY <1>2
  <2>2. PICK b \in ToSet(all) :
           LET v == Winner(all, Slot(b)) IN
           /\ v.producer = d.from /\ v.consumer = d.to /\ n = MatchOf(v, hasLearned)
           /\ Slot(b) = <<d.to, n.param>>
    BY <1>2
  <2>3. Slot(b) = Slot(c)
    BY <1>3, <2>1, <2>2
  <2>4. d.from = e.from /\ n = m
    BY <2>1, <2>2, <2>3
  <2> QED  BY <1>1, <1>3, <2>4 DEF Resolves
<1>4. ASSUME NEW e \in g.edges, NEW m \in ToSet(e.matches), NEW i \in DOMAIN all,
             Slot(all[i]) = <<e.to, m.param>>
      PROVE  Or0(m.q) >= Or0(all[i].q)
  <2>1. PICK c \in ToSet(all) :
           LET w == Winner(all, Slot(c)) IN
           m = MatchOf(w, hasLearned) /\ Slot(c) = <<e.to, m.param>> /\ Best(all, Slot(c), w)
    BY <1>2
  <2> DEFINE w == Winner(all, Slot(c))
  <2> HIDE DEF w
  <2>2. m = MatchOf(w, hasLearned) /\ Or0(w.q) >= Or0(all[i].q)
    BY <1>4, <2>1 DEF w, Best
  <2>3. CASE hasLearned
    <3>1. m.q = w.q
      BY <2>2, <2>3 DEF MatchOf
    <3> QED  BY <2>2, <3>1
  <2>4. CASE ~hasLearned
    <3>1. m.q = Null
      BY <2>2, <2>4 DEF MatchOf
    <3>2. all[i] \in ToSet(all)
      BY DEF ToSet
    <3>3. all[i].q = LearnedQ(table, <<all[i].consumer, all[i].producer>>, all[i])
      BY <1>1, <3>2 DEF QsAreLearned
    <3>4. table = <<>>
      BY <2>4 DEF hasLearned
    <3>5. all[i].q = Null
      BY <3>3, <3>4, NothingLearned
    <3> QED  BY <3>1, <3>5 DEF Or0
  <2> QED  BY <2>3, <2>4
<1> QED  BY <1>3, <1>4 DEF WinnerIsTheAgents

\* A match's Q is its own field's, where the table has one entry of it.
LEMMA OwnQ ==
  ASSUME GraphTypeOK, NEW all, NEW uncut, NEW edges, Merged(all, uncut, edges, learned),
         NEW g, g.edges \subseteq ToSet(uncut)
  PROVE  QIsOfItsField(g)
<1> DEFINE hasLearned == learned # <<>>
           Own(e, m) == {j \in DOMAIN learned :
                           /\ learned[j].pair = <<e.to, e.from>> /\ learned[j].param = m.param
                           /\ learned[j].producedBy = m.producedBy}
<1>1. /\ all \in Seq(Candidates) /\ QsAreLearned(ToSet(all), learned)
      /\ Resolves(ToSet(uncut), Winners(all), Proposed(edges), hasLearned)
  BY DEF Merged
<1>2. ASSUME NEW e \in g.edges, NEW m \in ToSet(e.matches), NEW i \in DOMAIN learned,
             i \in Own(e, m), Cardinality(Own(e, m)) = 1
      PROVE  m.q = learned[i].q
  <2> DEFINE own == Own(e, m)
  <2>1. PICK w \in Winners(all) :
           w.producer = e.from /\ w.consumer = e.to /\ m = MatchOf(w, hasLearned)
    BY <1>1, MatchIsAWinners
  <2>2. w \in ToSet(all)
    BY <1>1, WinnerFits DEF Winners
  <2>3. w.q = LearnedQ(learned, <<e.to, e.from>>, w)
    BY <1>1, <2>1, <2>2 DEF QsAreLearned
  <2>4. m.q = w.q /\ m.param = w.param /\ m.producedBy = w.producedBy
    <3>1. hasLearned
      BY <1>2
    <3> HIDE DEF hasLearned
    <3> QED  BY <2>1, <3>1 DEF MatchOf
  <2>5. w.q = IF own = {} THEN Null ELSE learned[Min(own)].q
    <3>1. own = {j \in DOMAIN learned :
                   /\ learned[j].pair = <<e.to, e.from>> /\ learned[j].param = w.param
                   /\ learned[j].producedBy = w.producedBy}
      BY <2>4
    <3> HIDE DEF own
    <3> QED  BY <2>3, <3>1 DEF LearnedQ
  <2>6. own = {i}
    <3>1. IsFiniteSet(own)
      <4>1. own \subseteq 1..Len(learned) /\ Len(learned) \in Nat
        BY DEF GraphTypeOK
      <4>2. IsFiniteSet(1..Len(learned))
        BY <4>1, FS_Interval
      <4> HIDE DEF own
      <4> QED  BY <4>1, <4>2, FS_Subset
    <3>2. i \in own /\ Cardinality(own) = 1
      BY <1>2
    <3> HIDE DEF own
    <3> QED  BY <3>1, <3>2, FS_Singleton
  <2>7. Min({i}) = i
    <3>1. i \in Nat
      BY DEF GraphTypeOK
    <3>2. \A k \in {i} : (\A n \in {i} : k <= n) => k = i
      OBVIOUS
    <3>3. i \in {i} /\ \A n \in {i} : i <= n
      BY <3>1
    <3> QED  BY <3>2, <3>3 DEF Min
  <2> HIDE DEF own
  <2> QED  BY <2>4, <2>5, <2>6, <2>7
<1> QED  BY <1>2 DEF QIsOfItsField

-----------------------------------------------------------------------------
Kinds == {"discovered", "predicted", "confirmed", "penalized"}

\* What a kind says of a set of matches whose strongest Q it was given for.
LEMMA KindSays ==
  ASSUME NEW S, \A m \in S : m.q \in Int \cup {Null},
         NEW q, StrongestOf(S, q), NEW pair, NEW proposed
  PROVE  /\ q \in Int \cup {Null} /\ Classify(q, pair \in proposed) \in Kinds
         /\ Classify(q, pair \in proposed) = "discovered" <=> pair \notin proposed
         /\ Classify(q, pair \in proposed) = "penalized" =>
              \E m \in S : /\ m.q # Null /\ m.q <= -QEpsilon
                           /\ \A n \in S : n.q # Null => Abs(n.q) <= -m.q
         /\ Classify(q, pair \in proposed) = "confirmed" =>
              \E m \in S : /\ m.q # Null /\ m.q >= QEpsilon
                           /\ \A n \in S : n.q # Null => Abs(n.q) <= m.q
         /\ Classify(q, pair \in proposed) = "predicted" =>
              \A m \in S : m.q # Null => Abs(m.q) < QEpsilon
<1>0. QEpsilon \in Nat \ {0}
  BY GraphMergeAssumption
<1>1. CASE \A m \in S : m.q = Null
  <2>1. q = Null /\ ~IsEvidence(q)
    BY <1>0, <1>1 DEF StrongestOf, Or0, IsEvidence, Abs
  <2>2. Classify(q, pair \in proposed) = IF pair \in proposed THEN "predicted" ELSE "discovered"
    BY <2>1 DEF Classify
  <2> QED  BY <1>1, <2>1, <2>2 DEF Kinds
<1>2. CASE \E m \in S : m.q # Null
  <2>1. PICK w \in S : w.q # Null /\ q = w.q
    BY <1>2 DEF StrongestOf
  <2>2. q \in Int /\ q # Null /\ Or0(q) = q
    BY <2>1 DEF Or0
  <2>3. \A m \in S : m.q # Null => m.q \in Int /\ Abs(m.q) <= Abs(q)
    BY <1>2 DEF StrongestOf
  <2>4. IsEvidence(q) <=> q >= QEpsilon \/ q <= -QEpsilon
    BY <1>0, <2>2 DEF IsEvidence, Abs
  <2>5. CASE pair \notin proposed
    <3>1. Classify(q, pair \in proposed) = "discovered"
      BY <2>5 DEF Classify
    <3> QED  BY <2>2, <2>5, <3>1 DEF Kinds
  <2>6. CASE pair \in proposed /\ q <= -QEpsilon
    <3>1. Classify(q, pair \in proposed) = "penalized"
      BY <1>0, <2>2, <2>4, <2>6 DEF Classify
    <3>2. Abs(q) = -q
      BY <1>0, <2>2, <2>6 DEF Abs
    <3>3. w.q <= -QEpsilon /\ \A n \in S : n.q # Null => Abs(n.q) <= -w.q
      BY <2>1, <2>3, <2>6, <3>2
    <3> QED  BY <2>1, <2>2, <2>6, <3>1, <3>3 DEF Kinds
  <2>7. CASE pair \in proposed /\ ~IsEvidence(q)
    <3>1. Classify(q, pair \in proposed) = "predicted"
      BY <2>7 DEF Classify
    <3>2. Abs(q) < QEpsilon /\ Abs(q) \in Int
      BY <1>0, <2>2, <2>7 DEF IsEvidence, Abs
    <3>3. ASSUME NEW m \in S, m.q # Null PROVE Abs(m.q) < QEpsilon
      <4>1. Abs(m.q) \in Int /\ Abs(m.q) <= Abs(q)
        BY <2>3, <3>3 DEF Abs
      <4> QED  BY <1>0, <3>2, <4>1
    <3> QED  BY <2>2, <2>7, <3>1, <3>3 DEF Kinds
  <2>8. CASE pair \in proposed /\ q >= QEpsilon
    <3>1. Classify(q, pair \in proposed) = "confirmed"
      BY <1>0, <2>2, <2>4, <2>8 DEF Classify
    <3>2. Abs(q) = q
      BY <1>0, <2>2, <2>8 DEF Abs
    <3>3. w.q >= QEpsilon /\ \A n \in S : n.q # Null => Abs(n.q) <= w.q
      BY <2>1, <2>3, <2>8, <3>2
    <3> QED  BY <2>1, <2>2, <2>8, <3>1, <3>3 DEF Kinds
  <2> QED  BY <2>4, <2>5, <2>6, <2>7, <2>8
<1> QED  BY <1>1, <1>2

\* Of an edge of a merge, what its kind and its strongest Q come from.
LEMMA MergedSays ==
  ASSUME NEW edges, NEW table, NEW all, NEW uncut, Merged(all, uncut, edges, table),
         NEW e \in ToSet(uncut)
  PROVE  /\ \A m \in ToSet(e.matches) : m.q \in Int \cup {Null}
         /\ StrongestOf(ToSet(e.matches), e.maxQ)
         /\ e.kind = Classify(e.maxQ, <<e.from, e.to>> \in Proposed(edges))
         /\ Or0(e.maxSimilarity) \in Int
<1> DEFINE mine == Linked(Winners(all), e.from, e.to)
           hasLearned == table # <<>>
<1>1. /\ all \in Seq(Candidates)
      /\ Resolves(ToSet(uncut), Winners(all), Proposed(edges), hasLearned)
  BY DEF Merged
<1>2. mine \subseteq Candidates
  BY <1>1, WinnerFits DEF Winners, Linked
<1>3. Says(e, mine, Proposed(edges), hasLearned)
  BY <1>1 DEF Resolves
<1> HIDE DEF mine, hasLearned
<1>4. ToSet(e.matches) = {MatchOf(w, hasLearned) : w \in mine}
  BY <1>3 DEF Says
<1>5. \A m \in ToSet(e.matches) : m.q \in Int \cup {Null}
  BY <1>2, <1>4, MatchFits
<1> QED  BY <1>3, <1>5 DEF Says

\* The kind of every edge sent tells its evidence.
LEMMA KindsTell ==
  ASSUME GraphTypeOK, NEW all, NEW uncut, NEW table, Merged(all, uncut, static, table),
         NEW g, g.edges \subseteq ToSet(uncut)
  PROVE  KindTellsEvidence(g)
<1> SUFFICES ASSUME NEW e \in g.edges
             PROVE  LET qs == {m.q : m \in ToSet(e.matches)} \ {Null}
                        proposed == \E i \in DOMAIN static : static[i].pair = <<e.to, e.from>>
                    IN /\ e.kind = "discovered" <=> ~proposed
                       /\ e.kind = "penalized" =>
                             \E q \in qs : q <= -QEpsilon /\ \A r \in qs : Abs(r) <= -q
                       /\ e.kind = "confirmed" =>
                             \E q \in qs : q >= QEpsilon /\ \A r \in qs : Abs(r) <= q
                       /\ e.kind = "predicted" => \A q \in qs : Abs(q) < QEpsilon
  BY DEF KindTellsEvidence
<1> DEFINE S == ToSet(e.matches)
           qs == {m.q : m \in S} \ {Null}
           proposed == \E i \in DOMAIN static : static[i].pair = <<e.to, e.from>>
<1>1. /\ \A m \in S : m.q \in Int \cup {Null}
      /\ StrongestOf(S, e.maxQ)
      /\ e.kind = Classify(e.maxQ, <<e.from, e.to>> \in Proposed(static))
  BY MergedSays
<1>2. <<e.from, e.to>> \in Proposed(static) <=> proposed
  <2>1. \A i \in DOMAIN static : static[i].pair \in Nat \X Nat
    <3>1. \A i \in DOMAIN static : static[i] \in StaticEdges
      BY DEF GraphTypeOK
    <3> QED  BY <3>1, GraphMergeAssumption DEF StaticEdges
  <2>2. \A i \in DOMAIN static : static[i].pair = <<static[i].pair[1], static[i].pair[2]>>
    BY <2>1
  <2>3. \A i \in DOMAIN static : <<static[i].pair[2], static[i].pair[1]>> = <<e.from, e.to>>
                                   <=> static[i].pair = <<e.to, e.from>>
    BY <2>2
  <2> QED  BY <2>3 DEF Proposed
<1> HIDE DEF S, proposed
<1>4. /\ e.kind = "discovered" <=> <<e.from, e.to>> \notin Proposed(static)
      /\ e.kind = "penalized" =>
           \E m \in S : /\ m.q # Null /\ m.q <= -QEpsilon
                        /\ \A n \in S : n.q # Null => Abs(n.q) <= -m.q
      /\ e.kind = "confirmed" =>
           \E m \in S : /\ m.q # Null /\ m.q >= QEpsilon
                        /\ \A n \in S : n.q # Null => Abs(n.q) <= m.q
      /\ e.kind = "predicted" => \A m \in S : m.q # Null => Abs(m.q) < QEpsilon
  BY <1>1, KindSays
<1>5. \A q : q \in qs <=> \E m \in S : m.q = q /\ q # Null
  OBVIOUS
<1> HIDE DEF qs
<1>6. e.kind = "penalized" => \E q \in qs : q <= -QEpsilon /\ \A r \in qs : Abs(r) <= -q
  <2> SUFFICES ASSUME e.kind = "penalized"
               PROVE  \E q \in qs : q <= -QEpsilon /\ \A r \in qs : Abs(r) <= -q
    OBVIOUS
  <2>1. PICK m \in S : /\ m.q # Null /\ m.q <= -QEpsilon
                       /\ \A n \in S : n.q # Null => Abs(n.q) <= -m.q
    BY <1>4
  <2>2. m.q \in qs /\ \A r \in qs : Abs(r) <= -m.q
    BY <1>5, <2>1
  <2> QED  BY <2>1, <2>2
<1>7. e.kind = "confirmed" => \E q \in qs : q >= QEpsilon /\ \A r \in qs : Abs(r) <= q
  <2> SUFFICES ASSUME e.kind = "confirmed"
               PROVE  \E q \in qs : q >= QEpsilon /\ \A r \in qs : Abs(r) <= q
    OBVIOUS
  <2>1. PICK m \in S : /\ m.q # Null /\ m.q >= QEpsilon
                       /\ \A n \in S : n.q # Null => Abs(n.q) <= m.q
    BY <1>4
  <2>2. m.q \in qs /\ \A r \in qs : Abs(r) <= m.q
    BY <1>5, <2>1
  <2> QED  BY <2>1, <2>2
<1>8. e.kind = "predicted" => \A q \in qs : Abs(q) < QEpsilon
  BY <1>4, <1>5
<1> QED  BY <1>2, <1>4, <1>6, <1>7, <1>8 DEF qs, S, proposed

\* Cutting keeps what was learned first: what comes before an edge left out
\* comes before every edge that is only predicted, if that one is not.
LEMMA CutKeeps ==
  ASSUME NEW edges, NEW table, NEW all, NEW uncut, Merged(all, uncut, edges, table),
         NEW g, g.edges = Pruned(uncut)
  PROVE  LearnedSurvives(g, uncut)
<1> SUFFICES ASSUME NEW d \in ToSet(uncut), d \notin g.edges, NEW e \in g.edges,
                    e.kind = "predicted", d.kind # "predicted"
             PROVE  FALSE
  BY DEF LearnedSurvives
<1>1. PICK n \in Nat : DOMAIN uncut = 1..n
  BY DEF Merged
<1>2. PICK k \in DOMAIN uncut : d = uncut[k]
  BY DEF ToSet
<1>3. PICK i \in DOMAIN uncut : e = uncut[i] /\ PlaceOf(uncut, i) < MaxShown
  BY DEF Pruned
<1>4. ~(PlaceOf(uncut, k) < MaxShown)
  BY <1>2 DEF Pruned
<1> DEFINE Ahead(j) == {h \in DOMAIN uncut : \/ Before(uncut[h], uncut[j])
                                             \/ h < j /\ ~Before(uncut[j], uncut[h])}
<1>5. /\ PlaceOf(uncut, k) = Cardinality(Ahead(k))
      /\ PlaceOf(uncut, i) = Cardinality(Ahead(i))
  BY DEF PlaceOf
<1>6. \A h \in DOMAIN uncut : uncut[h].kind \in Kinds
  <2> SUFFICES ASSUME NEW x \in ToSet(uncut) PROVE x.kind \in Kinds
    BY DEF ToSet
  <2>1. /\ \A m \in ToSet(x.matches) : m.q \in Int \cup {Null}
        /\ StrongestOf(ToSet(x.matches), x.maxQ)
        /\ x.kind = Classify(x.maxQ, <<x.from, x.to>> \in Proposed(edges))
    BY MergedSays
  <2> QED  BY <2>1, KindSays
<1>7. \A a, b \in Kinds : /\ KindRank(a) \in Int /\ (KindRank(a) = KindRank(b) => a = b)
                          /\ (a # "predicted" => KindRank(a) < 3)
  BY DEF Kinds, KindRank
<1>8. KindRank("predicted") = 3
  BY DEF KindRank
<1>9. ASSUME NEW h \in Ahead(k) PROVE h \in Ahead(i)
  <2> DEFINE x == uncut[h]
  <2>1. x.kind \in Kinds /\ d.kind \in Kinds /\ h \in DOMAIN uncut
    BY <1>2, <1>6
  <2>2. KindRank(x.kind) <= KindRank(d.kind)
    <3>1. Before(x, d) \/ ~Before(d, x)
      BY <1>2
    <3> HIDE DEF x
    <3>2. CASE x.kind = d.kind
      BY <1>7, <2>1, <3>2
    <3>3. CASE x.kind # d.kind
      <4>1. /\ Before(x, d) <=> KindRank(x.kind) < KindRank(d.kind)
            /\ Before(d, x) <=> KindRank(d.kind) < KindRank(x.kind)
        BY <3>3 DEF Before
      <4> QED  BY <1>7, <2>1, <3>1, <4>1
    <3> QED  BY <3>2, <3>3
  <2>3. KindRank(x.kind) < 3
    BY <1>7, <2>1, <2>2
  <2>4. Before(x, e)
    <3> HIDE DEF x
    <3> QED  BY <1>8, <2>3 DEF Before
  <2> QED  BY <1>3, <2>1, <2>4
<1>10. Ahead(k) \subseteq Ahead(i) /\ Ahead(i) \subseteq 1..n /\ Ahead(k) \subseteq 1..n
  BY <1>1, <1>9
<1> HIDE DEF Ahead
<1>11. IsFiniteSet(1..n)
  BY FS_Interval
<1>12. IsFiniteSet(Ahead(i)) /\ IsFiniteSet(Ahead(k))
  BY <1>10, <1>11, FS_Subset
<1>13. Cardinality(Ahead(k)) <= Cardinality(Ahead(i))
  BY <1>10, <1>12, FS_Subset
<1>14. Cardinality(Ahead(k)) \in Nat /\ Cardinality(Ahead(i)) \in Nat /\ MaxShown \in Nat
  BY <1>12, FS_CardinalityType, GraphMergeAssumption
<1> QED  BY <1>3, <1>4, <1>5, <1>13, <1>14

-----------------------------------------------------------------------------
\* Who ties for a parameter supplies it the same way.
LEMMA TiesAreAlike ==
  ASSUME NEW a \in Candidates, NEW b \in Candidates, ~Better(a, b), ~Better(b, a)
  PROVE  /\ a.producer = b.producer /\ a.producedBy = b.producedBy
         /\ a.producedIn = b.producedIn /\ a.similarity = b.similarity
<1>1. \A c \in {a, b} : /\ Or0(c.q) \in Int /\ Or0(c.similarity) \in Int
                        /\ Rank(c.producedIn) \in Int
                        /\ c.producer \in Int /\ c.producedBy \in Int
  BY QsAreNumbers
<1>2. /\ Or0(a.similarity) = Or0(b.similarity) /\ Rank(a.producedIn) = Rank(b.producedIn)
      /\ a.producer = b.producer /\ a.producedBy = b.producedBy
  BY <1>1 DEF Better
<1>3. a.producedIn = b.producedIn
  <2>1. a.producedIn \in Buckets /\ b.producedIn \in Buckets
    BY DEF Candidates
  <2>2. Rank("response") = 0 /\ Rank("body") = 1 /\ Rank("params") = 2
    BY DEF Rank
  <2> QED  BY <1>2, <2>1, <2>2 DEF Buckets
<1>4. a.similarity = b.similarity
  <2>1. /\ a.similarity \in (Nat \ {0}) \cup {Null} /\ b.similarity \in (Nat \ {0}) \cup {Null}
        /\ Null \notin Int
    BY GraphMergeAssumption DEF Candidates
  <2> QED  BY <1>2, <2>1 DEF Or0
<1> QED  BY <1>2, <1>3, <1>4

\* How a parameter is supplied, as it is drawn.
SuppliedBy(w, hasLearned) == <<w.producer, w.consumer, MatchOf(w, hasLearned)>>

\* The order of the candidates decides between no two that would be drawn
\* differently.
LEMMA OrderIsNothing ==
  ASSUME NEW one \in Seq(Candidates), NEW other \in Seq(Candidates),
         ToSet(one) = ToSet(other), NEW table, QsAreLearned(ToSet(one), table),
         NEW hasLearned, NEW w \in Winners(one)
  PROVE  \E v \in Winners(other) : SuppliedBy(v, hasLearned) = SuppliedBy(w, hasLearned)
<1>1. PICK c \in ToSet(one) : w = Winner(one, Slot(c))
  BY DEF Winners
<1> DEFINE v == Winner(other, Slot(c))
<1>2. v \in Winners(other)
  BY DEF Winners
<1>3. /\ w \in ToSet(one) /\ Slot(w) = Slot(c) /\ w \in Candidates /\ Best(one, Slot(c), w)
  BY <1>1, WinnerFits
<1>4. /\ v \in ToSet(one) /\ Slot(v) = Slot(c) /\ v \in Candidates /\ Best(other, Slot(c), v)
  BY WinnerFits
<1> HIDE DEF v
<1>5. ~Better(v, w)
  <2>1. PICK i \in DOMAIN one : v = one[i]
    BY <1>4 DEF ToSet
  <2> QED  BY <1>3, <1>4, <2>1 DEF Best
<1>6. ~Better(w, v)
  <2>1. w \in ToSet(other)
    BY <1>3
  <2>2. PICK i \in DOMAIN other : w = other[i]
    BY <2>1 DEF ToSet
  <2> QED  BY <1>3, <1>4, <2>2 DEF Best
<1>7. /\ v.producer = w.producer /\ v.producedBy = w.producedBy
      /\ v.producedIn = w.producedIn /\ v.similarity = w.similarity
  BY <1>3, <1>4, <1>5, <1>6, TiesAreAlike
<1>8. v.consumer = w.consumer /\ v.param = w.param
  BY <1>3, <1>4 DEF Slot
<1>9. v.q = w.q
  <2>1. v.q = LearnedQ(table, <<v.consumer, v.producer>>, v)
    BY <1>4 DEF QsAreLearned
  <2>2. w.q = LearnedQ(table, <<w.consumer, w.producer>>, w)
    BY <1>3 DEF QsAreLearned
  <2>3. LearnedQ(table, <<v.consumer, v.producer>>, v)
          = LearnedQ(table, <<w.consumer, w.producer>>, w)
    BY <1>7, <1>8 DEF LearnedQ
  <2> QED  BY <2>1, <2>2, <2>3
<1>10. MatchOf(v, hasLearned) = MatchOf(w, hasLearned)
  BY <1>7, <1>8, <1>9 DEF MatchOf
<1> QED  BY <1>2, <1>7, <1>8, <1>10 DEF SuppliedBy

\* Who is drawn as the supplier of what: the winners between listed operations.
DrawnWinners(won, hasLearned) ==
    {SuppliedBy(w, hasLearned) : w \in {v \in won : v.producer \in Nodes /\ v.consumer \in Nodes}}

\* Drawn are the winners between listed operations, nobody else.
LEMMA WinsAre ==
  ASSUME NEW edges, NEW table, NEW all, NEW uncut, Merged(all, uncut, edges, table)
  PROVE  Wins(uncut) = DrawnWinners(Winners(all), table # <<>>)
<1> DEFINE W == Winners(all)
           hasLearned == table # <<>>
           wins == DrawnWinners(W, hasLearned)
<1>1. /\ Resolves(ToSet(uncut), W, Proposed(edges), hasLearned)
      /\ \A e \in ToSet(uncut) : e.from \in Nodes /\ e.to \in Nodes
      /\ \A w \in W : w.producer \in Nodes /\ w.consumer \in Nodes =>
            \E e \in ToSet(uncut) : e.from = w.producer /\ e.to = w.consumer
  BY DEF Merged
<1> HIDE DEF W, hasLearned
<1>2. ASSUME NEW e \in ToSet(uncut), NEW m \in ToSet(e.matches)
      PROVE  <<e.from, e.to, m>> \in wins
  <2>1. PICK w \in W : w.producer = e.from /\ w.consumer = e.to /\ m = MatchOf(w, hasLearned)
    BY <1>1, MatchIsAWinners
  <2>2. w.producer \in Nodes /\ w.consumer \in Nodes
    BY <1>1, <2>1
  <2> QED  BY <2>1, <2>2 DEF DrawnWinners, SuppliedBy
<1>3. ASSUME NEW w \in W, w.producer \in Nodes, w.consumer \in Nodes
      PROVE  \E e \in ToSet(uncut) : \E m \in ToSet(e.matches) :
                <<e.from, e.to, m>> = SuppliedBy(w, hasLearned)
  <2>1. PICK e \in ToSet(uncut) : e.from = w.producer /\ e.to = w.consumer
    BY <1>1, <1>3
  <2> DEFINE mine == Linked(W, e.from, e.to)
  <2>2. Says(e, mine, Proposed(edges), hasLearned)
    BY <1>1 DEF Resolves
  <2>3. w \in mine
    BY <2>1 DEF Linked
  <2> HIDE DEF mine
  <2>4. ToSet(e.matches) = {MatchOf(v, hasLearned) : v \in mine}
    BY <2>2 DEF Says
  <2>5. MatchOf(w, hasLearned) \in ToSet(e.matches)
    BY <2>3, <2>4
  <2>6. <<e.from, e.to, MatchOf(w, hasLearned)>> = SuppliedBy(w, hasLearned)
    BY <2>1 DEF SuppliedBy
  <2> QED  BY <2>5, <2>6
<1>4. \A x : x \in Wins(uncut) <=>
         \E e \in ToSet(uncut) : \E m \in ToSet(e.matches) : x = <<e.from, e.to, m>>
  BY DEF Wins
<1>5. Wins(uncut) \subseteq wins
  BY <1>2, <1>4
<1>6. wins \subseteq Wins(uncut)
  <2> SUFFICES ASSUME NEW w \in W, w.producer \in Nodes, w.consumer \in Nodes
               PROVE  SuppliedBy(w, hasLearned) \in Wins(uncut)
    BY DEF DrawnWinners
  <2> QED  BY <1>3, <1>4
<1> QED  BY <1>5, <1>6 DEF W, hasLearned

\* A list turned round has the same elements.
LEMMA ReverseHas ==
  ASSUME NEW S, NEW s \in Seq(S)
  PROVE  Reverse(s) \in Seq(S) /\ ToSet(Reverse(s)) = ToSet(s)
<1> DEFINE N == Len(s)
           r == Reverse(s)
<1>1. N \in Nat /\ DOMAIN s = 1..N /\ \A i \in 1..N : s[i] \in S
  OBVIOUS
<1>2. r = [i \in 1..N |-> s[(N - i) + 1]]
  BY DEF Reverse
<1> HIDE DEF N, r
<1>3. \A i \in 1..N : (N - i) + 1 \in 1..N /\ (N - ((N - i) + 1)) + 1 = i
  BY <1>1
<1>4. DOMAIN r = 1..N /\ \A i \in 1..N : r[i] = s[(N - i) + 1]
  BY <1>2
<1>5. r \in Seq(S)
  BY <1>1, <1>2, <1>3
<1>6. ASSUME NEW i \in 1..N PROVE r[i] \in ToSet(s)
  BY <1>1, <1>3, <1>4 DEF ToSet
<1>7. ASSUME NEW i \in 1..N PROVE s[i] \in ToSet(r)
  <2>1. r[(N - i) + 1] = s[i] /\ (N - i) + 1 \in DOMAIN r
    BY <1>3, <1>4
  <2> QED  BY <2>1 DEF ToSet
<1>8. ToSet(r) = ToSet(s)
  <2>1. ToSet(r) \subseteq ToSet(s)
    BY <1>4, <1>6 DEF ToSet
  <2>2. ToSet(s) \subseteq ToSet(r)
    BY <1>1, <1>7 DEF ToSet
  <2> QED  BY <2>1, <2>2
<1> QED  BY <1>5, <1>8 DEF r

\* The static graph in the opposite order.
Turned(edges) == [i \in DOMAIN edges |-> [edges[i] EXCEPT !.matches = Reverse(@)]]

\* And it proposes the same.
LEMMA TurnedProposes ==
  ASSUME NEW edges \in Seq(StaticEdges), NEW table \in Seq(Entries)
  PROVE  /\ Reverse(Turned(edges)) \in Seq(StaticEdges)
         /\ ToSet(StaticCandidates(Reverse(Turned(edges)), table))
              = ToSet(StaticCandidates(edges, table))
<1> DEFINE t == Turned(edges)
           b == Reverse(t)
<1>1. /\ DOMAIN edges = 1..Len(edges) /\ Len(edges) \in Nat
      /\ \A i \in DOMAIN edges : edges[i] \in StaticEdges
  OBVIOUS
<1>2. ASSUME NEW i \in DOMAIN edges
      PROVE  t[i] \in StaticEdges /\ Proposes(t[i], table) = Proposes(edges[i], table)
  <2> DEFINE e == edges[i]
  <2>1. e \in StaticEdges
    BY <1>1
  <2>2. t[i] = [e EXCEPT !.matches = Reverse(@)]
    BY DEF Turned
  <2> HIDE DEF e, t
  <2>3. Reverse(e.matches) \in Seq(Matches) /\ ToSet(Reverse(e.matches)) = ToSet(e.matches)
    <3>1. e.matches \in Seq(Matches)
      BY <2>1 DEF StaticEdges
    <3> QED  BY <3>1, ReverseHas
  <2>4. t[i] \in StaticEdges
    BY <2>1, <2>2, <2>3 DEF StaticEdges
  <2>5. /\ t[i].pair = e.pair /\ t[i].tentative = e.tentative
        /\ ToSet(t[i].matches) = ToSet(e.matches)
    BY <2>1, <2>2, <2>3 DEF StaticEdges
  <2>6. \A m : StaticCandidate(t[i], m, table) = StaticCandidate(e, m, table)
    BY <2>5 DEF StaticCandidate
  <2>7. Proposes(t[i], table) = Proposes(e, table)
    BY <2>5, <2>6 DEF Proposes
  <2> QED  BY <2>4, <2>7 DEF e
<1>3. t \in Seq(StaticEdges) /\ DOMAIN t = DOMAIN edges
  <2>1. DOMAIN t = 1..Len(edges) /\ t = [i \in 1..Len(edges) |-> t[i]]
    BY <1>1 DEF Turned
  <2> HIDE DEF t
  <2> QED  BY <1>1, <1>2, <2>1
<1> HIDE DEF t
<1>4. b \in Seq(StaticEdges) /\ ToSet(b) = ToSet(t)
  BY <1>3, ReverseHas
<1> HIDE DEF b
<1>5. UNION {Proposes(e, table) : e \in ToSet(b)}
        = UNION {Proposes(e, table) : e \in ToSet(edges)}
  <2>1. {Proposes(e, table) : e \in ToSet(t)} = {Proposes(t[i], table) : i \in DOMAIN edges}
    BY <1>3 DEF ToSet
  <2>2. {Proposes(e, table) : e \in ToSet(edges)}
          = {Proposes(edges[i], table) : i \in DOMAIN edges}
    BY DEF ToSet
  <2>3. {Proposes(t[i], table) : i \in DOMAIN edges}
          = {Proposes(edges[i], table) : i \in DOMAIN edges}
    BY <1>2
  <2> QED  BY <1>4, <2>1, <2>2, <2>3
<1>6. ToSet(StaticCandidates(b, table)) = ToSet(StaticCandidates(edges, table))
  BY <1>4, <1>5, StaticHas
<1> QED  BY <1>4, <1>6 DEF b, t

\* Of the same matches two strongest Q-values are the same or opposite.
LEMMA StrongestAreAlike ==
  ASSUME NEW S, \A m \in S : m.q \in Int \cup {Null},
         NEW p, StrongestOf(S, p), NEW q, StrongestOf(S, q)
  PROVE  p = q \/ (p \in Int /\ q = -p)
<1>1. CASE \A m \in S : m.q = Null
  BY <1>1 DEF StrongestOf
<1>2. CASE \E m \in S : m.q # Null
  <2>1. p \in Int /\ q \in Int /\ Abs(p) <= Abs(q) /\ Abs(q) <= Abs(p)
    BY <1>2 DEF StrongestOf
  <2> QED  BY <2>1 DEF Abs
<1> QED  BY <1>1, <1>2

\* Who wins tells the matches of each edge.
LEMMA WinsOfEdge ==
  ASSUME NEW one, NEW other, NEW a, NEW b, NEW s, NEW t, NEW table,
         Merged(one, a, s, table), Merged(other, b, t, table), Wins(a) = Wins(b),
         NEW d \in ToSet(a), NEW e \in ToSet(b), d.from = e.from, d.to = e.to
  PROVE  ToSet(d.matches) = ToSet(e.matches)
<1>0. d.from = e.from /\ d.to = e.to
  OBVIOUS
<1>1. /\ \A f, h \in ToSet(a) : f.from = h.from /\ f.to = h.to => f = h
      /\ \A f, h \in ToSet(b) : f.from = h.from /\ f.to = h.to => f = h
  BY DEF Merged, Resolves
<1>9. ASSUME NEW r PROVE \A x : x \in Wins(r) <=>
         \E f \in ToSet(r) : \E k \in ToSet(f.matches) : x = <<f.from, f.to, k>>
  BY DEF Wins
<1>2. ASSUME NEW m \in ToSet(d.matches) PROVE m \in ToSet(e.matches)
  <2>1. <<d.from, d.to, m>> \in Wins(b)
    BY <1>9
  <2>2. PICK h \in ToSet(b) : \E n \in ToSet(h.matches) : <<d.from, d.to, m>> = <<h.from, h.to, n>>
    BY <1>9, <2>1
  <2>3. PICK n \in ToSet(h.matches) : <<d.from, d.to, m>> = <<h.from, h.to, n>>
    BY <2>2
  <2>4. h.from = e.from /\ h.to = e.to /\ n = m
    BY <2>3
  <2>5. h = e
    BY <1>1, <1>0, <2>4
  <2> QED  BY <2>4, <2>5
<1>3. ASSUME NEW m \in ToSet(e.matches) PROVE m \in ToSet(d.matches)
  <2>1. <<e.from, e.to, m>> \in Wins(a)
    BY <1>9
  <2>2. PICK h \in ToSet(a) : \E n \in ToSet(h.matches) : <<e.from, e.to, m>> = <<h.from, h.to, n>>
    BY <1>9, <2>1
  <2>3. PICK n \in ToSet(h.matches) : <<e.from, e.to, m>> = <<h.from, h.to, n>>
    BY <2>2
  <2>4. h.from = d.from /\ h.to = d.to /\ n = m
    BY <2>3
  <2>5. h = d
    BY <1>1, <1>0, <2>4
  <2> QED  BY <2>4, <2>5
<1> QED  BY <1>2, <1>3

\* Turned round, the static graph proposes the same pairs.
LEMMA TurnedPairs == ASSUME GraphTypeOK PROVE Proposed(Backwards) = Proposed(static)
<1> DEFINE turned == [i \in DOMAIN static |-> [static[i] EXCEPT !.matches = Reverse(@)]]
           n == Len(static)
<1>1. /\ static \in Seq(StaticEdges) /\ n \in Nat /\ DOMAIN static = 1..n
      /\ DOMAIN turned = 1..n /\ Len(turned) = n
      /\ \A i \in 1..n : static[i] \in StaticEdges
  BY DEF GraphTypeOK
<1>2. \A i \in 1..n : turned[i].pair = static[i].pair
  BY <1>1 DEF StaticEdges
<1> HIDE DEF turned, n
<1>3. /\ DOMAIN Backwards = 1..n
      /\ \A i \in 1..n : Backwards[i] = turned[(n - i) + 1]
  BY <1>1 DEF Backwards, Reverse, turned, n
<1>4. \A i \in 1..n : (n - i) + 1 \in 1..n /\ n - ((n - i) + 1) + 1 = i
  BY <1>1
<1>5. \A i \in 1..n : Backwards[i].pair = static[(n - i) + 1].pair
  BY <1>2, <1>3, <1>4
<1>6. \A x : x \in Proposed(Backwards) => x \in Proposed(static)
  BY <1>1, <1>3, <1>4, <1>5 DEF Proposed
<1>7. ASSUME NEW i \in 1..n PROVE Backwards[(n - i) + 1].pair = static[i].pair
  <2> DEFINE j == (n - i) + 1
  <2>1. j \in 1..n /\ (n - j) + 1 = i
    BY <1>1
  <2> HIDE DEF j
  <2>2. Backwards[j].pair = static[(n - j) + 1].pair
    BY <1>5, <2>1
  <2> QED  BY <2>1, <2>2 DEF j
<1>8. \A x : x \in Proposed(static) => x \in Proposed(Backwards)
  <2> SUFFICES ASSUME NEW i \in 1..n
               PROVE  <<static[i].pair[2], static[i].pair[1]>> \in Proposed(Backwards)
    BY <1>1 DEF Proposed
  <2>1. (n - i) + 1 \in DOMAIN Backwards /\ Backwards[(n - i) + 1].pair = static[i].pair
    BY <1>3, <1>4, <1>7
  <2> QED  BY <2>1 DEF Proposed
<1> QED  BY <1>6, <1>8

\* So a rebuild in that order gives the same winners, and the same kinds but
\* where the two strongest Q-values are opposite.
LEMMA RebuildAlike ==
  ASSUME GraphTypeOK
  PROVE  RebuildIsSame(Resolved(static, learned))
<1> DEFINE back == Reverse(Turned(static))
           hasLearned == learned # <<>>
           one == BuildSlots(static, learned)
           other == BuildSlots(back, learned)
<1>1. /\ static \in Seq(StaticEdges) /\ learned \in Seq(Entries) /\ back \in Seq(StaticEdges)
      /\ ToSet(StaticCandidates(back, learned)) = ToSet(StaticCandidates(static, learned))
  BY TurnedProposes DEF GraphTypeOK
<1>2. back = Backwards
  BY DEF Turned, Backwards
<1> HIDE DEF back
<1>3. /\ Merged(one, Resolved(static, learned), static, learned)
      /\ Merged(other, Resolved(back, learned), back, learned)
  BY <1>1, MergeSays
<1>4. ToSet(one) = ToSet(other)
  <2>1. /\ StaticCandidates(static, learned) \in Seq(Candidates)
        /\ StaticCandidates(back, learned) \in Seq(Candidates)
    BY <1>1, StaticHas
  <2> QED  BY <1>1, <2>1, DiscoveredAlike DEF BuildSlots
<1> HIDE DEF one, other, hasLearned
<1>5. /\ one \in Seq(Candidates) /\ other \in Seq(Candidates)
      /\ QsAreLearned(ToSet(one), learned) /\ QsAreLearned(ToSet(other), learned)
  BY <1>3 DEF Merged
<1>6. \A w \in Winners(one) : \E v \in Winners(other) :
         SuppliedBy(v, hasLearned) = SuppliedBy(w, hasLearned)
  BY <1>4, <1>5, OrderIsNothing
<1>7. \A w \in Winners(other) : \E v \in Winners(one) :
         SuppliedBy(v, hasLearned) = SuppliedBy(w, hasLearned)
  BY <1>4, <1>5, OrderIsNothing
<1>8. \A v, w : SuppliedBy(v, hasLearned) = SuppliedBy(w, hasLearned) =>
                   v.producer = w.producer /\ v.consumer = w.consumer
  BY DEF SuppliedBy
<1>9. DrawnWinners(Winners(one), hasLearned) = DrawnWinners(Winners(other), hasLearned)
  BY <1>6, <1>7, <1>8 DEF DrawnWinners
<1>10. Wins(Resolved(back, learned)) = Wins(Resolved(static, learned))
  BY <1>3, <1>9, WinsAre DEF hasLearned
<1>11. Proposed(back) = Proposed(static)
  BY <1>2, TurnedPairs
<1>12. ASSUME NEW d \in ToSet(Resolved(static, learned)), NEW e \in ToSet(Resolved(back, learned)),
              d.from = e.from, d.to = e.to
       PROVE  d.kind = e.kind \/ (d.maxQ \in Int /\ e.maxQ = -d.maxQ)
  <2>1. ToSet(d.matches) = ToSet(e.matches)
    BY <1>3, <1>10, <1>12, WinsOfEdge
  <2>2. /\ StrongestOf(ToSet(d.matches), d.maxQ) /\ StrongestOf(ToSet(e.matches), e.maxQ)
        /\ \A m \in ToSet(d.matches) : m.q \in Int \cup {Null}
        /\ d.kind = Classify(d.maxQ, <<d.from, d.to>> \in Proposed(static))
        /\ e.kind = Classify(e.maxQ, <<e.from, e.to>> \in Proposed(back))
    BY <1>3, <1>12, MergedSays
  <2>3. d.maxQ = e.maxQ \/ (d.maxQ \in Int /\ e.maxQ = -d.maxQ)
    BY <2>1, <2>2, StrongestAreAlike
  <2> QED  BY <1>11, <1>12, <2>2, <2>3
<1> QED  BY <1>2, <1>10, <1>12 DEF RebuildIsSame

\* One winner for each parameter, the agent's own, whatever order the static
\* graph came in; nothing learned is forgotten, every match carries its own Q,
\* every kind tells its evidence, and cutting keeps what was learned.
THEOREM MergeFollowsTheEvidence == MergeSpec => []MergeFollowsEvidence
<1>1. ASSUME GraphTypeOK PROVE MergeFollowsEvidence
  <2> DEFINE g == MergeGraph(static, learned)
             all == BuildSlots(static, learned)
             uncut == Resolved(static, learned)
  <2>1. static \in Seq(StaticEdges) /\ learned \in Seq(Entries)
    BY <1>1 DEF GraphTypeOK
  <2>2. Merged(all, uncut, static, learned)
    BY <2>1, MergeSays
  <2>3. g.edges = Pruned(uncut) /\ g.edges \subseteq ToSet(uncut)
    BY CutFromUncut
  <2>4. RebuildIsSame(uncut)
    BY <1>1, RebuildAlike
  <2>5. LearnedCompetes(all)
    <3>1. StaticCandidates(static, learned) \in Seq(Candidates)
      BY <2>1, StaticHas
    <3> QED  BY <2>1, <3>1, EntriesCompete DEF BuildSlots, LearnedCompetes
  <2> HIDE DEF g, all, uncut
  <2>6. WinnerIsTheAgents(g, all)
    BY <2>2, <2>3, OneWinner
  <2>7. QIsOfItsField(g)
    BY <1>1, <2>2, <2>3, OwnQ
  <2>8. KindTellsEvidence(g)
    BY <1>1, <2>2, <2>3, KindsTell
  <2>9. LearnedSurvives(g, uncut)
    BY <2>2, <2>3, CutKeeps
  <2> QED  BY <2>4, <2>5, <2>6, <2>7, <2>8, <2>9 DEF MergeFollowsEvidence, g, all, uncut
<1> QED  BY <1>1, InputsAreLists, PTL

-----------------------------------------------------------------------------
\* What Before compares.
Comparable(e) == e.kind \in Kinds /\ Or0(e.maxQ) \in Int /\ Or0(e.maxSimilarity) \in Int

\* The edges of a merge can be compared.
LEMMA MergedCompares ==
  ASSUME NEW edges, NEW table, NEW all, NEW uncut, Merged(all, uncut, edges, table),
         NEW e \in ToSet(uncut)
  PROVE  Comparable(e)
<1>1. /\ \A m \in ToSet(e.matches) : m.q \in Int \cup {Null}
      /\ StrongestOf(ToSet(e.matches), e.maxQ)
      /\ e.kind = Classify(e.maxQ, <<e.from, e.to>> \in Proposed(edges))
      /\ Or0(e.maxSimilarity) \in Int
  BY MergedSays
<1>2. e.maxQ \in Int \cup {Null} /\ e.kind \in Kinds
  BY <1>1, KindSays
<1>3. Or0(e.maxQ) \in Int
  BY <1>2 DEF Or0
<1> QED  BY <1>1, <1>2, <1>3 DEF Comparable

\* Before is an order with ties.
LEMMA BeforeOrders ==
  ASSUME NEW a, NEW b, NEW c, Comparable(a), Comparable(b), Comparable(c)
  PROVE  /\ ~Before(a, a) /\ (Before(a, b) => ~Before(b, a))
         /\ ~Before(b, a) /\ ~Before(c, b) => ~Before(c, a)
<1> DEFINE K(e) == KindRank(e.kind)
           Q(e) == Abs(Or0(e.maxQ))
           S(e) == Or0(e.maxSimilarity)
<1>1. ASSUME NEW e \in {a, b, c} PROVE K(e) \in Int /\ Q(e) \in Int /\ S(e) \in Int
  BY DEF Comparable, KindRank, Kinds, Abs
<1>2. \A d, e \in {a, b, c} : d.kind = e.kind <=> K(d) = K(e)
  BY DEF Comparable, KindRank, Kinds
<1>3. \A d, e \in {a, b, c} :
         Before(d, e) <=> \/ K(d) < K(e)
                          \/ K(d) = K(e) /\ Q(d) > Q(e)
                          \/ K(d) = K(e) /\ Q(d) = Q(e) /\ S(d) > S(e)
  <2> SUFFICES ASSUME NEW d \in {a, b, c}, NEW e \in {a, b, c}
               PROVE  Before(d, e) <=> \/ K(d) < K(e)
                                       \/ K(d) = K(e) /\ Q(d) > Q(e)
                                       \/ K(d) = K(e) /\ Q(d) = Q(e) /\ S(d) > S(e)
    OBVIOUS
  <2>1. Before(d, e) <=> IF ~(d.kind = e.kind) THEN K(d) < K(e)
                         ELSE IF ~(Q(d) = Q(e)) THEN Q(d) > Q(e) ELSE S(d) > S(e)
    BY DEF Before
  <2>2. /\ d.kind = e.kind <=> K(d) = K(e)
        /\ K(d) \in Int /\ K(e) \in Int /\ Q(d) \in Int /\ Q(e) \in Int
    BY <1>1, <1>2
  <2> HIDE DEF K, Q, S
  <2> QED  BY <2>1, <2>2
<1> HIDE DEF K, Q, S
<1> QED  BY <1>1, <1>3

\* Who comes before the i-th edge when the list is cut.
Leads(uncut, h, i) == \/ Before(uncut[h], uncut[i])
                      \/ h < i /\ ~Before(uncut[i], uncut[h])
AheadOf(uncut, i) == {h \in DOMAIN uncut : Leads(uncut, h, i)}

\* No two edges have the same place.
LEMMA PlacesDiffer ==
  ASSUME NEW n \in Nat, NEW uncut, DOMAIN uncut = 1..n, \A e \in ToSet(uncut) : Comparable(e)
  PROVE  /\ \A i \in DOMAIN uncut : PlaceOf(uncut, i) \in Nat
         /\ \A i, j \in DOMAIN uncut : PlaceOf(uncut, i) = PlaceOf(uncut, j) => i = j
<1> DEFINE Ahead(i) == AheadOf(uncut, i)
<1>1. \A i \in 1..n : Comparable(uncut[i])
  BY DEF ToSet
<1>2. ASSUME NEW i \in 1..n
      PROVE  PlaceOf(uncut, i) = Cardinality(Ahead(i)) /\ IsFiniteSet(Ahead(i))
  <2>1. IsFiniteSet(1..n) /\ Ahead(i) \subseteq 1..n
    BY FS_Interval DEF AheadOf
  <2>2. IsFiniteSet(Ahead(i))
    BY <2>1, FS_Subset
  <2> QED  BY <2>2 DEF PlaceOf, AheadOf, Leads
<1>3. ASSUME NEW i \in 1..n, NEW j \in 1..n, Leads(uncut, i, j)
      PROVE  Cardinality(Ahead(i)) < Cardinality(Ahead(j))
  <2>1. ASSUME NEW h \in 1..n, Leads(uncut, h, i) PROVE Leads(uncut, h, j)
    <3> DEFINE a == uncut[h]
               b == uncut[i]
               c == uncut[j]
    <3>1. Comparable(a) /\ Comparable(b) /\ Comparable(c)
      BY <1>1
    <3>2. /\ Before(a, b) \/ (h < i /\ ~Before(b, a))
          /\ Before(b, c) \/ (i < j /\ ~Before(c, b))
      BY <1>3, <2>1 DEF Leads
    <3>3. Leads(uncut, h, j) <=> Before(a, c) \/ (h < j /\ ~Before(c, a))
      BY DEF Leads
    <3> HIDE DEF a, b, c
    <3>4. ~Before(b, a) /\ ~Before(c, b)
      BY <3>1, <3>2, BeforeOrders
    <3>5. ~Before(c, a)
      BY <3>1, <3>4, BeforeOrders
    <3>6. CASE Before(a, b)
      <4>1. ~Before(a, c) => ~Before(a, b)
        BY <3>1, <3>4, BeforeOrders
      <4> QED  BY <3>3, <3>6, <4>1
    <3>7. CASE Before(b, c)
      <4>1. ~Before(a, c) => ~Before(b, c)
        BY <3>1, <3>4, BeforeOrders
      <4> QED  BY <3>3, <3>7, <4>1
    <3>8. CASE h < i /\ i < j
      BY <3>3, <3>5, <3>8
    <3> QED  BY <3>2, <3>6, <3>7, <3>8
  <2>2. i \in Ahead(j)
    BY <1>3 DEF AheadOf
  <2>3. i \notin Ahead(i)
    <3>1. ~Before(uncut[i], uncut[i])
      BY <1>1, BeforeOrders
    <3> QED  BY <3>1 DEF AheadOf, Leads
  <2>4. Ahead(i) \subseteq Ahead(j) /\ Ahead(i) # Ahead(j)
    BY <2>1, <2>2, <2>3 DEF AheadOf
  <2> HIDE DEF Ahead
  <2>5. IsFiniteSet(Ahead(j)) /\ IsFiniteSet(Ahead(i))
    BY <1>2
  <2>6. /\ Cardinality(Ahead(i)) <= Cardinality(Ahead(j))
        /\ Cardinality(Ahead(i)) # Cardinality(Ahead(j))
    BY <2>4, <2>5, FS_Subset
  <2>7. Cardinality(Ahead(i)) \in Nat /\ Cardinality(Ahead(j)) \in Nat
    BY <2>5, FS_CardinalityType
  <2> QED  BY <2>6, <2>7
<1>4. ASSUME NEW i \in 1..n, NEW j \in 1..n, i # j
      PROVE  Leads(uncut, i, j) \/ Leads(uncut, j, i)
  BY <1>4 DEF Leads
<1>5. \A i \in 1..n : PlaceOf(uncut, i) = Cardinality(Ahead(i)) /\ Cardinality(Ahead(i)) \in Nat
  BY <1>2, FS_CardinalityType
<1> HIDE DEF Ahead
<1>6. ASSUME NEW i \in 1..n, NEW j \in 1..n, PlaceOf(uncut, i) = PlaceOf(uncut, j) PROVE i = j
  <2>1. /\ Leads(uncut, i, j) => Cardinality(Ahead(i)) < Cardinality(Ahead(j))
        /\ Leads(uncut, j, i) => Cardinality(Ahead(j)) < Cardinality(Ahead(i))
    BY <1>3
  <2> QED  BY <1>4, <1>5, <1>6, <2>1
<1> QED  BY <1>5, <1>6

\* Never more edges than the ceiling, as each has a place below it of its own.
LEMMA CutToSize ==
  ASSUME NEW n \in Nat, NEW uncut, DOMAIN uncut = 1..n, \A e \in ToSet(uncut) : Comparable(e)
  PROVE  IsFiniteSet(Pruned(uncut)) /\ Cardinality(Pruned(uncut)) <= MaxShown
<1> DEFINE kept == Pruned(uncut)
           At(e) == CHOOSE k \in DOMAIN uncut : uncut[k] = e /\ PlaceOf(uncut, k) < MaxShown
           f == [e \in kept |-> PlaceOf(uncut, At(e))]
           P == 0..(MaxShown - 1)
<1>1. ASSUME NEW e \in kept
      PROVE  At(e) \in DOMAIN uncut /\ uncut[At(e)] = e /\ PlaceOf(uncut, At(e)) < MaxShown
  <2>1. \E k \in DOMAIN uncut : uncut[k] = e /\ PlaceOf(uncut, k) < MaxShown
    BY DEF Pruned
  <2> QED  BY <2>1
<1> HIDE DEF At, kept
<1>2. MaxShown \in Nat
  BY GraphMergeAssumption
<1>3. \A e \in kept : PlaceOf(uncut, At(e)) \in P
  BY <1>1, <1>2, PlacesDiffer
<1>4. \A d, e \in kept : f[d] = f[e] => d = e
  BY <1>1, PlacesDiffer
<1>5. f \in Injection(kept, P)
  BY <1>3, <1>4 DEF Injection, IsInjective
<1>6. IsFiniteSet(P) /\ Cardinality(P) = MaxShown
  <2>1. IsFiniteSet(P) /\ Cardinality(P) = IF 0 > MaxShown - 1 THEN 0 ELSE (MaxShown - 1) - 0 + 1
    BY <1>2, FS_Interval
  <2> QED  BY <1>2, <2>1
<1> HIDE DEF f, P
<1>7. IsFiniteSet(kept) /\ Cardinality(kept) <= Cardinality(P)
  BY <1>5, <1>6, FS_Injection
<1> QED  BY <1>6, <1>7 DEF kept

\* Edges of every kind are the edges.
LEMMA KindsSum ==
  ASSUME NEW E, IsFiniteSet(E), \A e \in E : e.kind \in Kinds
  PROVE  Count(E, "confirmed") + Count(E, "predicted") + Count(E, "penalized")
           + Count(E, "discovered") = Cardinality(E)
<1> DEFINE OfKind(k) == {e \in E : e.kind = k}
           one == OfKind("confirmed") \cup OfKind("predicted")
           two == OfKind("penalized") \cup OfKind("discovered")
<1>1. ASSUME NEW k PROVE IsFiniteSet(OfKind(k)) /\ Cardinality(OfKind(k)) = Count(E, k)
  <2>1. OfKind(k) \subseteq E
    OBVIOUS
  <2>2. IsFiniteSet(OfKind(k))
    BY <2>1, FS_Subset
  <2> QED  BY <2>2 DEF Count
<1>2. /\ OfKind("confirmed") \cap OfKind("predicted") = {}
      /\ OfKind("penalized") \cap OfKind("discovered") = {}
      /\ one \cap two = {} /\ one \cup two = E
  BY DEF Kinds
<1>3. Cardinality({}) = 0
  BY FS_EmptySet
<1> HIDE DEF OfKind
<1>4. IsFiniteSet(one) /\ Cardinality(one) = Count(E, "confirmed") + Count(E, "predicted") - 0
  BY <1>1, <1>2, <1>3, FS_Union
<1>5. IsFiniteSet(two) /\ Cardinality(two) = Count(E, "penalized") + Count(E, "discovered") - 0
  BY <1>1, <1>2, <1>3, FS_Union
<1> HIDE DEF one, two
<1>6. Cardinality(one \cup two) = Cardinality(one) + Cardinality(two) - 0
  BY <1>2, <1>3, <1>4, <1>5, FS_Union
<1>7. ASSUME NEW k PROVE Count(E, k) \in Nat
  BY <1>1, FS_CardinalityType
<1>8. /\ Count(E, "confirmed") \in Nat /\ Count(E, "predicted") \in Nat
      /\ Count(E, "penalized") \in Nat /\ Count(E, "discovered") \in Nat
  BY <1>7
<1>9. Cardinality(E) = Cardinality(one) + Cardinality(two)
  <2>1. Cardinality(one) \in Nat /\ Cardinality(two) \in Nat
    BY <1>4, <1>5, FS_CardinalityType
  <2> QED  BY <1>2, <1>6, <2>1
<1> QED  BY <1>4, <1>5, <1>8, <1>9

\* Operations with an edge and those without are the operations.
LEMMA IsolatedRest ==
  ASSUME NEW E, IsFiniteSet(E), \A e \in E : e.from \in Nodes /\ e.to \in Nodes
  PROVE  Isolated(Nodes, E) + Cardinality({e.from : e \in E} \cup {e.to : e \in E})
           = Cardinality(Nodes)
<1> DEFINE joined == {e.from : e \in E} \cup {e.to : e \in E}
           alone == {n \in Nodes : Outgoing(E, n) = 0 /\ Incoming(E, n) = 0}
<1>1. ASSUME NEW n
      PROVE  /\ Outgoing(E, n) = 0 <=> \A e \in E : e.to # n
             /\ Incoming(E, n) = 0 <=> \A e \in E : e.from # n
  <2> DEFINE out == {e \in E : e.to = n}
             in == {e \in E : e.from = n}
  <2>1. out \subseteq E /\ in \subseteq E
    OBVIOUS
  <2>2. IsFiniteSet(out) /\ IsFiniteSet(in)
    BY <2>1, FS_Subset
  <2>3. Outgoing(E, n) = Cardinality(out) /\ Incoming(E, n) = Cardinality(in)
    BY DEF Outgoing, Incoming
  <2>4. (out = {} <=> \A e \in E : e.to # n) /\ (in = {} <=> \A e \in E : e.from # n)
    OBVIOUS
  <2> HIDE DEF out, in
  <2> QED  BY <2>2, <2>3, <2>4, FS_EmptySet
<1>2. alone = Nodes \ joined
  BY <1>1
<1>3. joined \subseteq Nodes /\ Nodes \cap joined = joined /\ IsFiniteSet(Nodes)
  BY GraphMergeAssumption
<1>4. Isolated(Nodes, E) = Cardinality(alone)
  BY DEF Isolated
<1> HIDE DEF joined, alone
<1>5. Cardinality(alone) = Cardinality(Nodes) - Cardinality(joined)
  BY <1>2, <1>3, FS_Difference
<1>6. Cardinality(Nodes) \in Nat /\ Cardinality(joined) \in Nat
  BY <1>3, FS_Subset, FS_CardinalityType
<1> QED  BY <1>4, <1>5, <1>6 DEF joined

\* What is sent can be laid out and is counted right: its edges join listed
\* operations, no operation to itself, one for each pair and never more than
\* the ceiling; the kinds add up to the dependencies, and the operations
\* without a dependency to the rest of the operations.
THEOREM TheGraphCanBeDrawn ==
  MergeSpec => [](/\ Drawable(MergeGraph(static, learned))
                  /\ StatsAddUp(MergeGraph(static, learned)))
<1>1. ASSUME GraphTypeOK
      PROVE  Drawable(MergeGraph(static, learned)) /\ StatsAddUp(MergeGraph(static, learned))
  <2> DEFINE g == MergeGraph(static, learned)
             E == g.edges
             all == BuildSlots(static, learned)
             uncut == Resolved(static, learned)
  <2>1. Merged(all, uncut, static, learned)
    BY <1>1, MergeSays DEF GraphTypeOK
  <2>2. E = Pruned(uncut) /\ E \subseteq ToSet(uncut)
    BY CutFromUncut
  <2>3. g.stats = BuildStats(Nodes, E, Len(static))
    BY DEF MergeGraph
  <2> HIDE DEF g, E, all, uncut
  <2>4. PICK n \in Nat : DOMAIN uncut = 1..n
    BY <2>1 DEF Merged
  <2>5. \A e \in ToSet(uncut) : Comparable(e)
    BY <2>1, MergedCompares
  <2>6. IsFiniteSet(E) /\ Cardinality(E) <= MaxShown
    BY <2>2, <2>4, <2>5, CutToSize
  <2>7. ASSUME NEW e \in E PROVE e.from \in Nodes /\ e.to \in Nodes /\ e.from # e.to
    <3>1. e \in ToSet(uncut) /\ all \in Seq(Candidates) /\ ToSet(all) \subseteq Apart
      BY <2>1, <2>2 DEF Merged
    <3>2. Linked(Winners(all), e.from, e.to) # {}
      BY <2>1, <3>1 DEF Merged, Resolves
    <3>3. PICK w \in Winners(all) : w.producer = e.from /\ w.consumer = e.to
      BY <3>2 DEF Linked
    <3>4. w \in Apart
      BY <3>1, WinnerFits DEF Winners
    <3> QED  BY <2>1, <3>1, <3>3, <3>4 DEF Merged, Apart
  <2>8. \A d, e \in E : d.from = e.from /\ d.to = e.to => d = e
    BY <2>1, <2>2 DEF Merged, Resolves
  <2>9. Drawable(g)
    BY <2>6, <2>7, <2>8 DEF Drawable, E
  <2>10. StatsAddUp(g)
    <3> DEFINE s == g.stats
    <3>1. /\ s.operations = Cardinality(Nodes) /\ s.dependencies = Cardinality(E)
          /\ s.isolated = Isolated(Nodes, E)
          /\ s.kinds["confirmed"] = Count(E, "confirmed")
          /\ s.kinds["predicted"] = Count(E, "predicted")
          /\ s.kinds["penalized"] = Count(E, "penalized")
          /\ s.kinds["discovered"] = Count(E, "discovered")
      BY <2>3 DEF BuildStats
    <3> HIDE DEF s
    <3>2. \A e \in E : e.kind \in Kinds
      BY <2>2, <2>5 DEF Comparable
    <3>3. s.kinds["confirmed"] + s.kinds["predicted"] + s.kinds["penalized"]
            + s.kinds["discovered"] = s.dependencies
      BY <2>6, <3>1, <3>2, KindsSum
    <3>4. s.isolated + Cardinality({e.from : e \in E} \cup {e.to : e \in E}) = s.operations
      BY <2>6, <2>7, <3>1, IsolatedRest
    <3> QED  BY <3>3, <3>4 DEF StatsAddUp, E, s
  <2> QED  BY <2>9, <2>10 DEF g
<1> QED  BY <1>1, InputsAreLists, PTL
=============================================================================
