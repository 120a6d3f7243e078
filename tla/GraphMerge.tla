----------------------------- MODULE GraphMerge -----------------------------
(***************************************************************************)
(* mergeGraph: from the engine's two graph artifacts to the graph the UI   *)
(* draws (backend/src/graph/graph-merge.ts).                               *)
(*                                                                         *)
(* The static graph proposes, for a parameter of a consumer, the fields of *)
(* producers that could supply it; the Q-table says what the agent learned *)
(* of them.  Every parameter is resolved to one winner, and the winners of *)
(* one producer and consumer make one edge.                                *)
(*                                                                         *)
(* Pure functions: the state is their input, built up match by match.      *)
(* Operations, parameters and fields are numbers, for the comparisons that *)
(* end in their names; Q-values and QEpsilon are multiples of a small unit. *)
(***************************************************************************)
EXTENDS Integers, FiniteSets, SequencesExt

CONSTANTS
    Nodes,         \* the operations the static graph lists
    StaticPairs,   \* <<consumer, producer>> pairs its edges may have
    LearnedPairs,  \* ... and those the Q-table may have
    Matches,       \* a producer's fields a parameter may be matched with
    Entries,       \* and the Q-values of them the table may have
    MaxShown,      \* MAX_EDGES
    QEpsilon,      \* Q_EPSILON: below it a Q-value is noise, not evidence
    Null,
    MaxEdges, MaxItems, MaxLearned  \* bounds on the input

ASSUME GraphMergeAssumption ==
    /\ Nodes \subseteq Nat /\ IsFiniteSet(Nodes)
    /\ StaticPairs \subseteq Nat \X Nat /\ LearnedPairs \subseteq Nat \X Nat
    /\ Matches \subseteq [param : Nat, producedBy : Nat,
                         producedIn : {"response", "body", "params"}, similarity : Nat \ {0}]
    /\ Entries \subseteq [pair : LearnedPairs, param : Nat, producedBy : Nat,
                         producedIn : {"response", "body", "params"}, q : Int]
    /\ MaxShown \in Nat /\ QEpsilon \in Nat \ {0} /\ Null \notin Int

VARIABLES
    static,   \* static graph: its edges, each with its matches
    learned   \* the Q-table, in the order indexLearned walks it

mergeVars == <<static, learned>>

-----------------------------------------------------------------------------
(* Values that may be null.                                                *)

Or0(x) == IF x = Null THEN 0 ELSE x
Abs(x) == IF x < 0 THEN -x ELSE x
MaxOrNull(S) == IF S = {} THEN Null ELSE Max(S)

\* What a sequence has at some of its places, and at the first of each value.
Picked(seq, places) ==
    FoldLeft(LAMBDA acc, i : IF i \in places THEN Append(acc, seq[i]) ELSE acc,
             <<>>, [i \in DOMAIN seq |-> i])

Distinct(seq) == Picked(seq, {i \in DOMAIN seq : \A j \in 1..(i - 1) : seq[j] # seq[i]})

\* strongestQ: the Q felt most strongly about, the first of equals.
StrongestQ(qs) ==
    LET known == {i \in DOMAIN qs : qs[i] # Null}
        strongest == {i \in known : \A j \in known : Abs(qs[j]) <= Abs(qs[i])}
    IN IF known = {} THEN Null ELSE qs[Min(strongest)]

-----------------------------------------------------------------------------
(* Candidates.                                                             *)

\* The first entry of the pair's parameter with the match's field; buckets
\* are not compared.
LearnedQ(table, pair, m) ==
    LET hits == {i \in DOMAIN table : /\ table[i].pair = pair /\ table[i].param = m.param
                                      /\ table[i].producedBy = m.producedBy} IN
    IF hits = {} THEN Null ELSE table[Min(hits)].q

Candidate(consumer, producer, m, similarity, q, tentative) ==
    [consumer |-> consumer, param |-> m.param, producer |-> producer,
     producedBy |-> m.producedBy, producedIn |-> m.producedIn,
     similarity |-> similarity, q |-> q, tentative |-> tentative]

Slot(c) == <<c.consumer, c.param>>

\* addCandidate: no operation depends on itself.
AddCandidate(cands, c) == IF c.producer = c.consumer THEN cands ELSE Append(cands, c)

AddMatches(cands, e, table) ==
    FoldLeft(LAMBDA acc, m :
        AddCandidate(acc, Candidate(e.pair[1], e.pair[2], m, m.similarity,
                                    LearnedQ(table, e.pair, m), e.tentative)),
        cands, e.matches)

\* buildSlots' first half: what the static graph proposes.
StaticCandidates(edges, table) ==
    FoldLeft(LAMBDA acc, e : AddMatches(acc, e, table), <<>>, edges)

KnownIn(cands, e) ==
    \E i \in DOMAIN cands : /\ Slot(cands[i]) = <<e.pair[1], e.param>>
                            /\ cands[i].producer = e.pair[2]
                            /\ cands[i].producedBy = e.producedBy

\* Wrong: what the agent found for itself is left out.
WithDiscovered_None(cands, table) == cands

\* buildSlots' second half: what the Q-table knows and the static graph does not.
WithDiscovered(cands, table) ==
    FoldLeft(LAMBDA acc, e :
        IF KnownIn(acc, e) THEN acc
        ELSE AddCandidate(acc, Candidate(e.pair[1], e.pair[2], e, Null, e.q, FALSE)),
        cands, table)

BuildSlots(edges, table) == WithDiscovered(StaticCandidates(edges, table), table)

\* The pairs the static graph proposed, as <<producer, consumer>>.
Proposed(edges) == {<<edges[i].pair[2], edges[i].pair[1]>> : i \in DOMAIN edges}

-----------------------------------------------------------------------------
(* Resolution.                                                             *)

Rank(bucket) == CASE bucket = "response" -> 0 [] bucket = "body" -> 1
                  [] bucket = "params" -> 2

\* Wrong: similarity is compared before what was learned.
Better_SimilarityFirst(a, b) ==
    IF Or0(a.similarity) # Or0(b.similarity) THEN Or0(a.similarity) > Or0(b.similarity)
    ELSE Or0(a.q) > Or0(b.q)

\* better: the highest Q, noise included, then similarity, bucket, producer and
\* field.
Better(a, b) ==
    IF Or0(a.q) # Or0(b.q) THEN Or0(a.q) > Or0(b.q)
    ELSE IF Or0(a.similarity) # Or0(b.similarity) THEN Or0(a.similarity) > Or0(b.similarity)
    ELSE IF Rank(a.producedIn) # Rank(b.producedIn) THEN Rank(a.producedIn) < Rank(b.producedIn)
    ELSE IF a.producer # b.producer THEN a.producer < b.producer
    ELSE a.producedBy < b.producedBy

\* The best of the slot's candidates, the first of equals.
Winner(cands, slot) ==
    LET first == Min({i \in DOMAIN cands : Slot(cands[i]) = slot}) IN
    FoldLeft(LAMBDA best, c : IF Slot(c) = slot /\ Better(c, best) THEN c ELSE best,
             cands[first], cands)

IsEvidence(q) == Abs(Or0(q)) >= QEpsilon

\* Wrong: noise counts as evidence.
Classify_Noise(maxQ, proposed) ==
    CASE ~proposed -> "discovered"
      [] proposed /\ Or0(maxQ) = 0 -> "predicted"
      [] proposed /\ Or0(maxQ) > 0 -> "confirmed"
      [] proposed /\ Or0(maxQ) < 0 -> "penalized"

Classify(maxQ, proposed) ==
    CASE ~proposed -> "discovered"
      [] proposed /\ ~IsEvidence(maxQ) -> "predicted"
      [] proposed /\ IsEvidence(maxQ) /\ Or0(maxQ) > 0 -> "confirmed"
      [] proposed /\ IsEvidence(maxQ) /\ Or0(maxQ) <= 0 -> "penalized"

\* The order of a pair's matches: strongest Q, then similarity, then name.
MatchBefore(a, b) ==
    IF Abs(Or0(a.q)) # Abs(Or0(b.q)) THEN Abs(Or0(a.q)) > Abs(Or0(b.q))
    ELSE IF Or0(a.similarity) # Or0(b.similarity) THEN Or0(a.similarity) > Or0(b.similarity)
    ELSE a.param < b.param

Sorted(matches) ==
    FoldLeft(LAMBDA acc, m :
        InsertAt(acc, Cardinality({i \in DOMAIN acc : ~MatchBefore(m, acc[i])}) + 1, m),
        <<>>, matches)

MatchOf(w, hasLearned) ==
    [param |-> w.param, producedBy |-> w.producedBy, producedIn |-> w.producedIn,
     similarity |-> w.similarity, q |-> IF hasLearned THEN w.q ELSE Null]

\* One edge: the parameters of pair[2] that pair[1] resolves.
Edge(pair, won, proposed, hasLearned) ==
    LET matches == [i \in DOMAIN won |-> MatchOf(won[i], hasLearned)]
        maxQ == StrongestQ([i \in DOMAIN won |-> matches[i].q])
        maxSimilarity == MaxOrNull({matches[i].similarity : i \in DOMAIN won} \ {Null})
        learnedWeight == IsEvidence(maxQ)
    IN [from |-> pair[1], to |-> pair[2], kind |-> Classify(maxQ, pair \in proposed),
        maxSimilarity |-> maxSimilarity, maxQ |-> maxQ,
        tentative |-> \A i \in DOMAIN won : won[i].tentative,
        matches |-> Sorted(matches),
        weight |-> IF learnedWeight THEN maxQ ELSE maxSimilarity,
        weightKind |-> IF learnedWeight THEN "confidence" ELSE "similarity"]

\* resolveSlots: one winner per slot, one edge per pair of the winners.
ResolveSlots(cands, proposed, hasLearned) ==
    LET slots == Distinct([i \in DOMAIN cands |-> Slot(cands[i])])
        winners == [i \in DOMAIN slots |-> Winner(cands, slots[i])]
        pairs == Distinct([i \in DOMAIN winners |-> <<winners[i].producer, winners[i].consumer>>])
        of(p) == Picked(winners, {i \in DOMAIN winners : <<winners[i].producer, winners[i].consumer>> = p})
    IN [i \in DOMAIN pairs |-> Edge(pairs[i], of(pairs[i]), proposed, hasLearned)]

\* "Drawing an edge to a node that isn't there would break the layout."
Drawn(edges, nodes) ==
    Picked(edges, {i \in DOMAIN edges : edges[i].from \in nodes /\ edges[i].to \in nodes})

KindRank(kind) == CASE kind = "discovered" -> 0 [] kind = "confirmed" -> 1
                    [] kind = "penalized" -> 2 [] kind = "predicted" -> 3

\* Before another when the list is cut.
Before(a, b) ==
    IF a.kind # b.kind THEN KindRank(a.kind) < KindRank(b.kind)
    ELSE IF Abs(Or0(a.maxQ)) # Abs(Or0(b.maxQ)) THEN Abs(Or0(a.maxQ)) > Abs(Or0(b.maxQ))
    ELSE Or0(a.maxSimilarity) > Or0(b.maxSimilarity)

\* How many come before edges[i]; equals stay in the order they came.
PlaceOf(edges, i) ==
    Cardinality({j \in DOMAIN edges : \/ Before(edges[j], edges[i])
                                      \/ j < i /\ ~Before(edges[i], edges[j])})

\* pruneEdges: what the agent learned first, then strong matches.
Pruned(edges) == {edges[i] : i \in {k \in DOMAIN edges : PlaceOf(edges, k) < MaxShown}}

Outgoing(edges, n) == Cardinality({e \in edges : e.to = n})
Incoming(edges, n) == Cardinality({e \in edges : e.from = n})
Count(edges, kind) == Cardinality({e \in edges : e.kind = kind})

\* Wrong: an operation is isolated when nothing depends on it.
Isolated_Sinks(nodes, edges) == Cardinality({n \in nodes : Incoming(edges, n) = 0})
Isolated(nodes, edges) ==
    Cardinality({n \in nodes : Outgoing(edges, n) = 0 /\ Incoming(edges, n) = 0})

\* buildStats; mostDependedUpon by its count, the id being any with it.
BuildStats(nodes, edges, candidates) ==
    [operations |-> Cardinality(nodes), dependencies |-> Cardinality(edges),
     candidates |-> candidates,
     kinds |-> [k \in {"confirmed", "predicted", "penalized", "discovered"} |-> Count(edges, k)],
     isolated |-> Isolated(nodes, edges),
     entryPoints |-> {n \in nodes : Outgoing(edges, n) = 0},
     mostDependedUpon |-> Max({0} \cup {Incoming(edges, n) : n \in nodes})]

GRAPH_SCHEMA == 2

Resolved(edges, table) ==
    Drawn(ResolveSlots(BuildSlots(edges, table), Proposed(edges), table # <<>>), Nodes)

\* mergeGraph; the outcomes that colour a run's nodes do not touch its edges.
MergeGraph(edges, table) ==
    LET all == Resolved(edges, table) IN
    [schema |-> GRAPH_SCHEMA, nodes |-> Nodes, edges |-> Pruned(all),
     truncated |-> Len(all) > MaxShown,
     stats |-> BuildStats(Nodes, Pruned(all), Len(edges))]

-----------------------------------------------------------------------------
(* Graphs stored earlier.                                                  *)

LegacyCandidates(edges) ==
    FoldLeft(LAMBDA acc, e :
        FoldLeft(LAMBDA acc2, m :
            AddCandidate(acc2, Candidate(e.to, e.from, m, m.similarity, m.q, e.tentative)),
            acc, e.matches),
        <<>>, edges)

LegacyProposed(edges) ==
    {<<e.from, e.to>> : e \in {f \in ToSet(edges) : f.kind # "discovered" /\ f.from # f.to}}

\* resolveLegacyGraph: the same resolution on the matches of a stored graph,
\* its edges in their stored order.
ResolveLegacyGraph(graph, edges) ==
    LET hasLearned == \E e \in ToSet(edges) : \E m \in ToSet(e.matches) : m.q # Null
        all == Drawn(ResolveSlots(LegacyCandidates(edges), LegacyProposed(edges), hasLearned),
                     graph.nodes)
    IN [graph EXCEPT !.schema = GRAPH_SCHEMA, !.edges = Pruned(all),
                     !.truncated = @ \/ Len(all) > MaxShown,
                     !.stats = BuildStats(graph.nodes, Pruned(all), Len(edges))]

UpgradeStoredGraph(graph, edges) ==
    IF graph.schema >= GRAPH_SCHEMA THEN graph ELSE ResolveLegacyGraph(graph, edges)

-----------------------------------------------------------------------------
Items == Len(learned) + FoldLeft(LAMBDA n, e : n + Len(e.matches), 0, static)

MergeInit == static = <<>> /\ learned = <<>>

\* The semantic comparator proposed a pair, an edge for each.
AddEdge ==
    /\ Len(static) < MaxEdges /\ Items < MaxItems
    /\ \E pair \in StaticPairs, m \in Matches :
          /\ \A i \in DOMAIN static : static[i].pair # pair
          /\ static' = Append(static, [pair |-> pair, matches |-> <<m>>,
                                       tentative |-> m.similarity = Min({n.similarity : n \in Matches})])
    /\ UNCHANGED learned

AddMatch ==
    /\ static # <<>> /\ Items < MaxItems
    /\ \E m \in Matches :
          /\ \A i \in DOMAIN Last(static).matches :
                LET d == Last(static).matches[i] IN
                <<d.param, d.producedBy, d.producedIn>> # <<m.param, m.producedBy, m.producedIn>>
          /\ static' = [static EXCEPT ![Len(static)].matches = Append(@, m)]
    /\ UNCHANGED learned

\* The agent has exercised a field of a producer for a parameter.
Learn ==
    /\ Len(learned) < MaxLearned /\ Items < MaxItems
    /\ \E e \in Entries :
          /\ \A i \in DOMAIN learned : [learned[i] EXCEPT !.q = e.q] # e
          /\ learned' = Append(learned, e)
    /\ UNCHANGED static

MergeNext == AddEdge \/ AddMatch \/ Learn

MergeSpec == MergeInit /\ [][MergeNext]_mergeVars

-----------------------------------------------------------------------------
Wins(edges) == UNION {{<<e.from, e.to, m>> : m \in ToSet(e.matches)} : e \in ToSet(edges)}

\* What is drawn can be laid out: edges join listed operations, no operation
\* to itself, one edge for each pair, and never more than the ceiling.
Drawable(g) ==
    /\ \A e \in g.edges : e.from \in Nodes /\ e.to \in Nodes /\ e.from # e.to
    /\ \A d, e \in g.edges : d.from = e.from /\ d.to = e.to => d = e
    /\ Cardinality(g.edges) <= MaxShown

\* "One winner per parameter", and the agent's own: of all that could supply
\* it, static or learned, none has a higher Q; an unexercised one counts 0.
WinnerIsTheAgents(g, all) ==
    \A e \in g.edges : \A m \in ToSet(e.matches) :
        /\ \A d \in g.edges : \A n \in ToSet(d.matches) :
              d.to = e.to /\ n.param = m.param => d = e /\ n = m
        /\ \A i \in DOMAIN all : Slot(all[i]) = <<e.to, m.param>> =>
              Or0(m.q) >= Or0(all[i].q)

\* Nothing the agent exercised is forgotten: every entry of the Q-table
\* competes for its parameter.
LearnedCompetes(all) ==
    \A i \in DOMAIN learned :
        learned[i].pair[1] # learned[i].pair[2] => KnownIn(all, learned[i])

\* The static graph, its edges and their matches in the opposite order.
Backwards == Reverse([i \in DOMAIN static |-> [static[i] EXCEPT !.matches = Reverse(@)]])

\* The order of the static graph does not show in who won; it may show in the
\* kind of an edge only where its two strongest Q-values are opposite.
RebuildIsSame(uncut) ==
    \A again \in {Resolved(Backwards, learned)} :
        /\ Wins(again) = Wins(uncut)
        /\ \A d \in ToSet(uncut), e \in ToSet(again) :
              d.from = e.from /\ d.to = e.to =>
                 d.kind = e.kind \/ (d.maxQ \in Int /\ e.maxQ = -d.maxQ)

\* A match carries the Q of its own field, wherever the producer has a field
\* of that name in one place only.
QIsOfItsField(g) ==
    \A e \in g.edges : \A m \in ToSet(e.matches) : \A i \in DOMAIN learned :
        LET own == {j \in DOMAIN learned :
                      /\ learned[j].pair = <<e.to, e.from>> /\ learned[j].param = m.param
                      /\ learned[j].producedBy = m.producedBy}
        IN i \in own /\ Cardinality(own) = 1 => m.q = learned[i].q

\* An edge is penalised where a penalty beyond the noise is the strongest
\* evidence of its matches, confirmed where a reward is; what has nothing but
\* noise stays predicted, and discovered is what nobody proposed.
KindTellsEvidence(g) ==
    \A e \in g.edges :
        LET qs == {m.q : m \in ToSet(e.matches)} \ {Null}
            proposed == \E i \in DOMAIN static : static[i].pair = <<e.to, e.from>>
        IN /\ e.kind = "discovered" <=> ~proposed
           /\ e.kind = "penalized" =>
                 \E q \in qs : q <= -QEpsilon /\ \A r \in qs : Abs(r) <= -q
           /\ e.kind = "confirmed" =>
                 \E q \in qs : q >= QEpsilon /\ \A r \in qs : Abs(r) <= q
           /\ e.kind = "predicted" => \A q \in qs : Abs(q) < QEpsilon

\* The figures beside the graph are about the edges drawn.
StatsAddUp(g) ==
    LET s == g.stats IN
    /\ s.kinds["confirmed"] + s.kinds["predicted"] + s.kinds["penalized"]
         + s.kinds["discovered"] = s.dependencies
    /\ s.isolated + Cardinality({e.from : e \in g.edges} \cup {e.to : e \in g.edges})
         = s.operations

\* Cutting keeps what the agent learned before what is only predicted.
LearnedSurvives(g, uncut) ==
    \A d \in ToSet(uncut) \ g.edges : \A e \in g.edges :
        e.kind = "predicted" => d.kind = "predicted"

\* A stored graph brought forward once more keeps its winners, and what the
\* agent found for itself: whichever way its edges are stored, reading it as
\* one of the older schema gives them again.
UpgradeIsStable(g) ==
    \A stored \in {SetToSeq(g.edges)} :
        \A again \in {UpgradeStoredGraph([g EXCEPT !.schema = 1], stored)} :
            /\ Wins(SetToSeq(again.edges)) = Wins(stored)
            /\ \A d \in g.edges, e \in again.edges :
                  d.from = e.from /\ d.to = e.to =>
                      (d.kind = "discovered" <=> e.kind = "discovered")

\* One winner for each parameter, whatever order the graph came in, and what is
\* drawn says no more and no less than the evidence for it.
MergeFollowsEvidence ==
    \A g \in {MergeGraph(static, learned)}, all \in {BuildSlots(static, learned)},
       uncut \in {Resolved(static, learned)} :
        /\ WinnerIsTheAgents(g, all) /\ LearnedCompetes(all) /\ RebuildIsSame(uncut)
        /\ QIsOfItsField(g) /\ KindTellsEvidence(g) /\ LearnedSurvives(g, uncut)

\* The result can be drawn, counted, stored and brought forward.
GraphIsSound(g) == Drawable(g) /\ StatsAddUp(g) /\ UpgradeIsStable(g)
=============================================================================
