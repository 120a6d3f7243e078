------------------------------ MODULE FocusView ------------------------------
(***************************************************************************)
(* What the client draws of a merged graph: one operation in the middle,   *)
(* what it needs to its left, what it gives to its right, and the list of  *)
(* operations to choose from (components/graph).                           *)
(*                                                                         *)
(* Pure functions of the graph.  Lengths are the drawing's own, doubled so *)
(* that halves stay whole; colours, labels and the order of equals are     *)
(* left out.                                                               *)
(***************************************************************************)
EXTENDS GraphMerge

CONSTANT MaxSide   \* MAX_SIDE: cards drawn on one side before they are folded

NODE_H == 54
ROW_GAP == 18
PAD == 16

-----------------------------------------------------------------------------
\* Edges into an operation are what it needs, edges out of it what it gives.
Degrees(graph) ==
    [n \in graph.nodes |-> [needs |-> Cardinality({e \in graph.edges : e.to = n}),
                            gives |-> Cardinality({e \in graph.edges : e.from = n})]]

\* The list: what the search matches, the best connected first.
Listed(graph, search) ==
    LET d == Degrees(graph)
        busier(a, b) == LET ta == d[a].needs + d[a].gives
                            tb == d[b].needs + d[b].gives
                        IN IF ta # tb THEN ta > tb ELSE a < b
    IN SetToSortSeq({n \in graph.nodes : search \in {Null, n}}, busier)

\* A row of the list.
Row(graph, n, focus) ==
    LET d == Degrees(graph)[n] IN
    [active |-> n = focus,
     says |-> IF d.needs = 0 /\ d.gives = 0 THEN "no dependencies" ELSE <<d.needs, d.gives>>]

\* The operation in the middle: the one selected, or the first listed.
Focus(graph, selected, search) ==
    CASE selected # Null -> selected
      [] selected = Null /\ Listed(graph, search) # <<>> -> Head(Listed(graph, search))
      [] OTHER -> Null

\* Wrong: the weakest come first.
Heavier_Weakest(a, b) == Or0(a.weight) < Or0(b.weight)
Heavier(a, b) == Or0(a.weight) > Or0(b.weight)

\* One side: the heaviest edges, the rest folded until it is expanded.
Split(edges, expanded) ==
    LET sorted == SetToSortSeq(edges, Heavier)
        cut == IF expanded THEN Len(sorted) ELSE Min({MaxSide, Len(sorted)})
    IN [shown |-> SubSeq(sorted, 1, cut), rest |-> SubSeq(sorted, cut + 1, Len(sorted))]

Needs(graph, focus, expanded) ==
    Split({e \in graph.edges : e.to = focus /\ e.from \in graph.nodes}, expanded)
Provides(graph, focus, expanded) ==
    Split({e \in graph.edges : e.from = focus /\ e.to \in graph.nodes}, expanded)

\* "show n more".
Hidden(graph, focus, expanded) ==
    Len(Needs(graph, focus, expanded).rest) + Len(Provides(graph, focus, expanded).rest)

\* Rows of a side, the folded ones as one card more; and where a row is drawn.
RowsOfSide(side) == Len(side.shown) + (IF side.rest = <<>> THEN 0 ELSE 1)
Height(rows) == 2 * (PAD * 2 + rows * NODE_H + (rows - 1) * ROW_GAP)
RowY(i, count, height) ==
    height \div 2 - (count * NODE_H + (count - 1) * ROW_GAP) + 2 * i * (NODE_H + ROW_GAP)

\* The drawing: its height, and the places of the cards of each column.
Diagram(graph, focus, expanded) ==
    LET left == RowsOfSide(Needs(graph, focus, expanded))
        right == RowsOfSide(Provides(graph, focus, expanded))
        height == Height(Max({left, right, 1}))
    IN [height |-> height, alone |-> left = 0 /\ right = 0,
        columns |-> <<[i \in 1..left |-> RowY(i - 1, left, height)],
                      <<height \div 2 - NODE_H>>,
                      [i \in 1..right |-> RowY(i - 1, right, height)]>>]

\* The heading: pairs that depend on each other both ways, and the backend's
\* own figures; what was learned is said only where something confirmed or
\* penalised was proposed.
Cycles(graph) ==
    Cardinality({e \in graph.edges : e.from < e.to /\
                    \E d \in graph.edges : d.from = e.to /\ d.to = e.from})
HasLearned(graph) == graph.stats.kinds["confirmed"] + graph.stats.kinds["penalized"] > 0

\* The number on an edge and its title.
WeightLabel(edge) == edge.weight
EdgeTitle(edge) == [matches |-> edge.matches, kind |-> edge.weightKind,
                    figure |-> IF edge.weightKind = "confidence" THEN edge.maxQ
                               ELSE edge.maxSimilarity]

-----------------------------------------------------------------------------
\* The graph as it is sent, and as it would be with no ceiling on its edges.
Uncut(g, edges) == [g EXCEPT !.edges = edges, !.stats = BuildStats(Nodes, edges, Len(static))]

\* The client counts what the backend counted: operations the list calls
\* without dependencies, entry points, the most any operation gives.
CountsAsSent(g) ==
    LET d == Degrees(g) IN
    /\ Cardinality({n \in g.nodes : Row(g, n, Null).says = "no dependencies"}) = g.stats.isolated
    /\ {n \in g.nodes : d[n].needs = 0} = g.stats.entryPoints
    /\ Max({0} \cup {d[n].gives : n \in g.nodes}) = g.stats.mostDependedUpon
    /\ Cycles(g) * 2 <= g.stats.dependencies

\* Every dependency is found from both of its ends, nothing is lost by
\* folding, what is folded weighs no more than what is drawn, and the number on
\* an edge is the one its title explains.
NothingIsLost(g) ==
    \A n \in g.nodes, expanded \in BOOLEAN :
        LET needs == Needs(g, n, expanded)
            provides == Provides(g, n, expanded) IN
        /\ ToSet(needs.shown) \cup ToSet(needs.rest) = {e \in g.edges : e.to = n}
        /\ Len(needs.shown) + Len(needs.rest) = Degrees(g)[n].needs
        /\ Len(provides.shown) + Len(provides.rest) = Degrees(g)[n].gives
        /\ \A side \in {needs, provides} : \A e \in ToSet(side.shown), f \in ToSet(side.rest) :
              Or0(e.weight) >= Or0(f.weight)
        /\ expanded => Hidden(g, n, expanded) = 0
        /\ \A e \in ToSet(needs.shown) : EdgeTitle(e).figure = WeightLabel(e)

\* Whatever is in the middle, the cards of a column lie inside the drawing,
\* one below the other; and there is always one in the middle.
CardsFit(g) ==
    /\ \A n \in g.nodes, expanded \in BOOLEAN :
          LET d == Diagram(g, n, expanded) IN
          /\ \A c \in 1..3 : \A i \in DOMAIN d.columns[c] :
                LET y == d.columns[c][i] IN
                /\ y >= 2 * PAD /\ y + 2 * NODE_H + 2 * PAD <= d.height
                /\ i > 1 => y >= d.columns[c][i - 1] + 2 * (NODE_H + ROW_GAP)
          /\ d.alone <=> Row(g, n, n).says = "no dependencies"
    /\ \A s \in {Null} \cup g.nodes, t \in {Null} \cup g.nodes : Focus(g, s, t) \in g.nodes

\* What is drawn of the graph is the graph.
ViewIsSound(g) == CountsAsSent(g) /\ NothingIsLost(g) /\ CardsFit(g)

\* The result can be drawn, counted, stored and brought forward, and it is
\* drawn as it is.
GraphAndViewAreSound ==
    \A g \in {MergeGraph(static, learned)}, all \in {ToSet(Resolved(static, learned))} :
        GraphIsSound(g) /\ \A view \in {g, Uncut(g, all)} : ViewIsSound(view)
=============================================================================
