---------------------------- MODULE MCRunPages ----------------------------
(* The pages around one run: the operations it may test, the form it is     *)
(* asked for with, its dependency graph, its figures and captured requests. *)
(* A behaviour is of one of them, the others standing still.                *)
(*                                                                          *)
(* Operation 4 is known to the Q-table only, one pair is of an operation    *)
(* with itself, and one turns another round.  The second parameter and the  *)
(* side pairs have fewer variants than the first.                           *)
EXTENDS FocusView, RequestPage, RunScope, SpecDetails

VARIABLE part   \* which of them moves

MCNodes        == {1, 2, 3}
MCStaticPairs  == {<<1, 2>>, <<1, 3>>}
MCLearnedPairs == {<<1, 2>>, <<2, 1>>, <<1, 4>>, <<2, 2>>}
MCBuckets      == {"response", "params"}
MCMatches ==
    {m \in [param : {1, 2}, producedBy : {1, 2}, producedIn : MCBuckets, similarity : {1, 2}] :
        m.param = 2 => m.producedIn = "response" /\ m.similarity = 1}
MCEntries ==
    {e \in [pair : MCLearnedPairs, param : {1, 2}, producedBy : {1, 2},
            producedIn : MCBuckets, q : {-2, 1, 2}] :
        /\ e.pair # <<1, 2>> => e.param = 1 /\ e.producedIn = "response" /\ e.producedBy = 1
        /\ e.pair \in {<<2, 1>>, <<2, 2>>} => e.q = 2
        /\ e.producedIn = "params" => e.producedBy = 1
        /\ e.producedIn = "params" \/ e.producedBy # 1 \/ e.pair # <<1, 2>> => e.q # 1}

MCMethod(e) == IF e = "a" THEN "GET" ELSE "POST"
MCRequests ==
    {r \in [endpoint : {"a", "b", Unmatched}, code : {NoCode, 200, 302, 404, 500},
            truncated : BOOLEAN, method : {"GET", "POST"}] :
        /\ r.method = MCMethod(r.endpoint)
        /\ r.truncated => r.endpoint = "a" /\ r.code \in {NoCode, 200}
        /\ r.endpoint = "a" => r.code # 500
        /\ r.endpoint = "b" => r.code \in {NoCode, 200, 500}
        /\ r.endpoint = Unmatched => r.code = 500}

MCScopes == {{"a"}, {"a", "b", Unmatched}}

MCRequest(e, c, cut) ==
    [endpoint |-> e, code |-> c, truncated |-> cut, method |-> MCMethod(e)]
MCBrowsed ==
    << <<MCRequest("b", 200, FALSE), MCRequest("a", 200, TRUE), MCRequest("b", 500, FALSE)>>,
       <<MCRequest("b", 200, FALSE)>> >>
MCUnbrowsed == <<>>
MCFilters == {AnyStatus, <<"class", 5>>}

MCOperation(m, p, inline) == [method |-> m, path |-> p, inline |-> inline]
MCOperations ==
    {MCOperation("GET", "/p", TRUE), MCOperation("POST", "/p", TRUE),
     MCOperation("HEAD", "/p", TRUE), MCOperation("GET", "/q", FALSE)}
MCDocuments == {MCOperations, {MCOperation("GET", "/p", TRUE)}}

MCPresets == {[key |-> "k1", value |-> "v1"], [key |-> "k2", value |-> Blank],
              [key |-> "k3", value |-> "v1"]}

MCPlain  == [kind |-> "plain"]
MCRef(n) == [kind |-> "ref", to |-> n]
MCLeaves == {MCPlain, MCRef("A"), MCRef("B")}
MCObjects ==
    {[kind |-> "object", props |-> f, required |-> {"x"} \cap DOMAIN f]
        : f \in UNION {[d -> MCLeaves] : d \in {{}, {"x"}, {"x", "y"}}}}
MCArrays == {[kind |-> "array", items |-> n] : n \in MCLeaves}
MCSchemas == [{"A", "B"} -> MCLeaves \cup MCObjects \cup MCArrays]
MCBodies ==
    {MCRef("A"), [kind |-> "array", items |-> MCRef("B")],
     [kind |-> "object", props |-> [x |-> MCRef("A"), y |-> MCRef("B")], required |-> {}]}
MCParams ==
    {[name |-> "id", in |-> "path", required |-> FALSE], [name |-> "id", in |-> "query", required |-> FALSE],
     [name |-> "id", in |-> "query", required |-> TRUE]}
MCParamLists == BoundedSeq(MCParams, 2)
MCSecurities == {Absent, <<>>, <<{}>>, <<{"key"}>>}

graphVars   == <<static, learned>>
requestVars == <<suite, sent, captured, page, list, detail, live, sends>>
MCVars == <<graphVars, requestVars, scopeVars, doc, part>>

MCInit ==
    /\ MergeInit /\ PageInit /\ ScopeInit /\ DetailInit
    /\ part \in {"graph", "requests", "headers", "scope", "operation"}
    /\ part # "requests" => suite = NewRow("generated", {"a"})

\* One run is asked for, its headers entered while the endpoints stand still,
\* or its scope chosen while they change.
HeadersMove ==
    /\ made = Nothing /\ ScopeNext
    /\ rows # <<>> => rows' = rows
    /\ listed' = listed
    /\ asked # Nothing => form' \in {form, Nothing}
    /\ form' # Nothing => form'.excluded = {}

ScopeMoves ==
    /\ ScopeNext
    /\ form' # Nothing => form' = [NewForm EXCEPT !.excluded = form'.excluded, !.edits = form'.edits]
    /\ form' # Nothing => form'.edits < MaxEdits
    /\ made # Nothing => asked' = asked /\ form' = form

\* A run has two requests at most where the engine and the proxy saw not the
\* same; and where it is run again under its page, there is a choice to come.
RequestsMove ==
    /\ PageNext
    /\ Apart(sent') > 0 => Len(sent') <= 2
    /\ page.open /\ suite'.runs # suite.runs => page.choices < MaxChoices

MCNext ==
    \/ part = "graph" /\ MergeNext /\ UNCHANGED <<requestVars, scopeVars, doc, part>>
    \/ part = "requests" /\ RequestsMove /\ UNCHANGED <<graphVars, scopeVars, doc, part>>
    \/ part = "headers" /\ HeadersMove /\ UNCHANGED <<graphVars, requestVars, doc, part>>
    \/ part = "scope" /\ ScopeMoves /\ UNCHANGED <<graphVars, requestVars, doc, part>>
    \/ part = "operation" /\ DetailNext /\ UNCHANGED <<graphVars, requestVars, scopeVars, part>>

MCSpec == MCInit /\ [][MCNext]_MCVars

\* The graph is looked at where it is what moves.
GraphAndViewAreSoundHere == part = "graph" => GraphAndViewAreSound
=============================================================================
