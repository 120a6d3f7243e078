----------------------------- MODULE RunResults -----------------------------
(***************************************************************************)
(* The figures of one run: what the backend counts of its requests, and    *)
(* what the run's page, its captured requests and its exports say of them. *)
(*                                                                         *)
(* The same requests are counted four times over: per endpoint when the    *)
(* run is stored (test-suites.service.ts), over the stored rows for the    *)
(* report (reports.service.ts), over the captured requests for the         *)
(* summary and its lists, and by the page for its cards and badges.        *)
(*                                                                         *)
(* The engine counts the answers it gets, a proxy captures what passes it, *)
(* and neither knows of the other: a request may be counted and not        *)
(* captured, or captured, perhaps under no endpoint, and not counted.  Of  *)
(* a run the engine's report is stored first, completing it, then what was *)
(* captured, if that can be had; of a replay it is the other way round.    *)
(*                                                                         *)
(* The state is the run and its requests; every figure is an operator.  A  *)
(* status code is its number and NoCode the null, or "none", of a request  *)
(* that got no answer.  The requests of a run fit one chunk of those they  *)
(* are stored in.  Sorting for display is left out.                        *)
(***************************************************************************)
EXTENDS Integers, FiniteSets, SequencesExt

CONSTANTS
    Endpoints,    \* the project's endpoints
    Requests,     \* what a run may send, with its answer
    PageSize,     \* PAGE_SIZE
    MaxRequests,  \* bound on the requests of a run
    MaxRuns,      \* bound on how often a suite is run
    Scopes,       \* the operations a run may be given
    MaxApart      \* bound on the requests of a run that only one of the two saw

NoCode == 0
Unmatched == "unmatched"   \* of no endpoint of the project

ASSUME RunResultsAssumption ==
    /\ Requests \subseteq [endpoint : Endpoints \cup {Unmatched}, code : {NoCode} \cup 100..599,
                           truncated : BOOLEAN, method : STRING]
    /\ PageSize \in 1..200 /\ Unmatched \notin Endpoints
    /\ Scopes \subseteq SUBSET (Endpoints \cup {Unmatched})

VARIABLES
    suite,     \* the suite's row
    sent,      \* what the run sent: the request, who saw it, whether its error was kept
    captured   \* the request logs stored of it, by seq

resultVars == <<suite, sent, captured>>

-----------------------------------------------------------------------------
(* Counting.                                                               *)

CountOf(logs, Test(_)) == Len(SelectSeq(logs, Test))

\* Status code -> how many, over the codes that occur.
Tally(logs) ==
    [c \in {logs[i].code : i \in DOMAIN logs} |-> CountOf(logs, LAMBDA l : l.code = c)]

Answered(logs) == SelectSeq(logs, LAMBDA l : l.code # NoCode)
OfEndpoint(logs, e) == SelectSeq(logs, LAMBDA l : l.endpoint = e)
EndpointsOf(logs) == {logs[i].endpoint : i \in DOMAIN logs}

At(f, x) == IF x \in DOMAIN f THEN f[x] ELSE 0
Total(f) == FoldFunction(+, 0, f)
Hundreds(code) == code \div 100
With(tally, digits) == {c \in DOMAIN tally : Hundreds(c) \in digits}
SumWith(tally, digits) == MapThenSumSet(LAMBDA c : tally[c], With(tally, digits))

-----------------------------------------------------------------------------
(* The captured requests.                                                  *)

StatusClass(code) ==
    CASE code \in 200..299 -> "2xx"
      [] code \in 300..399 -> "3xx"
      [] code \in 400..499 -> "4xx"
      [] code >= 500       -> "5xx"
      [] OTHER             -> "other"

EndpointSummary(own) ==
    LET ok == CountOf(own, LAMBDA l : StatusClass(l.code) = "2xx") IN
    [total   |-> Len(own), passed |-> ok, failed |-> Len(own) - ok,
     classes |-> [k \in {StatusClass(own[i].code) : i \in DOMAIN own} |->
                    CountOf(own, LAMBDA l : StatusClass(l.code) = k)],
     codes   |-> Tally(Answered(own))]

\* getRequestLogSummary, the unmatched requests as an endpoint of their own.
GetRequestLogSummary(logs) ==
    [e \in EndpointsOf(logs) |-> EndpointSummary(OfEndpoint(logs, e))]

AnyStatus == <<"all", 0>>
StatusFilters == {AnyStatus} \cup {<<"class", d>> : d \in 2..5}

\* Wrong: a class that reaches into the next.
StatusCodeFilter_Closed(filter, code) ==
    CASE filter[1] = "all"   -> TRUE
      [] filter[1] = "class" -> code \in (filter[2] * 100)..(filter[2] * 100 + 100)
      [] filter[1] = "code"  -> code = filter[2]

StatusCodeFilter(filter, code) ==
    CASE filter[1] = "all"   -> TRUE
      [] filter[1] = "class" -> code \in (filter[2] * 100)..(filter[2] * 100 + 99)
      [] filter[1] = "code"  -> code = filter[2]

\* What a list is asked for: the segment of the route, the filter, the page.
Asked(logs, segment, filter) ==
    LET hit(l) == segment \in {"all", l.endpoint} /\ StatusCodeFilter(filter, l.code)
        upTo[n \in 0..Len(logs)] ==
            IF n = 0 THEN <<>>
            ELSE IF hit(logs[n]) THEN Append(upTo[n - 1], logs[n]) ELSE upTo[n - 1]
    IN upTo[Len(logs)]

ListRequestLogs(logs, segment, filter, page) ==
    LET hits == Asked(logs, segment, filter) IN
    [items |-> SubSeq(hits, (page - 1) * PageSize + 1, Min({page * PageSize, Len(hits)})),
     total |-> Len(hits)]

Pages(total) == IF total = 0 THEN 1 ELSE (total + PageSize - 1) \div PageSize

-----------------------------------------------------------------------------
(* What is stored of a run.                                                *)

\* The most frequent key; of equals the lowest number, "none" after any.
DominantStatusCode(tally) ==
    LET sooner(a, b) == b = NoCode \/ (a # NoCode /\ a <= b) IN
    IF tally = <<>> THEN NoCode
    ELSE CHOOSE c \in DOMAIN tally : \A d \in DOMAIN tally :
            tally[c] > tally[d] \/ (tally[c] = tally[d] /\ sooner(c, d))

RequestsOf(sightings) == [i \in DOMAIN sightings |-> sightings[i].request]

\* The answers in the engine's report, and the requests in the proxy's log.
Counted == RequestsOf(SelectSeq(sent, LAMBDA s : s.by # "proxy" /\ s.request.code # NoCode))
Logged  == RequestsOf(SelectSeq(sent, LAMBDA s : s.by # "engine"))

\* server_errors.json has a request once, if it can be written as JSON.
KeptErrors(e) == CountOf(sent, LAMBDA s : s.kept /\ s.request.endpoint = e)

\* The engine's operations, from its own report.
BuildOperations ==
    {LET codes == Tally(OfEndpoint(Counted, e)) IN
     [endpoint |-> e, codes |-> codes, passed |-> With(codes, {2}) # {},
      serverErrors |-> KeptErrors(e)] : e \in EndpointsOf(Counted)}

SummarizeServerErrors(n) == IF n = 0 THEN "no success" ELSE "server errors"

\* A generated run's test cases: an operation of no endpoint has none.
GeneratedCases ==
    {[endpoint |-> op.endpoint, code |-> DominantStatusCode(op.codes), codes |-> op.codes,
      passed |-> op.passed, hasServerErrors |-> op.serverErrors > 0,
      note |-> IF op.passed THEN "none" ELSE SummarizeServerErrors(op.serverErrors)]
        : op \in {o \in BuildOperations : o.endpoint # Unmatched}}

\* A truncated request is not sent again.
Sent(logs) == SelectSeq(logs, LAMBDA l : ~l.truncated)

\* Wrong: without answers it passed.
ReplayPassed_Unanswered(dominant) == dominant < 500
ReplayPassed(dominant) == dominant # NoCode /\ dominant < 500

\* A replay's test cases, of what it sent to endpoints.
ReplayCases(logs) ==
    {LET codes == Tally(OfEndpoint(Sent(logs), e))
         passed == ReplayPassed(DominantStatusCode(codes)) IN
     [endpoint |-> e, code |-> DominantStatusCode(codes), codes |-> codes,
      passed |-> passed, hasServerErrors |-> FALSE,
      note |-> IF passed THEN "none" ELSE "returned a 5xx"]
        : e \in EndpointsOf(Sent(logs)) \ {Unmatched}}

Cases == IF suite.runType = "replay" THEN ReplayCases(Logged) ELSE GeneratedCases

\* The counters of the suite's row; a replay keeps its origin's number of
\* operations.
GeneratedTotals ==
    [endpoints |-> Cardinality(suite.tested),
     covered |-> Cardinality({op \in BuildOperations : op.passed}),
     requests |-> Len(Counted), passed |-> SumWith(Tally(Counted), {2})]

ReplayTotals(logs) ==
    [endpoints |-> Cardinality(suite.tested),
     covered |-> Cardinality(ReplayCases(logs)),
     requests |-> Len(Sent(logs)),
     passed |-> CountOf(Sent(logs), LAMBDA l : Hundreds(l.code) = 2)]

Totals == IF suite.runType = "replay" THEN ReplayTotals(Logged) ELSE GeneratedTotals

-----------------------------------------------------------------------------
(* The report and its exports.                                             *)

\* In hundredths of a percent.
Pct(part, whole) == IF whole = 0 THEN 0 ELSE (20000 * part + whole) \div (2 * whole)

GetReport(cases, totals) ==
    [coveragePct  |-> Pct(totals.covered, totals.endpoints),
     passRatePct  |-> Pct(totals.passed, totals.requests),
     totals       |-> totals,
     distribution |-> [c \in UNION {DOMAIN k.codes : k \in cases} |->
                          MapThenSumSet(LAMBDA k : At(k.codes, c), cases)],
     endpoints    |-> cases,
     failures     |-> {k \in cases : ~k.passed}]

\* A line for every endpoint.
ReportToCsv(report) ==
    {[endpoint |-> k.endpoint, passed |-> k.passed, codes |-> k.codes,
      serverErrors |-> k.hasServerErrors, note |-> k.note] : k \in report.endpoints}

\* The same, marked, and the failures again with their notes.
ReportToPdf(report) ==
    [figures |-> report.totals, distribution |-> report.distribution,
     marks |-> {<<k.endpoint, k.passed>> : k \in report.endpoints},
     failed |-> {<<k.endpoint, k.note>> : k \in report.failures}]

-----------------------------------------------------------------------------
(* The run's page.                                                         *)

ClassifyOutcomes(dist) ==
    [successful |-> SumWith(dist, {2}), clientErrors |-> SumWith(dist, {4}),
     serverErrors |-> SumWith(dist, {5}), other |-> SumWith(dist, {0, 1, 3})]

EndpointOutcome(k) ==
    CASE k.hasServerErrors \/ With(k.codes, {5}) # {} -> "server"
      [] ~k.hasServerErrors /\ With(k.codes, {5}) = {} /\ With(k.codes, {2}) # {} -> "successful"
      [] OTHER -> "client"

CodeOptions(report) == DOMAIN report.distribution

\* The rows of the table; code NoCode - 1 is "any code".
AnyCode == -1
VisibleEndpoints(report, needle, outcome, code) ==
    {k \in report.endpoints : /\ needle \in {"", k.endpoint}
                              /\ outcome \in {"all", EndpointOutcome(k)}
                              /\ code = AnyCode \/ At(k.codes, code) > 0}

\* What the filter bar says of itself.
FilterBar(report, needle, outcome, code) ==
    [codes |-> CodeOptions(report), total |-> Cardinality(report.endpoints),
     shown |-> Cardinality(VisibleEndpoints(report, needle, outcome, code)),
     active |-> needle # "" \/ outcome # "all" \/ code # AnyCode]

FaultyEndpoints(report) == {k \in report.endpoints : EndpointOutcome(k) = "server"}

\* The headline: how many faulty endpoints, how many 5xx.
Faults(report) ==
    IF FaultyEndpoints(report) = {} THEN [detected |-> FALSE, faulty |-> 0, errors |-> 0]
    ELSE [detected |-> TRUE, faulty |-> Cardinality(FaultyEndpoints(report)),
          errors |-> ClassifyOutcomes(report.distribution).serverErrors]

\* The row of cards.
StatCards(report) ==
    LET outcomes == ClassifyOutcomes(report.distribution) IN
    [coverage |-> report.coveragePct,
     endpoints |-> <<report.totals.covered, report.totals.endpoints>>,
     requests |-> report.totals.requests, successful |-> outcomes.successful,
     clientErrors |-> outcomes.clientErrors, serverErrors |-> outcomes.serverErrors,
     faulty |-> Cardinality(FaultyEndpoints(report))]

\* A row of the table, and where its link leads.
EndpointRow(k) ==
    [badge |-> EndpointOutcome(k), codes |-> k.codes, note |-> k.note, requests |-> k.endpoint]

\* The ring and the meter: a segment for every class that occurs.
ClassOf(code) == IF Hundreds(code) \in 2..5 THEN Hundreds(code) ELSE 0
StatusDonut(dist) ==
    [d \in {ClassOf(c) : c \in DOMAIN dist} |->
        MapThenSumSet(LAMBDA c : dist[c], {c \in DOMAIN dist : ClassOf(c) = d})]
StatusDistribution(dist) == [segments |-> StatusDonut(dist), codes |-> dist]

\* Created, started, ended: the tone of each step.
RunTimeline(row) ==
    [created |-> "done",
     started |-> CASE row.started -> "done"
                   [] ~row.started /\ row.status = "failed" -> "failed"
                   [] OTHER -> "pending",
     ended   |-> CASE row.status = "running" -> "active"
                   [] row.status = "failed" -> "failed"
                   [] row.status \notin {"running", "failed"} /\ row.ended -> "done"
                   [] OTHER -> "pending"]

\* The run and its replays, once there is one, the replays numbered.
RunHistory(entries, current) ==
    IF Len(entries) < 2 THEN <<>>
    ELSE [i \in DOMAIN entries |->
            [replay  |-> Cardinality({j \in 1..i : entries[j].runType = "replay"}),
             badge   |-> entries[i].runType, viewing |-> i = current,
             figures |-> IF entries[i].status = "completed"
                         THEN <<entries[i].totals.passed, entries[i].totals.requests>>
                         ELSE <<>>]]

\* What the page shows below the run's details.
PageBody(row) ==
    CASE row.status = "completed" -> GetReport(Cases, Totals)
      [] OTHER -> [totals |-> <<>>]

-----------------------------------------------------------------------------
NewRow(runType, tested) ==
    [runType |-> runType, started |-> runType = "replay", ended |-> FALSE, runs |-> 1,
     status |-> IF runType = "replay" THEN "running" ELSE "pending", tested |-> tested]

ResultsInit ==
    /\ \E t \in {"generated", "replay"}, o \in Scopes : suite = NewRow(t, o)
    /\ sent = <<>>
    /\ captured = <<>>

StartsRun ==
    /\ suite.runType = "generated" /\ suite.status # "running"
    /\ suite.status # "pending" => suite.runs < MaxRuns
    /\ suite' = [suite EXCEPT !.status = "running", !.started = TRUE, !.ended = FALSE,
                              !.runs = IF suite.status = "pending" THEN @ ELSE @ + 1]
    /\ sent' = <<>>
    /\ captured' = <<>>

\* What the engine and the proxy may see of a request.
Sightings ==
    {s \in [request : Requests, by : {"both", "engine", "proxy"}, kept : BOOLEAN] :
        /\ s.by # "proxy" => s.request.endpoint \in suite.tested
        /\ s.by = "proxy" => s.request.endpoint \in suite.tested \cup {Unmatched}
        /\ s.by = "engine" => s.request.code # NoCode /\ ~s.request.truncated
        /\ s.kept => s.by # "proxy" /\ Hundreds(s.request.code) = 5}

Apart(sightings) == CountOf(sightings, LAMBDA s : s.by # "both")

\* A replay takes down what it sends, without the engine, and sends none that
\* is truncated.
IsReplayed(s) == s.by = "proxy" /\ (s.request.truncated => s.request.code = NoCode)

SendsRequest ==
    /\ suite.status = "running" /\ captured = <<>> /\ Len(sent) < MaxRequests
    /\ \E s \in Sightings :
          /\ IF suite.runType = "replay" THEN IsReplayed(s) ELSE Apart(Append(sent, s)) <= MaxApart
          /\ sent' = Append(sent, s)
    /\ UNCHANGED <<suite, captured>>

\* Of a run that is complete, if the engine-service still has its requests; of
\* a replay before it is.
StoresRequests ==
    /\ suite.status = (IF suite.runType = "replay" THEN "running" ELSE "completed")
    /\ captured = <<>> /\ Logged # <<>>
    /\ captured' = Logged
    /\ UNCHANGED <<suite, sent>>

Completes ==
    /\ suite.status = "running"
    /\ suite.runType = "replay" => captured = Logged
    /\ suite' = [suite EXCEPT !.status = "completed", !.ended = TRUE]
    /\ UNCHANGED <<sent, captured>>

Fails ==
    /\ suite.status = "running"
    /\ suite' = [suite EXCEPT !.status = "failed", !.ended = TRUE]
    /\ UNCHANGED <<sent, captured>>

ResultsNext == StartsRun \/ SendsRequest \/ StoresRequests \/ Completes \/ Fails

-----------------------------------------------------------------------------
Report == GetReport(Cases, Totals)
Summary == GetRequestLogSummary(captured)
Segments == {"all", Unmatched} \cup Endpoints
CodesSeen == {captured[i].code : i \in DOMAIN captured} \ {NoCode}

\* The list page and the summary over it count the same requests: by endpoint,
\* by class and by code the summary's figure is the list's total, the classes
\* take the list apart, and turning the pages shows every request once, in
\* order.
ListsFollowSummary ==
    /\ \A e \in DOMAIN Summary :
          /\ ListRequestLogs(captured, e, AnyStatus, 1).total = Summary[e].total
          /\ \A d \in 2..5 : ListRequestLogs(captured, e, <<"class", d>>, 1).total =
                At(Summary[e].classes, CASE d = 2 -> "2xx" [] d = 3 -> "3xx"
                                         [] d = 4 -> "4xx" [] d = 5 -> "5xx")
          /\ \A c \in CodesSeen :
                ListRequestLogs(captured, e, <<"code", c>>, 1).total = At(Summary[e].codes, c)
    /\ \A s \in Segments, f \in StatusFilters :
          LET n == ListRequestLogs(captured, s, f, 1).total IN
          FoldLeft(LAMBDA acc, p : acc \o ListRequestLogs(captured, s, f, p).items, <<>>,
                   [p \in 1..Pages(n) |-> p]) = Asked(captured, s, f)

\* The page's counts of the report: the cards take the distribution apart, the
\* ring and the meter agree with them, the banner is there exactly when an
\* endpoint's row says so, each row is found under one outcome, and no code on
\* offer leads nowhere.
PageFollowsReport ==
    LET o == ClassifyOutcomes(Report.distribution)
        ring == StatusDonut(Report.distribution) IN
    /\ o.successful + o.clientErrors + o.serverErrors + o.other = Total(Report.distribution)
    /\ Total(ring) = Total(Report.distribution) /\ At(ring, 5) = o.serverErrors
    /\ Faults(Report).detected <=> o.serverErrors > 0
    /\ StatCards(Report).faulty = FilterBar(Report, "", "server", AnyCode).shown
    /\ \A k \in Report.endpoints :
          Cardinality({q \in {"successful", "client", "server"} :
                          k \in VisibleEndpoints(Report, "", q, AnyCode)}) = 1
    /\ \A c \in CodeOptions(Report) : VisibleEndpoints(Report, "", "all", c) # {}

\* The report's counts of the run.  Of a replay the requests sent and those
\* skipped are the captured ones, and what passed is what the summary says
\* passed.  Of a run the report has what the engine counted, whatever was
\* captured; where nothing was seen by only one of the two and the requests
\* were stored, each endpoint's codes are those of the summary over them.  Of
\* either no share is over the whole, and an endpoint that only ever answered
\* with a server error, or not at all, is a failure in the report and in its
\* exports.
ReportFollowsRequests ==
    LET lines == ReportToCsv(Report)
        counted == IF suite.runType = "replay" THEN Sent(captured) ELSE Counted IN
    /\ suite.runType = "replay" =>
          /\ Report.totals.requests + CountOf(captured, LAMBDA l : l.truncated) = Len(captured)
          /\ Report.totals.passed = MapThenSumSet(LAMBDA e : Summary[e].passed, DOMAIN Summary)
    /\ Total(Report.distribution) + Len(OfEndpoint(counted, Unmatched)) = Report.totals.requests
    /\ suite.runType = "generated" /\ Apart(sent) = 0 /\ captured # <<>> =>
          /\ {line.endpoint : line \in lines} =
                {e \in DOMAIN Summary \ {Unmatched} : Summary[e].codes # <<>>}
          /\ \A line \in lines : /\ line.codes = Summary[line.endpoint].codes
                                 /\ line.passed <=> Summary[line.endpoint].passed > 0
          /\ Report.totals.passed = MapThenSumSet(LAMBDA e : Summary[e].passed, DOMAIN Summary)
    /\ \A line \in lines : With(line.codes, {1, 2, 3, 4}) = {} =>
          ~line.passed /\ <<line.endpoint, line.note>> \in ReportToPdf(Report).failed
    /\ Report.passRatePct \in 0..10000 /\ Report.coveragePct \in 0..10000

\* A run's own timeline and its line in the history say how it stands.
HistoryFollowsRow ==
    LET origin == [runType |-> "generated", status |-> "completed",
                   totals |-> [passed |-> 0, requests |-> 0]]
        own == [runType |-> suite.runType, status |-> suite.status, totals |-> Totals]
        shown == RunHistory(<<origin, own>>, 2)
        steps == RunTimeline(suite) IN
    /\ shown[2].figures # <<>> <=> steps.ended = "done"
    /\ steps.ended = "done" =>
          /\ steps.started = "done"
          /\ shown[2].figures = <<PageBody(suite).totals.passed, PageBody(suite).totals.requests>>
    /\ suite.status = "failed" <=> steps.ended = "failed"

\* Whatever the run, the places that count it agree.
FiguresAgree ==
    /\ HistoryFollowsRow
    /\ suite.status = "completed" =>
          ListsFollowSummary /\ PageFollowsReport /\ ReportFollowsRequests
=============================================================================
