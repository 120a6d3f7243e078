----------------------------- MODULE RequestPage -----------------------------
(***************************************************************************)
(* The page of a run's captured requests: its list, filtered and paged,    *)
(* the row that is open, and the requests sent again from it               *)
(* (requests/[endpointId]/page.tsx, request-logs of the backend).          *)
(*                                                                         *)
(* Three kinds of answer come back in any order: the list's, the details   *)
(* of the rows that were opened, and those of the requests sent again;     *)
(* meanwhile the user goes on and the suite may be run again, which        *)
(* replaces every request.  An answer of the list that is no longer waited *)
(* for is dropped by the query library; the others are all taken in while  *)
(* their page stands.  Another endpoint is a new page: nothing calls the   *)
(* requests sent from the old one off, and their answers show nowhere.     *)
(***************************************************************************)
EXTENDS RunResults

CONSTANTS
    Browsed,     \* the runs the page is opened on, as sequences of requests
    Filters,     \* bound: the filters tried, of those on offer
    MaxChoices,  \* bound on the filters, pages and endpoints chosen
    None

ASSUME RequestPageAssumption == Browsed \in Seq(Seq(Requests))

VARIABLES
    page,    \* the page's own state, a null row being None
    list,    \* the list's query: its answers by key, and what it is doing
    detail,  \* details that came, and those on the way
    live,    \* row -> how sending it again stands
    sends    \* the requests being sent again: whether the user agreed, and whether
             \* the page that sent them still stands

pageVars == <<page, list, detail, live, sends>>
allPageVars == <<suite, sent, captured, page, list, detail, live, sends>>

-----------------------------------------------------------------------------
(* The backend's side. *)

\* A stored request has an id of its own, never used again.
WithIds == [i \in DOMAIN captured |-> [id |-> <<suite.runs, i>>, endpoint |-> captured[i].endpoint,
                                       code |-> captured[i].code]]
Stored(id) == id[1] = suite.runs /\ id[2] \in DOMAIN captured
Log(id) == captured[id[2]]

AnswerOf(key) ==
    LET got == ListRequestLogs(WithIds, key[1], key[2], key[3]) IN
    [ids |-> {got.items[i].id : i \in DOMAIN got.items}, total |-> got.total, run |-> suite.runs]

\* getRequestLog may find it or not; either way the connection may fail.
DetailAnswers(id) == {"error"} \cup (IF Stored(id) THEN {"found"} ELSE {})

\* runRequestLog: not what is gone or was truncated; a target that cannot be
\* reached is an answer as well.
RunAnswers(id) ==
    {"error"} \cup (IF Stored(id) THEN (IF Log(id).truncated THEN {} ELSE {"done"}) ELSE {})

-----------------------------------------------------------------------------
(* The list. *)

Key == <<page.segment, page.filter, page.number>>
Has(key) == key \in DOMAIN list.answers
Asking == list.phase = "asking"

\* The key of the rows on screen: while its own answer is on the way, the last
\* one's rows stay.
RowsKey ==
    CASE list.phase = "failed" -> None
      [] list.phase # "failed" /\ Has(Key) -> Key
      [] OTHER -> list.last

RowsShown == IF RowsKey = None THEN {} ELSE list.answers[RowsKey].ids
TotalShown == IF RowsKey = None THEN 0 ELSE list.answers[RowsKey].total

\* Filters offered: the classes, and every code of the run, whichever the endpoint.
FiltersOffered ==
    StatusFilters \cup {<<"code", c>> : c \in
        UNION {DOMAIN GetRequestLogSummary(captured)[e].codes : e \in EndpointsOf(captured)}}

\* Endpoints offered: those of the summary, with how many requests each has.
SegmentsOffered == {"all"} \cup DOMAIN GetRequestLogSummary(captured)

NewPage(segment, right) ==
    [open |-> TRUE, canRun |-> right, segment |-> segment, filter |-> AnyStatus, number |-> 1,
     expanded |-> None, error |-> FALSE, loading |-> FALSE, confirm |-> None, latest |-> None,
     choices |-> page.choices]

NoDetail == [came |-> {}, awaited |-> {}]

\* What the query does on a new key: a fresh answer is there, a stale one is
\* asked for again, a missing one is waited for.
Turns(key, last) ==
    \E fresh \in BOOLEAN :
        list' = [list EXCEPT !.last = last,
                             !.phase = IF fresh /\ Has(key) THEN "settled" ELSE "asking"]

\* Nothing covers the page.
Reachable == page.open /\ page.confirm = None

ListAnswered ==
    /\ page.open /\ Asking
    /\ list' = [list EXCEPT !.phase = "settled",
                            !.answers = [k \in DOMAIN @ \cup {Key} |->
                                            IF k = Key THEN AnswerOf(Key) ELSE @[k]]]
    /\ UNCHANGED <<resultVars, page, detail, live, sends>>

ListFails ==
    /\ page.open /\ Asking
    /\ list' = [list EXCEPT !.phase = "failed"]
    /\ UNCHANGED <<resultVars, page, detail, live, sends>>

\* The window gets the focus when the answer is stale.
ListAgain ==
    /\ page.open /\ ~Asking
    /\ list' = [list EXCEPT !.phase = "asking"]
    /\ UNCHANGED <<resultVars, page, detail, live, sends>>

\* Wrong: the page is kept.
ChooseStatus_KeepsPage(filter) ==
    /\ Reachable /\ page.choices < MaxChoices /\ filter # page.filter
    /\ page' = [page EXCEPT !.filter = filter, !.expanded = None, !.choices = @ + 1]
    /\ Turns(<<page.segment, filter, page.number>>, IF Has(Key) THEN Key ELSE list.last)
    /\ UNCHANGED <<resultVars, detail, live, sends>>

\* A class, or one of the run's codes.
ChooseStatus(filter) ==
    /\ Reachable /\ page.choices < MaxChoices /\ filter # page.filter
    /\ page' = [page EXCEPT !.filter = filter, !.number = 1, !.expanded = None, !.choices = @ + 1]
    /\ Turns(<<page.segment, filter, 1>>, IF Has(Key) THEN Key ELSE list.last)
    /\ UNCHANGED <<resultVars, detail, live, sends>>

\* Previous and next, beside the rows and not while asking.
TurnTo(number) ==
    /\ Reachable /\ page.choices < MaxChoices
    /\ RowsShown # {} /\ ~Asking
    /\ number \in {page.number - 1, page.number + 1} /\ number \in 1..Pages(TotalShown)
    /\ page' = [page EXCEPT !.number = number, !.expanded = None, !.choices = @ + 1]
    /\ Turns(<<page.segment, page.filter, number>>, IF Has(Key) THEN Key ELSE list.last)
    /\ UNCHANGED <<resultVars, detail, live, sends>>

\* Another endpoint is another page, begun anew; what is being sent goes on.
ChooseEndpoint(segment) ==
    /\ Reachable /\ page.choices < MaxChoices /\ segment # page.segment
    /\ page' = [NewPage(segment, page.canRun) EXCEPT !.choices = @ + 1]
    /\ Turns(<<segment, AnyStatus, 1>>, None)
    /\ detail' = NoDetail /\ live' = <<>>
    /\ sends' = [i \in DOMAIN sends |-> [sends[i] EXCEPT !.here = FALSE]]
    /\ UNCHANGED resultVars

-----------------------------------------------------------------------------
(* The open row. *)

Shut(id) ==
    /\ page.expanded = id
    /\ page' = [page EXCEPT !.expanded = None]
    /\ UNCHANGED detail

\* A row opened again while it is on the way waits for the same answer.
Open(id) ==
    /\ page.expanded # id
    /\ page' = [page EXCEPT !.expanded = id, !.error = FALSE,
                            !.loading = @ \/ id \notin detail.came]
    /\ detail' = [detail EXCEPT !.awaited = IF id \in detail.came THEN @ ELSE @ \cup {id}]

Toggle(id) ==
    /\ Reachable /\ id \in RowsShown
    /\ Shut(id) \/ Open(id)
    /\ UNCHANGED <<resultVars, list, live, sends>>

\* Wrong: only what is found ends the wait.
DetailArrives_Stuck(id) ==
    /\ page.open /\ id \in detail.awaited
    /\ \E answer \in DetailAnswers(id) :
          /\ detail' = [came |-> IF answer = "found" THEN detail.came \cup {id} ELSE detail.came,
                        awaited |-> detail.awaited \ {id}]
          /\ page' = [page EXCEPT !.loading = @ /\ answer # "found", !.error = @ \/ answer = "error"]
    /\ UNCHANGED <<resultVars, list, live, sends>>

\* The end of toggle: the wait is over, whoever waits.
DetailArrives(id) ==
    /\ page.open /\ id \in detail.awaited
    /\ \E answer \in DetailAnswers(id) :
          /\ detail' = [came |-> IF answer = "found" THEN detail.came \cup {id} ELSE detail.came,
                        awaited |-> detail.awaited \ {id}]
          /\ page' = [page EXCEPT !.loading = FALSE, !.error = @ \/ answer = "error"]
    /\ UNCHANGED <<resultVars, list, live, sends>>

\* What the open row shows below itself.
PanelShown ==
    CASE page.expanded \in detail.came -> "detail"
      [] page.expanded \notin detail.came /\ page.loading -> "spinner"
      [] page.expanded \notin detail.came /\ ~page.loading /\ page.error -> "error"
      [] OTHER -> "blank"

-----------------------------------------------------------------------------
(* Sending a request again. *)

PhaseOf(id) == IF id \in DOMAIN live THEN live[id] ELSE "idle"

Mutate(id, agreed) ==
    /\ live' = [i \in DOMAIN live \cup {id} |-> IF i = id THEN "loading" ELSE live[i]]
    /\ sends' = Append(sends, [id |-> id, agreed |-> agreed, here |-> TRUE])

\* The method of a row's request, from its detail.
SafeMethod(id) == Browsed[id[1]][id[2]].method \in {"GET", "HEAD"}

\* startRun: what could have side effects asks first.
StartRun(id) ==
    IF SafeMethod(id)
    THEN Mutate(id, FALSE) /\ page' = [page EXCEPT !.latest = id]
    ELSE page' = [page EXCEPT !.confirm = id] /\ UNCHANGED <<live, sends>>

\* Wrong: pressed once more while it is on the way.
PressRun_Again(id) ==
    /\ Reachable /\ page.canRun
    /\ id = page.expanded /\ id \in RowsShown /\ PanelShown = "detail"
    /\ Len(sends) < 2
    /\ StartRun(id)
    /\ UNCHANGED <<resultVars, list, detail>>

\* The button in the panel.
PressRun(id) ==
    /\ Reachable /\ page.canRun
    /\ id = page.expanded /\ id \in RowsShown /\ PanelShown = "detail"
    /\ PhaseOf(id) # "loading"
    /\ StartRun(id)
    /\ UNCHANGED <<resultVars, list, detail>>

\* "Run" in the dialog, unless the latest request is still on the way.
Confirm ==
    /\ page.open /\ page.confirm # None
    /\ PhaseOf(page.latest) # "loading"
    /\ Mutate(page.confirm, TRUE)
    /\ page' = [page EXCEPT !.confirm = None, !.latest = page.confirm]
    /\ UNCHANGED <<resultVars, list, detail>>

Cancel ==
    /\ page.open /\ page.confirm # None
    /\ page' = [page EXCEPT !.confirm = None]
    /\ UNCHANGED <<resultVars, list, detail, live, sends>>

\* One that was sent again is answered, with or without its page.
RunArrives(id) ==
    /\ page.open
    /\ \E i \in DOMAIN sends :
          /\ sends[i].id = id
          /\ sends' = RemoveAt(sends, i)
          /\ IF sends[i].here
             THEN \E answer \in RunAnswers(id) : live' = [live EXCEPT ![id] = answer]
             ELSE UNCHANGED live
    /\ UNCHANGED <<resultVars, page, list, detail>>

-----------------------------------------------------------------------------
SeenByBoth(requests) ==
    [i \in DOMAIN requests |-> [request |-> requests[i], by |-> "both", kept |-> FALSE]]

NoPage == [open |-> FALSE, choices |-> 0]

\* On a run that is complete, its requests stored or not.
OpenPage ==
    /\ ~page.open /\ suite.status = "completed"
    /\ suite.runs \in DOMAIN Browsed /\ sent = SeenByBoth(Browsed[suite.runs])
    /\ captured \in {<<>>, Browsed[suite.runs]}
    /\ \E right \in BOOLEAN : page' = NewPage("all", right)
    /\ list' = [list EXCEPT !.phase = "asking"]
    /\ UNCHANGED <<resultVars, detail, live, sends>>

\* The suite is run again, and the page stays; both see what the run sends.
RunsAgain ==
    /\ page.open /\ suite.runs < Len(Browsed) /\ StartsRun
    /\ UNCHANGED pageVars

RunEnds ==
    /\ page.open /\ suite.status = "running"
    /\ suite' = [suite EXCEPT !.status = "completed", !.ended = TRUE]
    /\ sent' = SeenByBoth(Browsed[suite.runs])
    /\ UNCHANGED captured
    /\ UNCHANGED pageVars

\* The requests of a run that ended are stored, after its end.
RunIsStored ==
    /\ page.open /\ suite.status = "completed" /\ captured = <<>>
    /\ captured' = Browsed[suite.runs]
    /\ UNCHANGED <<suite, sent>>
    /\ UNCHANGED pageVars

PageInit ==
    /\ ResultsInit
    /\ page = NoPage
    /\ list = [answers |-> <<>>, phase |-> "settled", last |-> None]
    /\ detail = NoDetail /\ live = <<>> /\ sends = <<>>

PageNext ==
    \/ ~page.open /\ ResultsNext /\ UNCHANGED pageVars
    \/ OpenPage \/ RunsAgain \/ RunEnds \/ RunIsStored
    \/ ListAnswered \/ ListFails \/ ListAgain
    \/ \E f \in Filters \cap FiltersOffered : ChooseStatus(f)
    \/ \E n \in 1..(MaxRequests + 1) : TurnTo(n)
    \/ \E s \in SegmentsOffered : page.open /\ ChooseEndpoint(s)
    \/ \E id \in (1..Len(Browsed)) \X (1..MaxRequests) :
          page.open /\ (Toggle(id) \/ DetailArrives(id) \/ PressRun(id) \/ RunArrives(id))
    \/ Confirm \/ Cancel

PageSpec == PageInit /\ [][PageNext]_allPageVars

-----------------------------------------------------------------------------
\* "Keeps the current rows on screen while the next page loads": rows of
\* another filter or page are shown only while the right ones are asked for;
\* and so long as the suite is not run again, no choice leads to an empty page
\* of a list that has rows.
RowsAreChosen ==
    page.open =>
        /\ RowsKey \notin {None, Key} => Asking
        /\ Has(Key) /\ (\A k \in DOMAIN list.answers : list.answers[k].run = list.answers[Key].run)
              => (list.answers[Key].ids = {} <=> list.answers[Key].total = 0)

\* However rows are opened and shut while details are on their way: the open
\* row's is on its way, or the row shows it, or an error; a spinner turns only
\* while something is awaited.
DetailSettles ==
    page.open =>
        /\ page.expanded # None =>
              page.expanded \in detail.awaited \/ PanelShown \in {"detail", "error"}
        /\ page.loading => detail.awaited # {}

\* "anything that could have real side effects on the target API is gated
\* behind an extra confirmation click": every such request being sent had one
\* of its own, whatever was opened, asked or left meanwhile, and none is sent
\* without the right to.  The page as it stands sends none twice over, and a row
\* says it is being sent until its answer is there.  (A request sent from a page
\* that was left is unknown to the next one, which can send it again.)
SendsAreMeant ==
    /\ \A i \in DOMAIN sends : page.canRun /\ (SafeMethod(sends[i].id) \/ sends[i].agreed)
    /\ \A i, j \in DOMAIN sends :
          sends[i].here /\ sends[j].here /\ sends[i].id = sends[j].id => i = j
    /\ \A id \in DOMAIN live :
          live[id] = "loading" <=> \E i \in DOMAIN sends : sends[i].here /\ sends[i].id = id

RequestsPageIsSound == RowsAreChosen /\ DetailSettles /\ SendsAreMeant

\* The figures of a run are the same whatever is looked at beside them.
RunFiguresAgree == ~page.open => FiguresAgree
=============================================================================
