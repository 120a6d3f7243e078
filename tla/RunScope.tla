------------------------------ MODULE RunScope ------------------------------
(***************************************************************************)
(* From the form of a new run to what the engine is given to test:         *)
(* CreateRunModal.tsx, TestSuitesService.create and run, over endpoints    *)
(* that are extracted from the specification, added by hand and removed    *)
(* while the form is open or the run waits to be started.                  *)
(*                                                                         *)
(* An operation is [method, path, inline], inline unless its path item is  *)
(* a $ref.  An endpoint row names an operation; its id is a number never   *)
(* given out again.  A blank name, URL or number is Blank.  Labels, hints  *)
(* and what is folded away are left out.                                   *)
(***************************************************************************)
EXTENDS Integers, FiniteSets, SequencesExt

CONSTANTS
    Operations,   \* what a specification may describe
    Documents,    \* the specifications uploaded: sets of operations
    Presets,      \* the header rows offered, [key, value]
    Tokens,       \* header names within HEADER_NAME_PATTERN
    Typed, Values, \* what is typed as a header's name and value
    MAX_HEADERS,
    MAX_EXCLUDED,   \* the ids a request may name: 500
    Urls, Budgets,  \* URLs are those both the browser and IsUrl take
    Blank, Nothing,
    MaxIds, MaxEdits  \* bounds on the endpoint rows made and on the edits of a form

\* METHOD_MAP
Extractable == {"GET", "POST", "PUT", "PATCH", "DELETE"}

ASSUME RunScopeAssumption ==
    /\ \A o \in Operations : DOMAIN o = {"method", "path", "inline"}
    /\ \A doc \in Documents : doc \subseteq Operations /\ IsFiniteSet(doc)
    /\ Presets \subseteq [key : Tokens, value : Values]
    /\ Budgets \subseteq Nat \cup {Blank} /\ MAX_HEADERS \in Nat \ {0}
    /\ MAX_EXCLUDED \in Nat
    /\ MaxIds \in Nat /\ MaxEdits \in Nat

VARIABLES
    spec,     \* the project's specification
    rows,     \* the endpoints: id -> [op, addedManually]
    lastId,
    listed,   \* the endpoints as the form last read them
    lastUrl,  \* targetUrl of the newest run the form knows
    form,     \* what is entered, Nothing while it is closed
    asked,    \* the creation under way, as the form stood
    made,     \* the run created, with what was asked
    job       \* what the engine was last given, with the rows there were

scopeVars == <<spec, rows, lastId, listed, lastUrl, form, asked, made, job>>

-----------------------------------------------------------------------------
(* The endpoints.                                                          *)

\* extractEndpoints does not follow the $ref of a path item.
ExtractEndpoints(doc) == {o \in doc : o.inline /\ o.method \in Extractable}

NewEndpoint(o, byHand) == [op |-> o, addedManually |-> byHand]

\* Replaces all the rows, those added by hand too.
PersistSpec(doc) ==
    LET found == SetToSeq(ExtractEndpoints(doc)) IN
    /\ lastId + Len(found) <= MaxIds
    /\ spec' = doc /\ lastId' = lastId + Len(found)
    /\ rows' = [i \in lastId + 1 .. lastId' |-> NewEndpoint(found[i - lastId], FALSE)]
    /\ UNCHANGED <<listed, lastUrl, form, asked, made, job>>

CreateManual(o) ==
    /\ lastId < MaxIds /\ o.method \in Extractable
    /\ \A i \in DOMAIN rows : rows[i].op # o
    /\ lastId' = lastId + 1
    /\ rows' = [i \in DOMAIN rows \cup {lastId'} |->
                   IF i = lastId' THEN NewEndpoint(o, TRUE) ELSE rows[i]]
    /\ UNCHANGED <<spec, listed, lastUrl, form, asked, made, job>>

\* The specification keeps the operation.
RemoveEndpoint(i) ==
    /\ rows' = [j \in DOMAIN rows \ {i} |-> rows[j]]
    /\ UNCHANGED <<spec, lastId, listed, lastUrl, form, asked, made, job>>

-----------------------------------------------------------------------------
(* The form.                                                               *)

BlankRow == [key |-> Blank, value |-> Blank]
TimeBudgets == 1..3600   \* in seconds

NewForm == [enteredTargetUrl |-> Nothing, timeBudget |-> 300, headers |-> <<>>,
            excluded |-> {}, edits |-> 0]

TargetUrl(f) == IF f.enteredTargetUrl # Nothing THEN f.enteredTargetUrl ELSE lastUrl

OpenForm ==
    /\ form = Nothing /\ form' = NewForm
    /\ UNCHANGED <<spec, rows, lastId, listed, lastUrl, asked, made, job>>

\* Also while a creation is under way.
CloseForm ==
    /\ form # Nothing /\ form' = Nothing
    /\ UNCHANGED <<spec, rows, lastId, listed, lastUrl, asked, made, job>>

ListArrives ==
    /\ form # Nothing /\ listed' = rows
    /\ UNCHANGED <<spec, rows, lastId, lastUrl, form, asked, made, job>>

\* A newer run of someone else is listed.
SuitesArrive ==
    /\ form # Nothing /\ lastUrl' \in Urls
    /\ UNCHANGED <<spec, rows, lastId, listed, form, asked, made, job>>

ToggleEndpoint(f, i) == [f EXCEPT !.excluded = IF i \in @ THEN @ \ {i} ELSE @ \cup {i}]
IncludeAllEndpoints(f) == [f EXCEPT !.excluded = {}]
ExcludeAllEndpoints(f) == [f EXCEPT !.excluded = DOMAIN listed]

UpdateHeader(f, n, field, v) == [f EXCEPT !.headers[n][field] = v]
RemoveHeader(f, n) == [f EXCEPT !.headers = RemoveAt(@, n)]

\* Wrong: a blank last row is filled, any other row added, however many there are.
AddPresetHeader_Unbounded(f, h) ==
    LET kept == IF f.headers # <<>> /\ Last(f.headers) = BlankRow
                THEN Front(f.headers) ELSE f.headers IN
    [f EXCEPT !.headers = Append(kept, h)]

\* A blank last row is filled, and at the limit nothing is.
AddPresetHeader(f, h) ==
    IF Len(f.headers) >= MAX_HEADERS THEN f
    ELSE LET kept == IF f.headers # <<>> /\ Last(f.headers) = BlankRow
                     THEN Front(f.headers) ELSE f.headers IN
         [f EXCEPT !.headers = Append(kept, h)]

\* Its button is below the rows, so there is one already.
AddAnotherHeader(f) ==
    IF f.headers = <<>> \/ Len(f.headers) >= MAX_HEADERS THEN f
    ELSE [f EXCEPT !.headers = Append(@, BlankRow)]

Edited(f) ==
    {ToggleEndpoint(f, i) : i \in DOMAIN listed}
    \cup {IncludeAllEndpoints(f), ExcludeAllEndpoints(f), AddAnotherHeader(f)}
    \cup {AddPresetHeader(f, h) : h \in Presets}
    \cup {RemoveHeader(f, n) : n \in DOMAIN f.headers}
    \cup {UpdateHeader(f, n, "key", k) : n \in DOMAIN f.headers, k \in Typed \cup {Blank}}
    \cup {UpdateHeader(f, n, "value", v) : n \in DOMAIN f.headers, v \in Values}
    \cup {[f EXCEPT !.timeBudget = b] : b \in Budgets}
    \cup {[f EXCEPT !.enteredTargetUrl = u] : u \in Urls \cup {Blank}}

Edit ==
    /\ form # Nothing /\ form.edits < MaxEdits
    /\ \E f \in Edited(form) : form' = [f EXCEPT !.edits = @ + 1]
    /\ UNCHANGED <<spec, rows, lastId, listed, lastUrl, asked, made, job>>

\* What the badges say.
TotalEndpoints(list) == Cardinality(DOMAIN list)
ActiveEndpointCount(f, list) == TotalEndpoints(list) - Cardinality(f.excluded)
ValidHeaders(f) == {n \in DOMAIN f.headers : f.headers[n].key # Blank}   \* the rows with a name

\* The fields' own limits; the button waits for an answer under way.
PressCreate ==
    /\ form # Nothing /\ asked = Nothing
    /\ TargetUrl(form) # Blank /\ form.timeBudget \in TimeBudgets
    /\ asked' = [form |-> [form EXCEPT !.enteredTargetUrl = TargetUrl(form), !.edits = 0],
                 listed |-> listed]
    /\ UNCHANGED <<spec, rows, lastId, listed, lastUrl, form, made, job>>

\* Wrong: the first of two rows with one name is the one sent.
CustomHeaders_FirstWins(f) ==
    [k \in {f.headers[n].key : n \in ValidHeaders(f)} |->
        f.headers[CHOOSE n \in ValidHeaders(f) :
            /\ f.headers[n].key = k
            /\ \A o \in ValidHeaders(f) : f.headers[o].key = k => n <= o].value]

\* Of two rows with one name the last is sent.
CustomHeaders(f) ==
    [k \in {f.headers[n].key : n \in ValidHeaders(f)} |->
        f.headers[CHOOSE n \in ValidHeaders(f) :
            /\ f.headers[n].key = k
            /\ \A o \in ValidHeaders(f) : f.headers[o].key = k => o <= n].value]

\* IsHeaderMap
HeaderMapAdmits(map) == Cardinality(DOMAIN map) <= MAX_HEADERS /\ DOMAIN map \subseteq Tokens

\* CreateTestSuiteDto
DtoAdmits(f) ==
    /\ f.timeBudget \in TimeBudgets /\ f.enteredTargetUrl # Blank
    /\ Cardinality(f.excluded) <= MAX_EXCLUDED
    /\ HeaderMapAdmits(CustomHeaders(f))

-----------------------------------------------------------------------------
(* The run.                                                                *)

\* Ids of no endpoint of the project are dropped; without any endpoint the
\* answer is 400 and the form stays.
CreateSuite ==
    /\ asked # Nothing /\ asked' = Nothing
    /\ IF rows = <<>> \/ ~DtoAdmits(asked.form) THEN UNCHANGED <<made, form, lastUrl>>
       ELSE /\ made' = [targetUrl |-> asked.form.enteredTargetUrl,
                        timeBudget |-> asked.form.timeBudget,
                        customHeaders |-> CustomHeaders(asked.form),
                        excludedEndpointIds |-> asked.form.excluded \cap DOMAIN rows,
                        asked |-> asked]
            /\ form' = Nothing /\ lastUrl' = asked.form.enteredTargetUrl
    /\ UNCHANGED <<spec, rows, lastId, listed, job>>

\* Wrong: the whole path item goes.
ExcludeOperationsFromSpec_Paths(doc, excluded) ==
    {o \in doc : \A x \in excluded : x.path # o.path}

\* What is behind a $ref is not found under its path.
ExcludeOperationsFromSpec(doc, excluded) == {o \in doc : ~(o.inline /\ o \in excluded)}

\* By the rows as they are now.  Whether a run is under way is left out.
Run ==
    /\ made # Nothing /\ spec # Nothing
    /\ LET excluded == {rows[i].op : i \in made.excludedEndpointIds \cap DOMAIN rows} IN
       job' = [tested |-> ExcludeOperationsFromSpec(spec, excluded), spec |-> spec, rows |-> rows,
               made |-> made]
    /\ UNCHANGED <<spec, rows, lastId, listed, lastUrl, form, asked, made>>

ScopeInit ==
    /\ spec = Nothing /\ rows = <<>> /\ lastId = 0 /\ listed = <<>> /\ lastUrl = Blank
    /\ form = Nothing /\ asked = Nothing /\ made = Nothing /\ job = Nothing

ScopeNext ==
    \/ \E d \in Documents : PersistSpec(d)
    \/ \E o \in Operations : CreateManual(o)
    \/ \E i \in DOMAIN rows : RemoveEndpoint(i)
    \/ OpenForm \/ CloseForm \/ ListArrives \/ SuitesArrive
    \/ Edit \/ PressCreate \/ CreateSuite \/ Run

ScopeSpec == ScopeInit /\ [][ScopeNext]_scopeVars

-----------------------------------------------------------------------------
OpsOf(list, ids) == {list[i].op : i \in ids \cap DOMAIN list}
Ticked(q) == OpsOf(q.listed, DOMAIN q.listed \ q.form.excluded)
Unticked(q) == OpsOf(q.listed, q.form.excluded)

\* Of the limits, which the two programs keep apart, the form lets one exceed
\* none but that of the endpoints unticked, which it does not have: what it asks
\* for is refused for their number, or for the spelling of a header, only.
FormKeepsLimits ==
    asked # Nothing =>
        \/ DtoAdmits(asked.form)
        \/ ~(DOMAIN CustomHeaders(asked.form) \subseteq Tokens)
        \/ Cardinality(asked.form.excluded) > MAX_EXCLUDED

\* A run carries the names entered and no others, for each the value of the row
\* entered last, and no more of them than the badge announced.
HeadersAreAsEntered ==
    made # Nothing =>
        LET row == made.asked.form.headers
            entered == ValidHeaders(made.asked.form) IN
        /\ DOMAIN made.customHeaders = {row[n].key : n \in entered}
        /\ Cardinality(DOMAIN made.customHeaders) <= Cardinality(entered)
        /\ \A n \in entered :
              (\A o \in entered : o > n => row[o].key # row[n].key)
                  => made.customHeaders[row[n].key] = row[n].value

\* However the endpoints change in between: an operation shown ticked is
\* tested if the specification has it, one shown unticked is not so long as its
\* row stands, and nothing is left out that was not shown unticked.
ScopeIsAsTicked ==
    job # Nothing =>
        LET q == job.made.asked
            shown == q.form.excluded \cap DOMAIN q.listed IN
        /\ Ticked(q) \cap job.spec \subseteq job.tested
        /\ \A i \in shown \cap DOMAIN job.rows :
              q.listed[i].op.inline => q.listed[i].op \notin job.tested
        /\ job.spec \ job.tested \subseteq Unticked(q)

\* The badge never promises more operations than are ticked, and is right
\* where all the ids unticked are still listed.
BadgeIsRight ==
    \A q \in {asked} \cup (IF made = Nothing THEN {} ELSE {made.asked}) :
        q # Nothing =>
            LET shown == ActiveEndpointCount(q.form, q.listed) IN
            /\ shown <= Cardinality(Ticked(q))
            /\ q.form.excluded \subseteq DOMAIN q.listed => shown = Cardinality(Ticked(q))

\* A run is the one the form showed.
RunsAreAsAsked ==
    FormKeepsLimits /\ HeadersAreAsEntered /\ ScopeIsAsTicked /\ BadgeIsRight
=============================================================================
