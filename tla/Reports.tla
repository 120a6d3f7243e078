------------------------------ MODULE Reports ------------------------------
(***************************************************************************)
(* Reports, failure explanations and request descriptions                  *)
(* (backend/src/reports, RequestDescriptionsService, LlmSettingsService).  *)
(*                                                                         *)
(* Two features send chat requests with one key: "Explain failures" walks  *)
(* the failed cases of a completed suite, "Explain requests" its captured  *)
(* requests in batches.  LlmService spaces the starts of their requests.   *)
(* Meanwhile the suite may be run again, which deletes the rows in hand,   *)
(* an administrator may change the settings, and the backend may restart.  *)
(*                                                                         *)
(* Rows get new ids in every run: a row is known by its run and what it    *)
(* describes.  Times are counted from now, in ticks, so no clock runs on.  *)
(* LLM_MODE=mock, which sends nothing, is left out, and so is the access   *)
(* check that comes first.                                                 *)
(***************************************************************************)
EXTENDS Integers, FiniteSets, SequencesExt

CONSTANTS
    Failed,        \* the endpoints whose cases fail, in every run
    ServerErrors,  \* those of them whose case records server errors
    Captured,      \* how many requests a run captures
    BatchSize,     \* LLM_DESCRIBE_BATCH_SIZE
    MaxPerCall,    \* LLM_DESCRIBE_MAX_PER_CALL
    Budget,        \* LLM_DESCRIBE_MAX_SECONDS, in ticks
    IntervalOf,    \* settings' rpmLimit -> ticks between two starts, 0 if unlimited
    EnvKey,        \* TRUE: LLM_API_KEY is set
    Callers,       \* requests in progress at one time
    MaxRuns,       \* bound: runs of the suite
    MaxPresses,    \* bound: requests made
    MaxRestarts    \* bound: restarts of the backend

Limits == DOMAIN IntervalOf
Unset == "unset"    \* no override: the environment's default applies

ASSUME ReportsAssumption ==
    /\ IsFiniteSet(Failed) /\ ServerErrors \subseteq Failed
    /\ Captured \in Nat /\ MaxPerCall \in Nat /\ Budget \in Nat
    /\ BatchSize \in Nat \ {0}
    /\ Unset \in Limits /\ IntervalOf \in [Limits -> Nat]
    /\ EnvKey \in BOOLEAN
    /\ MaxRuns \in Nat /\ MaxPresses \in Nat /\ MaxRestarts \in Nat

CaseIds == (1..MaxRuns) \X Failed
LogIds  == (1..MaxRuns) \X (1..Captured)

VARIABLES
    run, status, stored,  \* the suite: its run, its status, are its logs in
    cases,      \* test_cases: failureExplanation of the failed ones
    logs,       \* request_logs: description of each
    settings,   \* the LLM settings row of the report scope
    nextSlot,   \* LlmService.nextSlotAt, in ticks from now
    call,       \* what each caller's request is doing
    pressed,    \* how many requests were made
    restarts,
    claimed,    \* history: the slots claimed, in ticks from now
    paid,       \* history: chat requests sent about each case, 2 for more
    excused,    \* history: cases two presses had in hand at once, or whose
                \* answer a restart or a failing write lost
    given,      \* history: the settings as last given, field by field
    clash       \* history: two PATCHes overlapped

suiteRow == <<run, status, stored>>
rows     == <<cases, logs>>
pacing   == <<nextSlot, claimed>>
payment  == <<paid, excused>>
admin    == <<settings, given, clash>>
made     == <<pressed, restarts>>
vars     == <<run, status, stored, cases, logs, settings, nextSlot, call, pressed,
              restarts, claimed, paid, excused, given, clash>>

Explanation == [about : CaseIds, by : {"engine", "llm", "fallback"}]
Description == [about : LogIds]
Absent == [row |-> "absent"]   \* no such row
Blank  == [row |-> "blank"]    \* a row whose text is null
Settings == [rpm : Limits, key : BOOLEAN]

Idle == [at |-> "idle"]
Work(kind, todo, budget) ==
    [at |-> "next", kind |-> kind, todo |-> todo, left |-> budget,
     with |-> settings, due |-> 0, answer |-> {}]

Init ==
    /\ run = 1 /\ status = "running" /\ stored = FALSE
    /\ cases = [id \in CaseIds |-> Absent]
    /\ logs = [id \in LogIds |-> Absent]
    /\ settings \in [rpm : {Unset}, key : BOOLEAN] /\ given = settings /\ clash = FALSE
    /\ nextSlot = 0 /\ claimed = {}
    /\ call = [c \in Callers |-> Idle]
    /\ pressed = 0 /\ restarts = 0
    /\ paid = [id \in CaseIds |-> 0] /\ excused = {}

-----------------------------------------------------------------------------
(* The suite, as the run poller drives it (see TestSuiteRuns).             *)

\* run(): the counters, the cases and the captured requests go in one update.
RunAgain ==
    /\ status = "completed" /\ run < MaxRuns
    /\ run' = run + 1 /\ status' = "running" /\ stored' = FALSE
    /\ cases' = [id \in CaseIds |-> Absent]
    /\ logs' = [id \in LogIds |-> Absent]
    /\ UNCHANGED <<admin, pacing, payment, call, made>>

\* persistResults: the cases with the status; server errors are summarised
\* into the explanation at once.
Completes ==
    /\ status = "running"
    /\ status' = "completed"
    /\ cases' = [id \in CaseIds |->
                   IF id[1] # run THEN cases[id]
                   ELSE IF id[2] \in ServerErrors THEN [about |-> id, by |-> "engine"]
                   ELSE Blank]
    /\ UNCHANGED <<run, stored, logs, admin, pacing, payment, call, made>>

\* persistRequestLogs, only after the suite shows as completed.
StoresLogs ==
    /\ status = "completed" /\ ~stored
    /\ stored' = TRUE
    /\ logs' = [id \in LogIds |-> IF id[1] = run THEN Blank ELSE logs[id]]
    /\ UNCHANGED <<run, status, cases, admin, pacing, payment, call, made>>

-----------------------------------------------------------------------------
At(c, step) == call[c].at = step
Working(c) == "kind" \in DOMAIN call[c]
InHand(c) == IF Working(c) THEN Range(call[c].todo) ELSE {}
Becomes(c, next) == call' = [call EXCEPT ![c] = next]
Goes(c, step) == Becomes(c, [call[c] EXCEPT !.at = step])
Quiet == UNCHANGED <<suiteRow, rows, admin, pacing, payment, made>>

Press(c, next) ==
    /\ At(c, "idle")
    /\ pressed < MaxPresses
    /\ pressed' = pressed + 1
    /\ Becomes(c, next)
    /\ UNCHANGED <<suiteRow, rows, admin, pacing, payment, restarts>>

\* assertUsable: a key from the settings page or from the environment.
Usable == settings.key \/ EnvKey

\* explainFailures: the suite must be completed, then the failed cases are read.
PressExplain(c) == status = "completed" /\ Usable /\ Press(c, [at |-> "failures"])

\* Wrong: what is already stored is explained again.
ToExplain_All == {id \in CaseIds : cases[id] # Absent}

\* The failed cases this press has to explain: the stored ones are reused.
ToExplain == {id \in CaseIds : cases[id] = Blank}

ReadsFailures(c) ==
    /\ At(c, "failures")
    /\ \E todo \in SetToSeqs(ToExplain) :
          /\ Becomes(c, Work("explain", todo, 0))
          /\ excused' = excused \cup {id \in ToExplain :
                            \E d \in Callers : id \in InHand(d)}
    /\ UNCHANGED <<suiteRow, rows, admin, pacing, paid, made>>

\* describeSuite: a suite in any status.
PressDescribe(c) == Usable /\ Press(c, [at |-> "pending"])

Undescribed == {id \in LogIds : logs[id] = Blank}
InOrder(S) == SetToSortSeq(S, LAMBDA a, b : a[2] < b[2])

\* The undescribed requests in order, MaxPerCall at most; the budget starts.
ReadsPending(c) ==
    /\ At(c, "pending")
    /\ LET all == InOrder(Undescribed) IN
          Becomes(c, Work("describe", SubSeq(all, 1, Min({Len(all), MaxPerCall})), Budget))
    /\ Quiet

Batch(w) ==
    IF w.kind = "explain" THEN {Head(w.todo)}
    ELSE {w.todo[i] : i \in 1..Min({Len(w.todo), BatchSize})}
Rest(w) == SubSeq(w.todo, Cardinality(Batch(w)) + 1, Len(w.todo))

Finished(w) == w.todo = <<>> \/ (w.kind = "describe" /\ w.left = 0)

\* The head of either loop: explainFailures has no deadline, describeSuite
\* returns early at its own, with the counts the client decides by.
EndsPass(c) == At(c, "next") /\ Finished(call[c]) /\ Becomes(c, Idle) /\ Quiet

\* getReportExplanationSettings, for every chat request anew.
ReadsSettings(c) ==
    /\ At(c, "next") /\ ~Finished(call[c])
    /\ Becomes(c, [call[c] EXCEPT !.at = "reserve", !.with = settings])
    /\ Quiet

Interval(c) == IntervalOf[call[c].with.rpm]

\* Wrong: the free slot is read now and moved on only once it is used.
ReserveSlot_Unclaimed(c) ==
    /\ At(c, "reserve")
    /\ Becomes(c, [call[c] EXCEPT !.at = "sleep", !.due = IF Interval(c) = 0 THEN 0 ELSE nextSlot])
    /\ IF Interval(c) = 0 THEN UNCHANGED claimed
       ELSE claimed' = claimed \cup {[in |-> nextSlot, gap |-> Interval(c)]}
    /\ UNCHANGED <<nextSlot, suiteRow, rows, admin, payment, made>>

\* reserveSlot: the slot is claimed before the wait.
ReserveSlot(c) ==
    /\ At(c, "reserve")
    /\ IF Interval(c) = 0
       THEN Goes(c, "sleep") /\ UNCHANGED pacing
       ELSE /\ Becomes(c, [call[c] EXCEPT !.at = "sleep", !.due = nextSlot])
            /\ nextSlot' = nextSlot + Interval(c)
            /\ claimed' = claimed \cup {[in |-> nextSlot, gap |-> Interval(c)]}
    /\ UNCHANGED <<suiteRow, rows, admin, payment, made>>

\* The timer has fired, at its time or later, and the request is sent.
SendsRequest(c) ==
    /\ At(c, "sleep") /\ call[c].due = 0
    /\ Goes(c, "asked")
    /\ paid' = [id \in CaseIds |->
                  IF call[c].kind = "explain" /\ id = Head(call[c].todo)
                  THEN Min({2, paid[id] + 1}) ELSE paid[id]]
    /\ UNCHANGED <<suiteRow, rows, admin, pacing, excused, made>>

\* Wrong: a failed request is sent again until it succeeds.
Explained_Retried(c) ==
    /\ At(c, "asked") /\ call[c].kind = "explain"
    /\ \/ Goes(c, "next")
       \/ /\ call[c].with.key \/ EnvKey
          /\ Becomes(c, [call[c] EXCEPT !.at = "store",
                           !.answer = {[about |-> Head(call[c].todo), by |-> "llm"]}])
    /\ Quiet

\* explainFailure never throws: whatever goes wrong becomes the fallback text.
Explained(c) ==
    /\ At(c, "asked") /\ call[c].kind = "explain"
    /\ \E by \in {"fallback"} \cup IF call[c].with.key \/ EnvKey THEN {"llm"} ELSE {} :
          Becomes(c, [call[c] EXCEPT !.at = "store",
                        !.answer = {[about |-> Head(call[c].todo), by |-> by]}])
    /\ Quiet

\* The ids a reply may name: those asked for, and one it made up.
Repliable(c) == Batch(call[c]) \cup {<<run, Captured>>}

\* Wrong: answers are taken in order, whatever ids they name.
Kept_ByPosition(asked, reply) ==
    LET a == InOrder(asked) r == InOrder(reply) IN
    {[id |-> a[i], about |-> r[i]] : i \in 1..Min({Len(a), Len(r)})}

\* describeRequests: only ids that were asked for are kept.
Kept(asked, reply) == {[id |-> id, about |-> id] : id \in asked \cap reply}

\* A failed call keeps nothing; an empty result ends the pass.
Described(c) ==
    /\ At(c, "asked") /\ call[c].kind = "describe"
    /\ \E reply \in IF call[c].with.key \/ EnvKey THEN SUBSET Repliable(c) ELSE {{}} :
          LET kept == Kept(Batch(call[c]), reply) IN
          Becomes(c, IF kept = {} THEN Idle
                     ELSE [call[c] EXCEPT !.at = "store", !.answer = kept])
    /\ Quiet

\* testCase.update by id: it throws when the row is gone, and the press ends
\* (as it does where the database fails: see RequestFails).
StoresExplanation(c) ==
    /\ At(c, "store") /\ call[c].kind = "explain"
    /\ LET id == Head(call[c].todo) IN
       IF cases[id] = Absent THEN Becomes(c, Idle) /\ UNCHANGED cases
       ELSE /\ cases' = [cases EXCEPT ![id] = CHOOSE a \in call[c].answer : TRUE]
            /\ Becomes(c, [call[c] EXCEPT !.at = "next", !.todo = Rest(call[c]), !.answer = {}])
    /\ UNCHANGED <<suiteRow, logs, admin, pacing, payment, made>>

\* The answers of one batch in one transaction: all of them or none.
StoresDescriptions(c) ==
    /\ At(c, "store") /\ call[c].kind = "describe"
    /\ IF \E a \in call[c].answer : logs[a.id] = Absent
       THEN Becomes(c, Idle) /\ UNCHANGED logs
       ELSE /\ logs' = [id \in LogIds |->
                          IF \E a \in call[c].answer : a.id = id
                          THEN [about |-> (CHOOSE a \in call[c].answer : a.id = id).about]
                          ELSE logs[id]]
            /\ Becomes(c, [call[c] EXCEPT !.at = "next", !.todo = Rest(call[c]), !.answer = {}])
    /\ UNCHANGED <<suiteRow, cases, admin, pacing, payment, made>>

-----------------------------------------------------------------------------
(* The report: the suite's row, then its cases.                            *)

CaseRuns == {id[1] : id \in {d \in CaseIds : cases[d] # Absent}}

\* getReport: loadSuite requires a completed suite.
PressReport(c) ==
    status = "completed" /\ Press(c, [at |-> "report", suite |-> run, rows |-> {}])

ReportReadsCases(c) ==
    /\ At(c, "report")
    /\ Becomes(c, [call[c] EXCEPT !.at = "reply", !.rows = CaseRuns])
    /\ Quiet

Replies(c) == At(c, "reply") /\ Becomes(c, Idle) /\ Quiet

-----------------------------------------------------------------------------
(* The settings page.                                                      *)

\* PATCH: a dto names some fields; null clears the override.
PressPatch(c) ==
    \E fields \in SUBSET {"rpm", "key"} \ {{}}, dto \in Settings :
        Press(c, [at |-> "patch", before |-> settings, fields |-> fields, dto |-> dto])

\* pick: a field that was sent, or the one in the row.
Picked(w, old) ==
    [rpm |-> IF "rpm" \in w.fields THEN w.dto.rpm ELSE old.rpm,
     key |-> IF "key" \in w.fields THEN w.dto.key ELSE old.key]

\* upsert writes all fields, those it was not sent as it read them.
PatchWrites(c) ==
    /\ At(c, "patch")
    /\ settings' = Picked(call[c], call[c].before)
    /\ given' = [rpm |-> IF "rpm" \in call[c].fields THEN call[c].dto.rpm ELSE given.rpm,
                 key |-> IF "key" \in call[c].fields THEN call[c].dto.key ELSE given.key]
    /\ clash' = (clash \/ settings # call[c].before)
    /\ Becomes(c, Idle)
    /\ UNCHANGED <<suiteRow, rows, pacing, payment, made>>

-----------------------------------------------------------------------------
Sooner(n) == IF n > 0 THEN n - 1 ELSE 0
MaxGap == Max({IntervalOf[l] : l \in Limits})

\* Time passes: every timer, deadline and slot comes one tick nearer.
Tick ==
    /\ nextSlot > 0 \/ claimed # {} \/ \E c \in Callers : Working(c) /\ call[c].left > 0
    /\ nextSlot' = Sooner(nextSlot)
    /\ claimed' = {[s EXCEPT !.in = @ - 1] : s \in {t \in claimed : t.in + t.gap > 1}}
    /\ call' = [c \in Callers |->
                  IF Working(c) THEN [call[c] EXCEPT !.due = Sooner(@), !.left = Sooner(@)]
                  ELSE call[c]]
    /\ UNCHANGED <<suiteRow, rows, admin, payment, made>>

\* The requests in progress and the slots were in memory.
RestartBackend ==
    /\ restarts < MaxRestarts
    /\ \E c \in Callers : ~At(c, "idle")
    /\ restarts' = restarts + 1
    /\ call' = [c \in Callers |-> Idle]
    /\ nextSlot' = 0 /\ claimed' = {}
    /\ excused' = excused \cup {id \in CaseIds : \E c \in Callers : id \in InHand(c)}
    /\ UNCHANGED <<suiteRow, rows, admin, paid, pressed>>

\* A read or write of a request throws, the one of the settings included, which
\* stands before the try of explainFailure and describeRequests: the request
\* ends with an error, and an explanation it was to store is lost with the row
\* still there.
RequestFails(c) ==
    /\ call[c].at \in {"failures", "pending", "report", "patch", "next", "store"}
    /\ At(c, "next") => ~Finished(call[c])
    /\ Becomes(c, Idle)
    /\ excused' = IF At(c, "store") /\ call[c].kind = "explain"
                  THEN excused \cup {Head(call[c].todo)} ELSE excused
    /\ UNCHANGED <<suiteRow, rows, admin, pacing, paid, made>>

CallStep(c) ==
    \/ ReadsFailures(c) \/ ReadsPending(c) \/ EndsPass(c) \/ ReadsSettings(c)
    \/ ReserveSlot(c) \/ SendsRequest(c) \/ Explained(c) \/ Described(c)
    \/ StoresExplanation(c) \/ StoresDescriptions(c) \/ ReportReadsCases(c)
    \/ Replies(c) \/ PatchWrites(c)

Presses(c) == PressExplain(c) \/ PressDescribe(c) \/ PressReport(c) \/ PressPatch(c)

Next ==
    \/ RunAgain \/ Completes \/ StoresLogs \/ Tick \/ RestartBackend
    \/ \E c \in Callers : CallStep(c) \/ Presses(c) \/ RequestFails(c)

Spec == Init /\ [][Next]_vars

\* Timers fire and the database answers or throws.  The fetches of LlmService
\* carry no signal and no time limit of their own: that they settle is assumed
\* of the HTTP client under them, which gives up on a silent peer.
FairSpec == Spec /\ WF_vars(Tick) /\ \A c \in Callers : WF_vars(CallStep(c))

-----------------------------------------------------------------------------
TypeOK ==
    /\ run \in 1..MaxRuns /\ status \in {"running", "completed"} /\ stored \in BOOLEAN
    /\ cases \in [CaseIds -> {Absent, Blank} \cup Explanation]
    /\ logs \in [LogIds -> {Absent, Blank} \cup Description]
    /\ settings \in Settings /\ given \in Settings /\ clash \in BOOLEAN
    /\ nextSlot \in 0..(MaxGap * (Cardinality(Callers) + 1))
    /\ pressed \in 0..MaxPresses /\ restarts \in 0..MaxRestarts
    /\ paid \in [CaseIds -> 0..2] /\ excused \subseteq CaseIds

\* What reserveSlot (llm.service.ts) gives both features: slots claimed one
\* after another are the earlier one's interval apart, and no request is on its
\* way before its own slot.  A request that wakes late may start nearer to the
\* next one's than an interval; and a restart forgets the slots.
StartsArePaced ==
    /\ \A s, t \in claimed : s # t => s.in >= t.in + t.gap \/ t.in >= s.in + s.gap
    /\ \A c \in Callers : Working(c) /\ call[c].at = "asked" => call[c].due = 0

\* An explanation or a description is about the row that carries it, whatever
\* runs replaced the rows while the model was answering.
OwnEvidence ==
    /\ \A id \in CaseIds : cases[id] \in Explanation => cases[id].about = id
    /\ \A id \in LogIds : logs[id] \in Description => logs[id].about = id

\* A case is paid for twice only where a second press found it unexplained in
\* the hands of the first, or where the answer of the first was lost on its way
\* to the row: by a restart, or by a write that threw.
PaidOnceUnlessExcused == \A id \in CaseIds : paid'[id] > 1 => id \in excused'

\* A report never shows the cases of an older run than the suite it shows.
ReportNotBehind ==
    \A c \in Callers : At(c, "reply") => \A r \in call[c].rows : r >= call[c].suite

\* "A key omitted from dto keeps its existing value, null clears it": the row
\* is what was last given for each field, unless two PATCHes overlapped.
SettingsAsGiven == ~clash => settings = given

\* A description, once stored, is lost only with its row ("an interrupted
\* describe just leaves rows null for the next go").
DescribedStays ==
    \A id \in LogIds : logs[id] \in Description => logs'[id] \in {logs[id], Absent}

\* Every request gets its answer: pacing delays it, never for ever.
PressEnds == \A c \in Callers : ~At(c, "idle") ~> At(c, "idle")

\* The slots of the calls to the provider are paced, by the settings given.
CallsAreAsSet == StartsArePaced /\ SettingsAsGiven

\* What is shown beside a row is about that row and that run.
EvidenceIsRight == OwnEvidence /\ ReportNotBehind

\* What was paid for is kept: stored, and not asked for again.
PaidForIsKept == [][PaidOnceUnlessExcused /\ DescribedStays]_vars
=============================================================================
