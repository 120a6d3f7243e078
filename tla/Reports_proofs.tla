--------------------------- MODULE Reports_proofs ---------------------------
(***************************************************************************)
(* Theorems about Reports, for any number of failing endpoints, captured   *)
(* requests, runs, requests in progress and restarts, any batch size and   *)
(* budget, and any table of rate limits.                                   *)
(***************************************************************************)
EXTENDS Reports, FiniteSetTheorems, TLAPS

-----------------------------------------------------------------------------
(* What a request in progress holds.                                       *)

Distinct(s) == \A i, j \in 1..Len(s) : i # j => s[i] # s[j]

\* A walk over cases or over captured requests.
IsWork(w) ==
    /\ DOMAIN w = {"at", "kind", "todo", "left", "with", "due", "answer"}
    /\ w.at \in {"next", "reserve", "sleep", "asked", "store"}
    /\ w.kind \in {"explain", "describe"}
    /\ w.left \in Nat /\ w.due \in Nat /\ w.with \in Settings
    /\ w.kind = "explain" =>
          /\ w.todo \in Seq(CaseIds) /\ Distinct(w.todo)
          /\ w.at # "next" => w.todo # <<>>
          /\ w.at = "store" =>
                w.answer # {} /\ \A a \in w.answer : a \in Explanation /\ a.about = Head(w.todo)
    /\ w.kind = "describe" /\ w.at = "store" => \A a \in w.answer : a.about = a.id

\* Anything else: no work in hand.
IsOther(w) ==
    /\ "kind" \notin DOMAIN w
    /\ w.at \in {"idle", "failures", "pending", "report", "reply", "patch"}
    /\ w.at \in {"report", "reply"} => DOMAIN w = {"at", "suite", "rows"} /\ w.suite \in Nat
    /\ w.at = "patch" => w.before \in Settings /\ w.dto \in Settings

IsCall(w) == IsWork(w) \/ IsOther(w)

Types ==
    /\ run \in Nat
    /\ cases \in [CaseIds -> {Absent, Blank} \cup Explanation]
    /\ logs \in [LogIds -> {Absent, Blank} \cup Description]
    /\ settings \in Settings
    /\ nextSlot \in Nat
    /\ claimed \subseteq [in : Int, gap : Nat]
    /\ paid \in [CaseIds -> Nat]
    /\ call = [c \in Callers |-> call[c]]
    /\ \A c \in Callers : IsCall(call[c])

LEMMA RowsDiffer ==
    /\ Absent # Blank
    /\ Absent \notin Explanation /\ Blank \notin Explanation
    /\ Absent \notin Description /\ Blank \notin Description
<1>1. Absent # Blank
  BY DEF Absent, Blank
<1>2. DOMAIN Absent = {"row"} /\ DOMAIN Blank = {"row"}
  BY DEF Absent, Blank
<1>3. \A e \in Explanation : DOMAIN e = {"about", "by"}
  BY DEF Explanation
<1>4. \A d \in Description : DOMAIN d = {"about"}
  BY DEF Description
<1>5. QED
  BY <1>1, <1>2, <1>3, <1>4

LEMMA IdleIsCall == IsOther(Idle) /\ Idle.at = "idle"
BY DEF IsOther, Idle

LEMMA Moves ==
    ASSUME Types, NEW c \in Callers, NEW n, Becomes(c, n)
    PROVE  /\ call'[c] = n /\ \A d \in Callers \ {c} : call'[d] = call[d]
           /\ call' = [d \in Callers |-> call'[d]]
BY DEF Types, Becomes

\* What is left of a walk over cases after the first of them.
LEMMA RestOfTodo ==
    ASSUME NEW S, NEW s \in Seq(S), s # <<>>, Distinct(s)
    PROVE  LET r == SubSeq(s, 2, Len(s)) IN
           /\ r \in Seq(S) /\ Distinct(r)
           /\ Head(s) \in S /\ Head(s) \in Range(s)
           /\ \A x \in Range(r) : x \in Range(s) /\ x # Head(s)
<1> DEFINE r == SubSeq(s, 2, Len(s))
<1>1. Len(s) \in Nat /\ Len(s) >= 1 /\ DOMAIN s = 1..Len(s)
  OBVIOUS
<1>2. r \in Seq(S) /\ Len(r) = Len(s) - 1 /\ \A i \in 1..Len(r) : r[i] = s[i + 1]
  BY <1>1
<1>3. DOMAIN r = 1..Len(r)
  BY <1>2
<1>4. Head(s) = s[1]
  OBVIOUS
<1> HIDE DEF r
<1>5. Distinct(r)
  BY <1>1, <1>2 DEF Distinct
<1>6. \A x \in Range(r) : x \in Range(s) /\ x # Head(s)
  BY <1>1, <1>2, <1>3, <1>4 DEF Distinct, Range
<1>7. Head(s) \in S /\ Head(s) \in Range(s)
  BY <1>1, <1>4 DEF Range
<1>8. QED
  BY <1>2, <1>5, <1>6, <1>7 DEF r

LEMMA CasesFinite == IsFiniteSet(CaseIds)
<1>1. IsFiniteSet(1..MaxRuns) /\ IsFiniteSet(Failed)
  BY FS_Interval, ReportsAssumption
<1>2. QED
  BY <1>1, FS_Product DEF CaseIds

\* The order failed cases are walked in is any, but each comes once.
LEMMA WalkOrder ==
    ASSUME NEW S \in SUBSET CaseIds, NEW todo \in SetToSeqs(S)
    PROVE  todo \in Seq(CaseIds) /\ Distinct(todo) /\ Range(todo) \subseteq S
<1>1. IsFiniteSet(S)
  BY CasesFinite, FS_Subset
<1>2. Cardinality(S) \in Nat
  BY <1>1, FS_CardinalityType
<1>3. /\ todo \in [1..Cardinality(S) -> S]
      /\ \A i, j \in 1..Cardinality(S) : i # j => todo[i] # todo[j]
  BY DEF SetToSeqs
<1>4. todo \in Seq(S) /\ Len(todo) = Cardinality(S)
  BY <1>2, <1>3
<1>5. todo \in Seq(CaseIds)
  BY <1>4
<1>6. QED
  BY <1>3, <1>4, <1>5 DEF Distinct, Range

LEMMA RestIs ==
    ASSUME NEW w, IsWork(w), w.kind = "explain"
    PROVE  Rest(w) = SubSeq(w.todo, 2, Len(w.todo))
<1>1. Batch(w) = {Head(w.todo)}
  BY DEF Batch
<1>2. Cardinality({Head(w.todo)}) = 1
  BY FS_Singleton
<1>3. Cardinality(Batch(w)) + 1 = 2
  BY <1>1, <1>2
<1>4. QED
  BY <1>3 DEF Rest

-----------------------------------------------------------------------------
(* Every step of a request leaves it something a request may hold.  The     *)
(* steps that go on with the work in hand:                                  *)

WalkStep(c) ==
    \/ ReadsSettings(c) \/ ReserveSlot(c) \/ SendsRequest(c) \/ Explained(c)
    \/ Described(c) \/ StoresExplanation(c) \/ StoresDescriptions(c)

\* The limit a walk was told is one the table knows.
LEMMA IntervalIsNat ==
    ASSUME NEW c \in Callers, IsWork(call[c]) PROVE Interval(c) \in Nat
BY ReportsAssumption DEF IsWork, Interval, Settings, Limits

LEMMA AtWork ==
    ASSUME Types, NEW c \in Callers, WalkStep(c) PROVE IsWork(call[c])
BY DEF Types, WalkStep, ReadsSettings, ReserveSlot, SendsRequest, Explained, Described,
       StoresExplanation, StoresDescriptions, At, IsCall, IsOther, Goes, Becomes

\* What a walk goes on with.
LEMMA WalkGoesOn ==
    ASSUME Types, NEW c \in Callers, WalkStep(c)
    PROVE  \E n : Becomes(c, n) /\ (IsWork(n) \/ n = Idle)
<1> DEFINE w == call[c]
<1>w. IsWork(w)
  BY AtWork
<1>i. IsCall(Idle)
  BY IdleIsCall DEF IsCall
<1>1. CASE ReadsSettings(c)
  <2> DEFINE n == [w EXCEPT !.at = "reserve", !.with = settings]
  <2>1. Becomes(c, n) /\ w.at = "next" /\ ~Finished(w)
    BY <1>1 DEF ReadsSettings, At
  <2>2. w.todo # <<>>
    BY <2>1 DEF Finished
  <2>3. IsWork(n)
    BY <1>w, <2>2 DEF IsWork, Types
  <2>4. QED
    BY <2>1, <2>3 DEF IsCall
<1>2. CASE ReserveSlot(c)
  <2>1. PICK d \in Nat : Becomes(c, [w EXCEPT !.at = "sleep", !.due = d])
    <3>1. CASE Interval(c) = 0
      <4>1. [w EXCEPT !.at = "sleep"] = [w EXCEPT !.at = "sleep", !.due = w.due]
        BY <1>w DEF IsWork
      <4>2. w.due \in Nat
        BY <1>w DEF IsWork
      <4>3. QED
        BY <1>2, <3>1, <4>1, <4>2 DEF ReserveSlot, Goes
    <3>2. CASE Interval(c) # 0
      BY <1>2, <3>2 DEF ReserveSlot, Types
    <3>3. QED
      BY <3>1, <3>2
  <2>2. w.at = "reserve"
    BY <1>2 DEF ReserveSlot, At
  <2>3. IsWork([w EXCEPT !.at = "sleep", !.due = d])
    BY <1>w, <2>2 DEF IsWork
  <2>4. QED
    BY <2>1, <2>3 DEF IsCall
<1>3. CASE SendsRequest(c)
  <2>1. Becomes(c, [w EXCEPT !.at = "asked"]) /\ w.at = "sleep"
    BY <1>3 DEF SendsRequest, At, Goes
  <2>2. IsWork([w EXCEPT !.at = "asked"])
    BY <1>w, <2>1 DEF IsWork
  <2>3. QED
    BY <2>1, <2>2 DEF IsCall
<1>4. CASE Explained(c)
  <2>1. /\ w.at = "asked" /\ w.kind = "explain"
        /\ \E by \in {"fallback", "llm"} :
              Becomes(c, [w EXCEPT !.at = "store",
                            !.answer = {[about |-> Head(w.todo), by |-> by]}])
    BY <1>4 DEF Explained, At
  <2>2. PICK by \in {"fallback", "llm"} :
           Becomes(c, [w EXCEPT !.at = "store",
                         !.answer = {[about |-> Head(w.todo), by |-> by]}])
    BY <2>1
  <2> DEFINE n == [w EXCEPT !.at = "store", !.answer = {[about |-> Head(w.todo), by |-> by]}]
  <2>3. Head(w.todo) \in CaseIds
    BY <1>w, <2>1, RestOfTodo DEF IsWork
  <2>4. /\ n.answer # {}
        /\ \A a \in n.answer : a \in Explanation /\ a.about = Head(w.todo)
    <3> DEFINE a0 == [about |-> Head(w.todo), by |-> by]
    <3>1. a0 \in Explanation /\ a0.about = Head(w.todo)
      BY <2>3 DEF Explanation
    <3>2. n.answer = {a0}
      BY <1>w DEF IsWork
    <3>3. QED
      BY <3>1, <3>2
  <2>5. /\ n.todo = w.todo /\ n.kind = w.kind /\ n.at = "store" /\ n.left = w.left
        /\ n.due = w.due /\ n.with = w.with /\ DOMAIN n = DOMAIN w
    BY <1>w DEF IsWork
  <2> HIDE DEF n
  <2>6. IsWork(n)
    BY <1>w, <2>1, <2>4, <2>5 DEF IsWork
  <2>7. QED
    BY <2>2, <2>6 DEF IsCall, n
<1>5. CASE Described(c)
  <2>1. /\ w.at = "asked" /\ w.kind = "describe"
        /\ \E reply : LET kept == Kept(Batch(w), reply) IN
              Becomes(c, IF kept = {} THEN Idle
                         ELSE [w EXCEPT !.at = "store", !.answer = kept])
    BY <1>5 DEF Described, At
  <2>2. PICK reply : LET kept == Kept(Batch(w), reply) IN
              Becomes(c, IF kept = {} THEN Idle
                         ELSE [w EXCEPT !.at = "store", !.answer = kept])
    BY <2>1
  <2> DEFINE kept == Kept(Batch(w), reply)
             n == [w EXCEPT !.at = "store", !.answer = kept]
  <2>3. \A a \in kept : a.about = a.id
    BY DEF Kept
  <2> HIDE DEF kept
  <2>4. IsWork(n)
    BY <1>w, <2>1, <2>3 DEF IsWork
  <2>5. QED
    BY <2>2, <2>4, <1>i DEF IsCall, kept
<1>6. CASE StoresExplanation(c)
  <2> DEFINE n == [w EXCEPT !.at = "next", !.todo = Rest(w), !.answer = {}]
  <2>1. w.at = "store" /\ w.kind = "explain" /\ (Becomes(c, Idle) \/ Becomes(c, n))
    BY <1>6 DEF StoresExplanation, At
  <2>2. Rest(w) \in Seq(CaseIds) /\ Distinct(Rest(w))
    <3>1. w.todo \in Seq(CaseIds) /\ w.todo # <<>> /\ Distinct(w.todo)
      BY <1>w, <2>1 DEF IsWork
    <3>2. SubSeq(w.todo, 2, Len(w.todo)) \in Seq(CaseIds)
          /\ Distinct(SubSeq(w.todo, 2, Len(w.todo)))
      BY <3>1, RestOfTodo
    <3>3. QED
      BY <1>w, <2>1, <3>2, RestIs
  <2>3. IsWork(n)
    BY <1>w, <2>1, <2>2 DEF IsWork
  <2>4. QED
    BY <2>1, <2>3, <1>i DEF IsCall
<1>7. CASE StoresDescriptions(c)
  <2> DEFINE n == [w EXCEPT !.at = "next", !.todo = Rest(w), !.answer = {}]
  <2>1. w.at = "store" /\ w.kind = "describe" /\ (Becomes(c, Idle) \/ Becomes(c, n))
    BY <1>7 DEF StoresDescriptions, At
  <2>2. IsWork(n)
    BY <1>w, <2>1 DEF IsWork
  <2>3. QED
    BY <2>1, <2>2, <1>i DEF IsCall
<1>8. QED
  BY <1>1, <1>2, <1>3, <1>4, <1>5, <1>6, <1>7 DEF WalkStep

\* The steps around a walk.
OtherStep(c) ==
    \/ ReadsFailures(c) \/ ReadsPending(c) \/ EndsPass(c) \/ ReportReadsCases(c)
    \/ Replies(c) \/ PatchWrites(c) \/ Presses(c)

\* A press begins with nothing in hand but what it was sent or has read.
LEMMA PressIs ==
    ASSUME Types, NEW c \in Callers, Presses(c)
    PROVE  \E n : /\ Becomes(c, n) /\ IsOther(n) /\ At(c, "idle")
                  /\ n.at \in {"failures", "pending", "report", "patch"}
                  /\ n.at = "report" => n.suite = run
                  /\ UNCHANGED <<suiteRow, rows, admin, pacing, payment>>
<1>1. CASE PressExplain(c)
  BY <1>1 DEF PressExplain, Press, IsOther
<1>2. CASE PressDescribe(c)
  BY <1>2 DEF PressDescribe, Press, IsOther
<1>3. CASE PressReport(c)
  <2> DEFINE n == [at |-> "report", suite |-> run, rows |-> {}]
  <2>1. Press(c, n)
    BY <1>3 DEF PressReport
  <2>2. IsOther(n)
    BY DEF IsOther, Types
  <2>3. QED
    BY <2>1, <2>2 DEF Press
<1>4. CASE PressPatch(c)
  <2>1. PICK fields \in SUBSET {"rpm", "key"} \ {{}}, dto \in Settings :
           Press(c, [at |-> "patch", before |-> settings, fields |-> fields, dto |-> dto])
    BY <1>4 DEF PressPatch
  <2>2. IsOther([at |-> "patch", before |-> settings, fields |-> fields, dto |-> dto])
    BY DEF IsOther, Types
  <2>3. QED
    BY <2>1, <2>2 DEF Press
<1>5. QED
  BY <1>1, <1>2, <1>3, <1>4 DEF Presses

LEMMA OtherGoesOn ==
    ASSUME Types, NEW c \in Callers, OtherStep(c)
    PROVE  \E n : Becomes(c, n) /\ IsCall(n)
<1>i. IsCall(Idle)
  BY IdleIsCall DEF IsCall
<1>1. CASE ReadsFailures(c)
  <2>1. PICK todo \in SetToSeqs(ToExplain) : Becomes(c, Work("explain", todo, 0))
    BY <1>1 DEF ReadsFailures
  <2>2. todo \in Seq(CaseIds) /\ Distinct(todo)
    BY WalkOrder DEF ToExplain
  <2>3. IsWork(Work("explain", todo, 0))
    BY <2>2 DEF IsWork, Work, Types
  <2>4. QED
    BY <2>1, <2>3 DEF IsCall
<1>2. CASE ReadsPending(c)
  <2>1. PICK todo : Becomes(c, Work("describe", todo, Budget))
    BY <1>2 DEF ReadsPending
  <2>2. IsWork(Work("describe", todo, Budget))
    BY ReportsAssumption DEF IsWork, Work, Types
  <2>3. QED
    BY <2>1, <2>2 DEF IsCall
<1>3. CASE EndsPass(c) \/ Replies(c) \/ PatchWrites(c)
  BY <1>3, <1>i DEF EndsPass, Replies, PatchWrites
<1>4. CASE ReportReadsCases(c)
  <2> DEFINE w == call[c]
             n == [w EXCEPT !.at = "reply", !.rows = CaseRuns]
  <2>1. Becomes(c, n) /\ w.at = "report"
    BY <1>4 DEF ReportReadsCases, At
  <2>2. DOMAIN w = {"at", "suite", "rows"} /\ w.suite \in Nat
    BY <2>1 DEF Types, IsCall, IsWork, IsOther
  <2>3. IsOther(n)
    BY <2>1, <2>2 DEF IsOther
  <2>4. QED
    BY <2>1, <2>3 DEF IsCall
<1>5. CASE Presses(c)
  BY <1>5, PressIs DEF IsCall
<1>6. QED
  BY <1>1, <1>2, <1>3, <1>4, <1>5 DEF OtherStep

\* Time passes for all of them.
Ticked(w) ==
    IF "kind" \in DOMAIN w THEN [w EXCEPT !.due = Sooner(@), !.left = Sooner(@)] ELSE w

LEMMA TickIs ==
    ASSUME Types, Tick
    PROVE  /\ call' = [c \in Callers |-> Ticked(call[c])]
           /\ \A c \in Callers : IsCall(Ticked(call[c]))
<1>1. call' = [c \in Callers |-> Ticked(call[c])]
  BY DEF Tick, Ticked, Working
<1>2. ASSUME NEW c \in Callers PROVE IsCall(Ticked(call[c]))
  <2>1. CASE IsWork(call[c])
    <3>1. Sooner(call[c].due) \in Nat /\ Sooner(call[c].left) \in Nat
      BY <2>1 DEF IsWork, Sooner
    <3>2. IsWork(Ticked(call[c]))
      BY <2>1, <3>1 DEF IsWork, Ticked
    <3>3. QED
      BY <3>2 DEF IsCall
  <2>2. CASE IsOther(call[c])
    BY <2>2 DEF IsOther, Ticked, IsCall
  <2>3. QED
    BY <2>1, <2>2 DEF Types, IsCall
<1>3. QED
  BY <1>1, <1>2

\* What is stored for a case is an explanation of that case, and for a
\* captured request a description of that request.
LEMMA Stored ==
    ASSUME Types, NEW c \in Callers
    PROVE  /\ StoresExplanation(c) =>
                LET id == Head(call[c].todo) IN
                \/ cases[id] = Absent /\ UNCHANGED cases /\ Becomes(c, Idle)
                \/ \E e \in Explanation :
                      /\ e.about = id /\ cases[id] # Absent /\ id \in CaseIds
                      /\ cases' = [cases EXCEPT ![id] = e]
                      /\ Becomes(c, [call[c] EXCEPT !.at = "next", !.todo = Rest(call[c]),
                                                    !.answer = {}])
           /\ StoresDescriptions(c) =>
                \/ UNCHANGED logs
                \/ \E S \in SUBSET LogIds :
                      /\ \A id \in S : logs[id] # Absent
                      /\ logs' = [id \in LogIds |-> IF id \in S THEN [about |-> id]
                                                    ELSE logs[id]]
<1> DEFINE w == call[c]
<1>1. ASSUME StoresExplanation(c), cases[Head(w.todo)] # Absent
      PROVE  \E e \in Explanation :
                      /\ e.about = Head(w.todo) /\ Head(w.todo) \in CaseIds
                      /\ cases' = [cases EXCEPT ![Head(w.todo)] = e]
  <2>1. IsWork(w) /\ w.at = "store" /\ w.kind = "explain"
    BY <1>1, AtWork DEF WalkStep, StoresExplanation, At
  <2>2. w.answer # {} /\ \A a \in w.answer : a \in Explanation /\ a.about = Head(w.todo)
    BY <2>1 DEF IsWork
  <2>3. w.todo \in Seq(CaseIds) /\ w.todo # <<>>
    BY <2>1 DEF IsWork
  <2>4. (CHOOSE a \in w.answer : TRUE) \in w.answer
    BY <2>2
  <2>5. cases' = [cases EXCEPT ![Head(w.todo)] = CHOOSE a \in w.answer : TRUE]
    BY <1>1 DEF StoresExplanation
  <2>6. Head(w.todo) \in CaseIds
    BY <2>3
  <2>7. QED
    BY <2>2, <2>4, <2>5, <2>6
<1>2. ASSUME StoresDescriptions(c), ~UNCHANGED logs
      PROVE  \E S \in SUBSET LogIds :
                      /\ \A id \in S : logs[id] # Absent
                      /\ logs' = [id \in LogIds |-> IF id \in S THEN [about |-> id]
                                                    ELSE logs[id]]
  <2>1. IsWork(w) /\ w.at = "store" /\ w.kind = "describe"
    BY <1>2, AtWork DEF WalkStep, StoresDescriptions, At
  <2>2. \A a \in w.answer : a.about = a.id
    BY <2>1 DEF IsWork
  <2>3. /\ \A a \in w.answer : logs[a.id] # Absent
        /\ logs' = [id \in LogIds |->
                          IF \E a \in w.answer : a.id = id
                          THEN [about |-> (CHOOSE a \in w.answer : a.id = id).about]
                          ELSE logs[id]]
    BY <1>2 DEF StoresDescriptions
  <2>4. \A id : (\E a \in w.answer : a.id = id) =>
                   (CHOOSE a \in w.answer : a.id = id).about = id
    BY <2>2
  <2> DEFINE S == {id \in LogIds : \E a \in w.answer : a.id = id}
  <2>5. logs' = [id \in LogIds |-> IF id \in S THEN [about |-> id] ELSE logs[id]]
    BY <2>3, <2>4
  <2>6. \A id \in S : logs[id] # Absent
    BY <2>3
  <2>7. QED
    BY <2>5, <2>6
<1>3. QED
  BY <1>1, <1>2 DEF StoresExplanation

\* The reach of the steps: only these touch the rows, the slots, what was
\* paid, and the settings.
LEMMA Reach ==
    ASSUME NEW c \in Callers, WalkStep(c) \/ OtherStep(c)
    PROVE  /\ UNCHANGED <<run, status, stored, restarts>>
           /\ ~StoresExplanation(c) => UNCHANGED cases
           /\ ~StoresDescriptions(c) => UNCHANGED logs
           /\ ~ReserveSlot(c) => UNCHANGED <<nextSlot, claimed>>
           /\ ~SendsRequest(c) => UNCHANGED paid
           /\ ~ReadsFailures(c) => UNCHANGED excused
           /\ ~PatchWrites(c) => UNCHANGED <<settings, given, clash>>
<1>1. CASE WalkStep(c)
  BY <1>1 DEF WalkStep, ReadsSettings, ReserveSlot, SendsRequest, Explained, Described,
       StoresExplanation, StoresDescriptions, Quiet, suiteRow, rows, admin, pacing, payment, made
<1>2. CASE OtherStep(c)
  BY <1>2 DEF OtherStep, ReadsFailures, ReadsPending, EndsPass, ReportReadsCases, Replies,
       PatchWrites, Presses, PressExplain, PressDescribe, PressReport, PressPatch, Press,
       Quiet, suiteRow, rows, admin, pacing, payment, made
<1>3. QED
  BY <1>1, <1>2

LEMMA Steps ==
    ASSUME NEW c \in Callers PROVE CallStep(c) \/ Presses(c) <=> WalkStep(c) \/ OtherStep(c)
BY DEF CallStep, WalkStep, OtherStep

LEMMA DescribesItself == \A id \in LogIds : [about |-> id] \in Description
BY DEF Description

\* The types hold in every behaviour.
THEOREM TypesHold == Spec => []Types
<1> USE ReportsAssumption
<1>1. Init => Types
  <2> SUFFICES ASSUME Init PROVE Types
    OBVIOUS
  <2>1. settings \in Settings
    BY DEF Init, Settings, Limits
  <2>2. IsCall(Idle)
    BY IdleIsCall DEF IsCall
  <2>3. QED
    BY <2>1, <2>2 DEF Init, Types
<1>2. Types /\ [Next]_vars => Types'
  <2> SUFFICES ASSUME Types, [Next]_vars PROVE Types'
    OBVIOUS
  <2>1. ASSUME NEW c \in Callers, WalkStep(c) \/ OtherStep(c) PROVE Types'
    <3>1. PICK n : Becomes(c, n) /\ IsCall(n)
      BY <2>1, WalkGoesOn, OtherGoesOn, IdleIsCall DEF IsCall
    <3>2. call' = [d \in Callers |-> call'[d]] /\ \A d \in Callers : IsCall(call'[d])
      BY <3>1, Moves DEF Types
    <3>3. run' = run
      BY <2>1, Reach
    <3>4. cases' \in [CaseIds -> {Absent, Blank} \cup Explanation]
      <4>1. CASE StoresExplanation(c)
        <5>1. CASE UNCHANGED cases
          BY <5>1 DEF Types
        <5>2. CASE \E id \in CaseIds, e \in Explanation : cases' = [cases EXCEPT ![id] = e]
          BY <5>2 DEF Types
        <5>3. QED
          BY <4>1, <5>1, <5>2, Stored
      <4>2. CASE ~StoresExplanation(c)
        BY <2>1, <4>2, Reach DEF Types
      <4>3. QED
        BY <4>1, <4>2
    <3>5. logs' \in [LogIds -> {Absent, Blank} \cup Description]
      <4>1. CASE UNCHANGED logs
        BY <4>1 DEF Types
      <4>2. CASE \E S \in SUBSET LogIds :
                    logs' = [id \in LogIds |-> IF id \in S THEN [about |-> id] ELSE logs[id]]
        BY <4>2, DescribesItself DEF Types
      <4>3. QED
        BY <2>1, <4>1, <4>2, Stored, Reach
    <3>6. settings' \in Settings
      <4>1. CASE PatchWrites(c)
        <5>1. call[c].before \in Settings /\ call[c].dto \in Settings
          BY <4>1 DEF PatchWrites, At, Types, IsCall, IsWork, IsOther
        <5>2. QED
          BY <4>1, <5>1 DEF PatchWrites, Picked, Settings
      <4>2. CASE ~PatchWrites(c)
        BY <2>1, <4>2, Reach DEF Types
      <4>3. QED
        BY <4>1, <4>2
    <3>7. nextSlot' \in Nat /\ claimed' \subseteq [in : Int, gap : Nat]
      <4>1. CASE ReserveSlot(c)
        <5>1. Interval(c) \in Nat
          BY <4>1, AtWork, IntervalIsNat DEF WalkStep
        <5>2. nextSlot' \in {nextSlot, nextSlot + Interval(c)}
          BY <4>1 DEF ReserveSlot, pacing
        <5>3. claimed' \subseteq claimed \cup {[in |-> nextSlot, gap |-> Interval(c)]}
          BY <4>1 DEF ReserveSlot, pacing
        <5>4. [in |-> nextSlot, gap |-> Interval(c)] \in [in : Int, gap : Nat]
          BY <5>1 DEF Types
        <5>5. QED
          BY <5>1, <5>2, <5>3, <5>4 DEF Types
      <4>2. CASE ~ReserveSlot(c)
        BY <2>1, <4>2, Reach DEF Types
      <4>3. QED
        BY <4>1, <4>2
    <3>8. paid' \in [CaseIds -> Nat]
      <4>1. CASE SendsRequest(c)
        <5>1. \A n1 \in Nat : Min({2, n1 + 1}) \in Nat
          BY DEF Min
        <5>2. QED
          BY <4>1, <5>1 DEF SendsRequest, Types
      <4>2. CASE ~SendsRequest(c)
        BY <2>1, <4>2, Reach DEF Types
      <4>3. QED
        BY <4>1, <4>2
    <3>9. QED
      BY <3>2, <3>3, <3>4, <3>5, <3>6, <3>7, <3>8 DEF Types
  <2>2. CASE RunAgain
    BY <2>2 DEF RunAgain, Types, admin, pacing, payment, made
  <2>3. CASE Completes
    <3>1. \A id \in CaseIds : [about |-> id, by |-> "engine"] \in Explanation
      BY DEF Explanation
    <3>2. cases' \in [CaseIds -> {Absent, Blank} \cup Explanation]
      BY <2>3, <3>1 DEF Completes, Types
    <3>3. UNCHANGED <<run, logs, settings, nextSlot, claimed, paid, call>>
      BY <2>3 DEF Completes, admin, pacing, payment, made
    <3>4. QED
      BY <3>2, <3>3 DEF Types
  <2>4. CASE StoresLogs
    BY <2>4 DEF StoresLogs, Types, admin, pacing, payment, made
  <2>5. CASE Tick
    <3>1. call' = [c \in Callers |-> call'[c]] /\ \A c \in Callers : IsCall(call'[c])
      BY <2>5, TickIs
    <3>t. /\ nextSlot' = Sooner(nextSlot)
          /\ claimed' = {[s EXCEPT !.in = @ - 1] : s \in {t \in claimed : t.in + t.gap > 1}}
      BY <2>5 DEF Tick
    <3>2. nextSlot' \in Nat
      BY <3>t DEF Sooner, Types
    <3>3. claimed' \subseteq [in : Int, gap : Nat]
      <4>1. \A s \in [in : Int, gap : Nat] : [s EXCEPT !.in = @ - 1] \in [in : Int, gap : Nat]
        OBVIOUS
      <4>2. claimed \subseteq [in : Int, gap : Nat]
        BY DEF Types
      <4>3. QED
        BY <3>t, <4>1, <4>2
    <3>4. UNCHANGED <<run, cases, logs, settings, paid>>
      BY <2>5 DEF Tick, suiteRow, rows, admin, payment
    <3>5. QED
      BY <3>1, <3>2, <3>3, <3>4 DEF Types
  <2>6. CASE RestartBackend
    <3>1. UNCHANGED <<run, cases, logs, settings, paid>>
      BY <2>6 DEF RestartBackend, suiteRow, rows, admin
    <3>2. call' = [c \in Callers |-> call'[c]] /\ \A c \in Callers : IsCall(call'[c])
      BY <2>6, IdleIsCall DEF RestartBackend, IsCall
    <3>3. QED
      BY <2>6, <3>1, <3>2 DEF RestartBackend, Types
  <2>7. CASE UNCHANGED vars
    BY <2>7 DEF vars, Types
  <2>8. ASSUME NEW c \in Callers, RequestFails(c) PROVE Types'
    <3>1. Becomes(c, Idle) /\ UNCHANGED <<run, cases, logs, settings, nextSlot, claimed, paid>>
      BY <2>8 DEF RequestFails, suiteRow, rows, admin, pacing
    <3>2. call' = [d \in Callers |-> call'[d]] /\ \A d \in Callers : IsCall(call'[d])
      BY <3>1, Moves, IdleIsCall DEF Types, IsCall
    <3>3. QED
      BY <3>1, <3>2 DEF Types
  <2>9. QED
    BY <2>1, <2>2, <2>3, <2>4, <2>5, <2>6, <2>7, <2>8, Steps DEF Next
<1>3. QED
  BY <1>1, <1>2, PTL DEF Spec

-----------------------------------------------------------------------------
(* Pacing.  The slot that is free next lies beyond the interval of every     *)
(* slot that was claimed, and both come nearer together; whoever waits for   *)
(* its slot is sent when its wait is over, and a wait that is over stays so. *)

Sent(w) == "kind" \in DOMAIN w /\ w.at = "asked" => w.due = 0

SlotsInv ==
    /\ \A s \in claimed : s.in + s.gap <= nextSlot
    /\ StartsArePaced
    /\ SettingsAsGiven

\* The slots of the calls to the provider are an interval apart and none is sent
\* before its own, however requests, changes of the limit and waits overlap; and
\* the settings are as they were given.
THEOREM CallsPaced == Spec => []CallsAreAsSet
<1> USE ReportsAssumption
<1>1. Init => SlotsInv
  BY DEF Init, SlotsInv, StartsArePaced, SettingsAsGiven, Working, Idle
<1>2. Types /\ SlotsInv /\ [Next]_vars => SlotsInv'
  <2> SUFFICES ASSUME Types, SlotsInv, [Next]_vars PROVE SlotsInv'
    OBVIOUS
  <2>s. \A c \in Callers : Sent(call[c])
    BY DEF SlotsInv, StartsArePaced, Working, Sent
  <2>c. ASSUME UNCHANGED <<claimed, nextSlot>>
        PROVE  /\ \A s \in claimed' : s.in + s.gap <= nextSlot'
               /\ \A s, t \in claimed' : s # t => s.in >= t.in + t.gap \/ t.in >= s.in + s.gap
    BY <2>c DEF SlotsInv, StartsArePaced
  <2>g. UNCHANGED <<settings, given, clash>> => SettingsAsGiven'
    BY DEF SlotsInv, SettingsAsGiven
  <2>q. ASSUME \A s \in claimed' : s.in + s.gap <= nextSlot',
               \A s, t \in claimed' : s # t => s.in >= t.in + t.gap \/ t.in >= s.in + s.gap,
               \A c \in Callers : Sent(call'[c]), SettingsAsGiven'
        PROVE  SlotsInv'
    BY <2>q DEF SlotsInv, StartsArePaced, Working, Sent
  <2>1. ASSUME NEW c \in Callers, WalkStep(c) \/ OtherStep(c) PROVE SlotsInv'
    <3> DEFINE w == call[c]
    <3>1. \E n : Becomes(c, n) /\ Sent(n)
      <4>1. CASE SendsRequest(c)
        <5>1. Becomes(c, [w EXCEPT !.at = "asked"]) /\ w.due = 0 /\ IsWork(w)
          BY <4>1, AtWork DEF SendsRequest, Goes, WalkStep
        <5>2. [w EXCEPT !.at = "asked"].due = 0
          BY <5>1 DEF IsWork
        <5>3. QED
          BY <5>1, <5>2 DEF Sent
      <4>2. CASE WalkStep(c) /\ ~SendsRequest(c)
        <5>1. IsWork(w)
          BY <4>2, AtWork
        <5>2. PICK n : Becomes(c, n) /\ n.at # "asked"
          <6>1. \A x, y : [w EXCEPT !.at = "store", !.answer = x].at = "store"
                       /\ [w EXCEPT !.at = "next", !.todo = x, !.answer = y].at = "next"
                       /\ [w EXCEPT !.at = "reserve", !.with = x].at = "reserve"
                       /\ [w EXCEPT !.at = "sleep", !.due = x].at = "sleep"
                       /\ [w EXCEPT !.at = "sleep"].at = "sleep"
                       /\ Idle.at = "idle"
            BY <5>1 DEF IsWork, Idle
          <6>2. CASE ReadsSettings(c) \/ ReserveSlot(c)
            BY <6>1, <6>2 DEF ReadsSettings, ReserveSlot, Goes
          <6>3. CASE Explained(c)
            BY <6>1, <6>3 DEF Explained
          <6>4. CASE Described(c)
            <7>1. PICK kept : Becomes(c, IF kept = {} THEN Idle
                                         ELSE [w EXCEPT !.at = "store", !.answer = kept])
              BY <6>4 DEF Described
            <7>2. QED
              BY <6>1, <7>1
          <6>5. CASE StoresExplanation(c) \/ StoresDescriptions(c)
            BY <6>1, <6>5 DEF StoresExplanation, StoresDescriptions
          <6>6. QED
            BY <4>2, <6>2, <6>3, <6>4, <6>5 DEF WalkStep
        <5>3. QED
          BY <5>2 DEF Sent
      <4>3. CASE OtherStep(c) /\ ~Presses(c)
        <5>1. \E n : Becomes(c, n) /\ ("kind" \notin DOMAIN n \/ n.at # "asked")
          <6>1. CASE ReadsFailures(c) \/ ReadsPending(c)
            <7>1. \A k, t, b : Work(k, t, b).at = "next"
              BY DEF Work
            <7>2. \E k, t, b : Becomes(c, Work(k, t, b))
              BY <6>1 DEF ReadsFailures, ReadsPending
            <7>3. QED
              BY <7>1, <7>2
          <6>2. CASE EndsPass(c) \/ Replies(c) \/ PatchWrites(c)
            BY <6>2 DEF EndsPass, Replies, PatchWrites, Idle
          <6>3. CASE ReportReadsCases(c)
            <7>1. Becomes(c, [w EXCEPT !.at = "reply", !.rows = CaseRuns]) /\ w.at = "report"
              BY <6>3 DEF ReportReadsCases, At
            <7>2. "kind" \notin DOMAIN w
              BY <7>1 DEF Types, IsCall, IsWork, IsOther
            <7>3. "kind" \notin DOMAIN [w EXCEPT !.at = "reply", !.rows = CaseRuns]
              BY <7>2
            <7>4. QED
              BY <7>1, <7>3
          <6>4. QED
            BY <4>3, <6>1, <6>2, <6>3 DEF OtherStep
        <5>2. QED
          BY <5>1 DEF Sent
      <4>4. CASE Presses(c)
        BY <4>4, PressIs DEF IsOther, Sent
      <4>5. QED
        BY <2>1, <4>1, <4>2, <4>3, <4>4
    <3>2. \A d \in Callers : Sent(call'[d])
      BY <3>1, <2>s, Moves
    <3>3. SettingsAsGiven'
      <4>1. CASE PatchWrites(c)
        <5>1. /\ settings' = Picked(w, w.before)
              /\ given' = Picked(w, given)
              /\ clash' = (clash \/ settings # w.before)
          BY <4>1 DEF PatchWrites, Picked
        <5>2. QED
          BY <5>1 DEF SlotsInv, SettingsAsGiven
      <4>2. CASE ~PatchWrites(c)
        BY <2>1, <2>g, <4>2, Reach
      <4>3. QED
        BY <4>1, <4>2
    <3>4. CASE ReserveSlot(c) /\ Interval(c) # 0
      <4> DEFINE s0 == [in |-> nextSlot, gap |-> Interval(c)]
      <4>1. Interval(c) \in Nat /\ Interval(c) > 0
        BY <3>4, AtWork, IntervalIsNat DEF WalkStep
      <4>2. nextSlot' = nextSlot + Interval(c) /\ claimed' = claimed \cup {s0}
        BY <3>4 DEF ReserveSlot
      <4>3. s0.in = nextSlot /\ s0.gap = Interval(c)
        OBVIOUS
      <4>4. /\ nextSlot \in Nat
            /\ \A s \in claimed : s.in \in Int /\ s.gap \in Nat /\ s.in + s.gap <= nextSlot
            /\ \A s, t \in claimed : s # t => s.in >= t.in + t.gap \/ t.in >= s.in + s.gap
        BY DEF Types, SlotsInv, StartsArePaced
      <4> HIDE DEF s0
      <4>5. \A s \in claimed' : s.in + s.gap <= nextSlot'
        BY <4>1, <4>2, <4>3, <4>4
      <4>6. \A s, t \in claimed' : s # t => s.in >= t.in + t.gap \/ t.in >= s.in + s.gap
        BY <4>2, <4>3, <4>4
      <4>7. QED
        BY <4>5, <4>6, <3>2, <3>3, <2>q
    <3>5. CASE ~(ReserveSlot(c) /\ Interval(c) # 0)
      <4>1. UNCHANGED <<claimed, nextSlot>>
        BY <2>1, <3>5, Reach DEF ReserveSlot, pacing
      <4>2. QED
        BY <4>1, <2>c, <3>2, <3>3, <2>q
    <3>6. QED
      BY <3>4, <3>5
  <2>2. CASE RunAgain \/ Completes \/ StoresLogs \/ UNCHANGED vars
    <3>1. UNCHANGED <<claimed, nextSlot, settings, given, clash, call>>
      BY <2>2 DEF RunAgain, Completes, StoresLogs, vars, admin, pacing
    <3>2. \A c \in Callers : Sent(call'[c])
      BY <3>1, <2>s
    <3>3. QED
      BY <3>1, <3>2, <2>c, <2>g, <2>q
  <2>3. CASE Tick
    <3>1. /\ nextSlot' = Sooner(nextSlot)
          /\ claimed' = {[s EXCEPT !.in = @ - 1] : s \in {t \in claimed : t.in + t.gap > 1}}
          /\ UNCHANGED <<settings, given, clash>>
      BY <2>3 DEF Tick, admin
    <3>2. /\ nextSlot \in Nat
          /\ \A s \in claimed : s \in [in : Int, gap : Nat] /\ s.in + s.gap <= nextSlot
          /\ \A s, t \in claimed : s # t => s.in >= t.in + t.gap \/ t.in >= s.in + s.gap
      BY DEF Types, SlotsInv, StartsArePaced
    <3>3. \A r \in claimed' : \E s \in claimed :
             /\ s.in + s.gap > 1 /\ r = [s EXCEPT !.in = @ - 1]
             /\ r.in = s.in - 1 /\ r.gap = s.gap
      BY <3>1, <3>2
    <3>4. \A r \in claimed' : r.in + r.gap <= nextSlot'
      BY <3>1, <3>2, <3>3 DEF Sooner
    <3>5. \A r, q \in claimed' : r # q => r.in >= q.in + q.gap \/ q.in >= r.in + r.gap
      BY <3>2, <3>3
    <3>6. \A c \in Callers : Sent(call'[c])
      <4>1. ASSUME NEW c \in Callers PROVE Sent(Ticked(call[c]))
        <5>1. CASE IsWork(call[c])
          BY <2>s, <5>1 DEF IsWork, Ticked, Sooner, Sent
        <5>2. CASE IsOther(call[c])
          BY <5>2 DEF IsOther, Ticked, Sent
        <5>3. QED
          BY <5>1, <5>2 DEF Types, IsCall
      <4>2. QED
        BY <2>3, <4>1, TickIs
    <3>7. QED
      BY <3>1, <3>4, <3>5, <3>6, <2>g, <2>q
  <2>4. CASE RestartBackend
    <3>1. claimed' = {} /\ UNCHANGED <<settings, given, clash>>
      BY <2>4 DEF RestartBackend, admin
    <3>2. \A c \in Callers : Sent(call'[c])
      BY <2>4 DEF RestartBackend, Idle, Sent
    <3>3. QED
      BY <3>1, <3>2, <2>g, <2>q
  <2>5. ASSUME NEW c \in Callers, RequestFails(c) PROVE SlotsInv'
    <3>1. Becomes(c, Idle) /\ UNCHANGED <<claimed, nextSlot, settings, given, clash>>
      BY <2>5 DEF RequestFails, admin, pacing
    <3>2. Sent(Idle)
      BY DEF Sent, Idle
    <3>3. \A d \in Callers : Sent(call'[d])
      BY <3>1, <3>2, <2>s, Moves
    <3>4. QED
      BY <3>1, <3>3, <2>c, <2>g, <2>q
  <2>6. QED
    BY <2>1, <2>2, <2>3, <2>4, <2>5, Steps DEF Next
<1>3. QED
  BY <1>1, <1>2, TypesHold, PTL DEF Spec, SlotsInv, CallsAreAsSet

-----------------------------------------------------------------------------
(* Evidence.  The cases that are there are of the run the suite shows, and   *)
(* of one that is complete, so a report finds no older ones than its suite;  *)
(* an answer in hand is about the row it was asked for (in Types).           *)

RowsOfRun == \A id \in CaseIds : cases[id] # Absent => id[1] = run /\ status = "completed"

Reading(w, r) ==
    w.at \in {"report", "reply"} =>
       /\ w.suite <= r
       /\ w.at = "reply" => \A x \in w.rows : x >= w.suite

EvidenceInv ==
    /\ OwnEvidence
    /\ RowsOfRun
    /\ \A c \in Callers : Reading(call[c], run)

\* The rows of cases and captured requests stay about themselves.
LEMMA OwnOn ==
    ASSUME Types, OwnEvidence, NEW c \in Callers, WalkStep(c) \/ OtherStep(c)
    PROVE  OwnEvidence'
<1>1. \A id \in CaseIds : cases'[id] \in Explanation => cases'[id].about = id
  <2>1. CASE UNCHANGED cases
    BY <2>1 DEF OwnEvidence
  <2>2. CASE \E id \in CaseIds, e \in Explanation :
                e.about = id /\ cases' = [cases EXCEPT ![id] = e]
    BY <2>2 DEF OwnEvidence, Types
  <2>3. QED
    BY <2>1, <2>2, Stored, Reach
<1>2. \A id \in LogIds : logs'[id] \in Description => logs'[id].about = id
  <2>1. CASE UNCHANGED logs
    BY <2>1 DEF OwnEvidence
  <2>2. CASE \E S \in SUBSET LogIds :
                logs' = [id \in LogIds |-> IF id \in S THEN [about |-> id] ELSE logs[id]]
    <3>1. PICK S \in SUBSET LogIds :
                logs' = [id \in LogIds |-> IF id \in S THEN [about |-> id] ELSE logs[id]]
      BY <2>2
    <3>2. ASSUME NEW id \in LogIds, logs'[id] \in Description PROVE logs'[id].about = id
      <4>1. CASE id \in S
        BY <3>1, <4>1
      <4>2. CASE id \notin S
        BY <3>1, <3>2, <4>2 DEF OwnEvidence
      <4>3. QED
        BY <4>1, <4>2
    <3>3. QED
      BY <3>2
  <2>3. QED
    BY <2>1, <2>2, Stored, Reach
<1>3. QED
  BY <1>1, <1>2 DEF OwnEvidence

\* A request stores nothing where no row is.
LEMMA RowsOn ==
    ASSUME Types, RowsOfRun, NEW c \in Callers, WalkStep(c) \/ OtherStep(c)
    PROVE  RowsOfRun'
<1>1. run' = run /\ status' = status
  BY Reach
<1>2. \A id \in CaseIds : cases'[id] # Absent => cases[id] # Absent
  <2>1. CASE UNCHANGED cases
    BY <2>1
  <2>2. CASE \E id \in CaseIds, e \in Explanation :
                cases[id] # Absent /\ cases' = [cases EXCEPT ![id] = e]
    BY <2>2 DEF Types
  <2>3. QED
    BY <2>1, <2>2, Stored, Reach
<1>3. QED
  BY <1>1, <1>2 DEF RowsOfRun

\* A report reads the run first and the cases after it.
LEMMA ReadingOn ==
    ASSUME Types, EvidenceInv, NEW c \in Callers, WalkStep(c) \/ OtherStep(c)
    PROVE  \E n : Becomes(c, n) /\ Reading(n, run)
<1> DEFINE w == call[c]
<1>i. Reading(Idle, run)
  BY DEF Reading, Idle
<1>1. CASE WalkStep(c)
  <2>1. PICK n : Becomes(c, n) /\ (IsWork(n) \/ n = Idle)
    BY <1>1, WalkGoesOn
  <2>2. QED
    BY <2>1, <1>i DEF Reading, IsWork
<1>2. CASE ReadsFailures(c) \/ ReadsPending(c)
  <2>1. \E k, t, b : Becomes(c, Work(k, t, b))
    BY <1>2 DEF ReadsFailures, ReadsPending
  <2>2. \A k, t, b : Work(k, t, b).at = "next"
    BY DEF Work
  <2>3. QED
    BY <2>1, <2>2 DEF Reading
<1>3. CASE EndsPass(c) \/ Replies(c) \/ PatchWrites(c)
  BY <1>3, <1>i DEF EndsPass, Replies, PatchWrites
<1>4. CASE ReportReadsCases(c)
  <2> DEFINE n == [w EXCEPT !.at = "reply", !.rows = CaseRuns]
  <2>1. Becomes(c, n) /\ w.at = "report"
    BY <1>4 DEF ReportReadsCases, At
  <2>2. DOMAIN w = {"at", "suite", "rows"} /\ w.suite \in Nat
    BY <2>1 DEF Types, IsCall, IsWork, IsOther
  <2>3. n.suite = w.suite /\ n.rows = CaseRuns /\ w.suite <= run
    BY <2>1, <2>2 DEF EvidenceInv, Reading
  <2>4. \A x \in CaseRuns : x = run
    BY DEF CaseRuns, EvidenceInv, RowsOfRun
  <2>5. n.suite <= run /\ \A x \in n.rows : x >= n.suite
    <3>1. w.suite \in Nat /\ run \in Nat
      BY <2>2 DEF Types
    <3>2. QED
      BY <2>3, <2>4, <3>1
  <2> HIDE DEF n
  <2>6. QED
    BY <2>1, <2>5 DEF Reading
<1>5. CASE Presses(c)
  <2>1. PICK n : /\ Becomes(c, n) /\ n.at \in {"failures", "pending", "report", "patch"}
                 /\ n.at = "report" => n.suite = run
    BY <1>5, PressIs
  <2>2. QED
    BY <2>1 DEF Reading, Types
<1>6. QED
  BY <1>1, <1>2, <1>3, <1>4, <1>5 DEF OtherStep

LEMMA EvidenceHolds == Spec => []EvidenceInv
<1> USE ReportsAssumption
<1>1. Init => EvidenceInv
  BY RowsDiffer DEF Init, EvidenceInv, OwnEvidence, RowsOfRun, Reading, Idle
<1>2. Types /\ EvidenceInv /\ [Next]_vars => EvidenceInv'
  <2> SUFFICES ASSUME Types, EvidenceInv, [Next]_vars PROVE EvidenceInv'
    OBVIOUS
  <2>r. ASSUME NEW c \in Callers, run' \in Nat, run <= run' PROVE Reading(call[c], run')
    <3>1. call[c].at \in {"report", "reply"} => call[c].suite \in Nat
      BY DEF Types, IsCall, IsWork, IsOther
    <3>2. QED
      BY <3>1, <2>r DEF EvidenceInv, Reading, Types
  <2>1. ASSUME NEW c \in Callers, WalkStep(c) \/ OtherStep(c) PROVE EvidenceInv'
    <3>1. OwnEvidence' /\ RowsOfRun'
      BY <2>1, OwnOn, RowsOn DEF EvidenceInv
    <3>2. PICK n : Becomes(c, n) /\ Reading(n, run)
      BY <2>1, ReadingOn
    <3>3. \A d \in Callers : Reading(call'[d], run)
      BY <3>2, Moves DEF EvidenceInv
    <3>4. run' = run
      BY <2>1, Reach
    <3>5. QED
      BY <3>1, <3>3, <3>4 DEF EvidenceInv
  <2>2. CASE RunAgain
    <3>1. /\ run' = run + 1 /\ UNCHANGED call
          /\ cases' = [id \in CaseIds |-> Absent] /\ logs' = [id \in LogIds |-> Absent]
      BY <2>2 DEF RunAgain
    <3>2. \A c \in Callers : Reading(call'[c], run')
      BY <3>1, <2>r DEF Types
    <3>3. OwnEvidence' /\ RowsOfRun'
      BY <3>1, RowsDiffer DEF OwnEvidence, RowsOfRun
    <3>4. QED
      BY <3>2, <3>3 DEF EvidenceInv
  <2>3. CASE Completes
    <3>0. /\ status' = "completed" /\ UNCHANGED <<run, logs, call>>
          /\ cases' = [id \in CaseIds |->
                   IF id[1] # run THEN cases[id]
                   ELSE IF id[2] \in ServerErrors THEN [about |-> id, by |-> "engine"]
                   ELSE Blank]
      BY <2>3 DEF Completes
    <3>1. /\ status' = "completed" /\ UNCHANGED <<run, logs, call>>
          /\ \A id \in CaseIds : \/ cases'[id] = cases[id]
                                 \/ id[1] = run /\ cases'[id] = Blank
                                 \/ id[1] = run /\ cases'[id] = [about |-> id, by |-> "engine"]
      <4>1. ASSUME NEW id \in CaseIds
            PROVE  \/ cases'[id] = cases[id]
                   \/ id[1] = run /\ cases'[id] = Blank
                   \/ id[1] = run /\ cases'[id] = [about |-> id, by |-> "engine"]
        BY <3>0
      <4>2. QED
        BY <3>0, <4>1
    <3>2. OwnEvidence'
      <4>1. ASSUME NEW id \in CaseIds, cases'[id] \in Explanation PROVE cases'[id].about = id
        <5>1. CASE cases'[id] = cases[id]
          BY <4>1, <5>1 DEF EvidenceInv, OwnEvidence
        <5>2. CASE cases'[id] = [about |-> id, by |-> "engine"]
          BY <5>2
        <5>3. QED
          BY <3>1, <4>1, <5>1, <5>2, RowsDiffer
      <4>2. QED
        BY <3>1, <4>1 DEF EvidenceInv, OwnEvidence
    <3>3. RowsOfRun'
      BY <3>1 DEF EvidenceInv, RowsOfRun
    <3>4. QED
      BY <3>1, <3>2, <3>3 DEF EvidenceInv
  <2>4. CASE StoresLogs
    <3>1. /\ UNCHANGED <<run, status, cases, call>>
          /\ \A id \in LogIds : logs'[id] \in {Blank, logs[id]}
      BY <2>4 DEF StoresLogs
    <3>2. QED
      BY <3>1, RowsDiffer DEF EvidenceInv, OwnEvidence, RowsOfRun
  <2>5. CASE Tick
    <3>1. UNCHANGED <<run, status, cases, logs>>
      BY <2>5 DEF Tick, suiteRow, rows
    <3>2. \A c \in Callers : Reading(Ticked(call[c]), run)
      <4>1. ASSUME NEW c \in Callers PROVE Reading(Ticked(call[c]), run)
        <5>1. CASE IsWork(call[c])
          BY <5>1 DEF IsWork, Ticked, Reading
        <5>2. CASE IsOther(call[c])
          BY <5>2 DEF IsOther, Ticked, EvidenceInv
        <5>3. QED
          BY <5>1, <5>2 DEF Types, IsCall
      <4>2. QED
        BY <4>1
    <3>3. \A c \in Callers : Reading(call'[c], run)
      BY <2>5, <3>2, TickIs
    <3>4. QED
      BY <3>1, <3>3 DEF EvidenceInv, OwnEvidence, RowsOfRun
  <2>6. CASE RestartBackend
    <3>1. UNCHANGED <<run, status, cases, logs>>
      BY <2>6 DEF RestartBackend, suiteRow, rows
    <3>2. \A c \in Callers : Reading(call'[c], run)
      BY <2>6 DEF RestartBackend, Reading, Idle
    <3>3. QED
      BY <3>1, <3>2 DEF EvidenceInv, OwnEvidence, RowsOfRun
  <2>7. CASE UNCHANGED vars
    BY <2>7 DEF vars, EvidenceInv, OwnEvidence, RowsOfRun
  <2>8. ASSUME NEW c \in Callers, RequestFails(c) PROVE EvidenceInv'
    <3>1. Becomes(c, Idle) /\ UNCHANGED <<run, status, cases, logs>>
      BY <2>8 DEF RequestFails, suiteRow, rows
    <3>2. Reading(Idle, run)
      BY DEF Reading, Idle
    <3>3. \A d \in Callers : Reading(call'[d], run)
      BY <3>1, <3>2, Moves DEF EvidenceInv
    <3>4. QED
      BY <3>1, <3>3 DEF EvidenceInv, OwnEvidence, RowsOfRun
  <2>9. QED
    BY <2>1, <2>2, <2>3, <2>4, <2>5, <2>6, <2>7, <2>8, Steps DEF Next
<1>3. QED
  BY <1>1, <1>2, TypesHold, PTL DEF Spec

\* What is shown beside a row is about that row, although rows come and go
\* while the model answers, and a report has no cases older than its suite.
THEOREM EvidenceSound == Spec => []EvidenceIsRight
<1>1. EvidenceInv => EvidenceIsRight
  BY DEF EvidenceInv, EvidenceIsRight, ReportNotBehind, Reading, At
<1>2. QED
  BY <1>1, EvidenceHolds, PTL

-----------------------------------------------------------------------------
(* Paying.  A case nothing excuses is in one press's hands at most.  That    *)
(* press has not paid for it until it sends it; once it did, the case stays  *)
(* in its hands until it is stored, or gone with its run.  So whoever finds  *)
(* a case blank and in nobody's hands finds it unpaid.                       *)

Holds(w, id) == "kind" \in DOMAIN w /\ w.kind = "explain" /\ id \in Range(w.todo)

\* The case whose request is out, or whose answer is in hand.
SentFor(w, id) ==
    "kind" \in DOMAIN w /\ w.kind = "explain" /\ w.at \in {"asked", "store"} /\ id = Head(w.todo)

\* A case that was there, and so will not come again.
Known(id) == id[1] < run \/ (id[1] = run /\ status = "completed")

CasesKnown ==
    /\ RowsOfRun
    /\ \A id \in CaseIds : paid[id] # 0 => Known(id)
    /\ \A c \in Callers, id \in CaseIds : Holds(call[c], id) => Known(id)

PaidFor(id) ==
    /\ paid[id] <= 1
    /\ paid[id] # 0 => cases[id] # Blank \/ \E c \in Callers : SentFor(call[c], id)
    /\ \A c \in Callers : Holds(call[c], id) /\ ~SentFor(call[c], id) => paid[id] = 0
    /\ \A c, d \in Callers : Holds(call[c], id) /\ Holds(call[d], id) => c = d

PaidInv == CasesKnown /\ \A id \in CaseIds \ excused : PaidFor(id)

\* Nothing taken in hand, and nothing sent or stored.
Keeps(w, n) ==
    \A id \in CaseIds : /\ Holds(n, id) => Holds(w, id)
                        /\ SentFor(n, id) <=> SentFor(w, id)

LEMMA HeadInHand ==
    ASSUME NEW w, IsWork(w), NEW id, SentFor(w, id) PROVE Holds(w, id)
<1>1. w.todo \in Seq(CaseIds) /\ w.todo # <<>> /\ Distinct(w.todo) /\ id = Head(w.todo)
  BY DEF IsWork, SentFor
<1>2. id \in Range(w.todo)
  BY <1>1, RestOfTodo
<1>3. QED
  BY <1>2 DEF SentFor, Holds

LEMMA NothingInHand ==
    ASSUME NEW w, "kind" \notin DOMAIN w \/ w.kind # "explain" PROVE
        \A id : ~Holds(w, id) /\ ~SentFor(w, id)
BY DEF Holds, SentFor

LEMMA IdleHoldsNothing == \A id : ~Holds(Idle, id) /\ ~SentFor(Idle, id)
BY DEF Idle, Holds, SentFor

\* Where each request keeps what it has, and cases that are known stay as they
\* are or get a text, the invariant stays.
LEMMA PaidKept ==
    ASSUME Types, PaidInv, RowsOfRun', UNCHANGED paid, excused \subseteq excused',
           \A c \in Callers : Keeps(call[c], call'[c]),
           \A id \in CaseIds : Known(id) => Known(id)' /\ (cases'[id] = Blank => cases[id] = Blank)
    PROVE  PaidInv'
<1>1. CasesKnown'
  BY DEF PaidInv, CasesKnown, Keeps
<1>2. ASSUME NEW id \in CaseIds \ excused' PROVE PaidFor(id)'
  <2>1. PaidFor(id)
    BY <1>2 DEF PaidInv
  <2>2. paid[id] # 0 => Known(id)
    BY DEF PaidInv, CasesKnown
  <2>3. \A c \in Callers : /\ Holds(call'[c], id) => Holds(call[c], id)
                           /\ SentFor(call'[c], id) <=> SentFor(call[c], id)
    BY DEF Keeps
  <2>4. cases'[id] = Blank /\ Known(id) => cases[id] = Blank
    OBVIOUS
  <2>5. QED
    BY <2>1, <2>2, <2>3, <2>4 DEF PaidFor
<1>3. QED
  BY <1>1, <1>2 DEF PaidInv

\* The steps that only go on with what is in hand.
LEMMA WalkKeeps ==
    ASSUME Types, NEW c \in Callers, WalkStep(c), ~SendsRequest(c), ~StoresExplanation(c)
    PROVE  \E n : Becomes(c, n) /\ Keeps(call[c], n)
<1> DEFINE w == call[c]
<1>w. IsWork(w)
  BY AtWork
<1>e. ASSUME NEW n, "kind" \in DOMAIN n, n.kind = w.kind, n.todo = w.todo,
             n.at \in {"asked", "store"} <=> w.at \in {"asked", "store"}
      PROVE  Keeps(w, n)
  BY <1>e, <1>w DEF Keeps, Holds, SentFor, IsWork
<1>d. ASSUME NEW n, w.kind = "describe", n = Idle \/ n.kind = "describe" PROVE Keeps(w, n)
  BY <1>d, NothingInHand, IdleHoldsNothing DEF Keeps
<1>1. CASE ReadsSettings(c)
  <2> DEFINE n == [w EXCEPT !.at = "reserve", !.with = settings]
  <2>1. Becomes(c, n) /\ w.at = "next"
    BY <1>1 DEF ReadsSettings, At
  <2>2. "kind" \in DOMAIN n /\ n.kind = w.kind /\ n.todo = w.todo /\ n.at = "reserve"
    BY <1>w DEF IsWork
  <2> HIDE DEF n
  <2>3. Keeps(w, n)
    BY <2>1, <2>2, <1>e
  <2>4. QED
    BY <2>1, <2>3
<1>2. CASE ReserveSlot(c)
  <2>1. w.at = "reserve"
    BY <1>2 DEF ReserveSlot, At
  <2>2. PICK n \in {[w EXCEPT !.at = "sleep"], [w EXCEPT !.at = "sleep", !.due = nextSlot]} :
           Becomes(c, n)
    BY <1>2 DEF ReserveSlot, Goes
  <2>3. "kind" \in DOMAIN n /\ n.kind = w.kind /\ n.todo = w.todo /\ n.at = "sleep"
    BY <1>w DEF IsWork
  <2>4. Keeps(w, n)
    BY <2>1, <2>3, <1>e
  <2>5. QED
    BY <2>2, <2>4
<1>3. CASE Explained(c)
  <2>1. w.at = "asked"
    BY <1>3 DEF Explained, At
  <2>2. PICK answer : Becomes(c, [w EXCEPT !.at = "store", !.answer = answer])
    BY <1>3 DEF Explained
  <2> DEFINE n == [w EXCEPT !.at = "store", !.answer = answer]
  <2>3. "kind" \in DOMAIN n /\ n.kind = w.kind /\ n.todo = w.todo /\ n.at = "store"
    BY <1>w DEF IsWork
  <2> HIDE DEF n
  <2>4. Keeps(w, n)
    BY <2>1, <2>3, <1>e
  <2>5. QED
    BY <2>2, <2>4 DEF n
<1>4. CASE Described(c)
  <2>1. w.kind = "describe"
    BY <1>4 DEF Described
  <2>2. PICK kept : Becomes(c, IF kept = {} THEN Idle
                               ELSE [w EXCEPT !.at = "store", !.answer = kept])
    BY <1>4 DEF Described
  <2> DEFINE n == [w EXCEPT !.at = "store", !.answer = kept]
  <2>3. n.kind = "describe"
    BY <1>w, <2>1 DEF IsWork
  <2> HIDE DEF n
  <2>4. Keeps(w, Idle) /\ Keeps(w, n)
    BY <2>1, <2>3, <1>d
  <2>5. QED
    BY <2>2, <2>4 DEF n
<1>5. CASE StoresDescriptions(c)
  <2> DEFINE n == [w EXCEPT !.at = "next", !.todo = Rest(w), !.answer = {}]
  <2>1. w.kind = "describe" /\ (Becomes(c, Idle) \/ Becomes(c, n))
    BY <1>5 DEF StoresDescriptions
  <2>2. n.kind = "describe"
    BY <1>w, <2>1 DEF IsWork
  <2> HIDE DEF n
  <2>3. Keeps(w, Idle) /\ Keeps(w, n)
    BY <2>1, <2>2, <1>d
  <2>4. QED
    BY <2>1, <2>3
<1>6. QED
  BY <1>1, <1>2, <1>3, <1>4, <1>5 DEF WalkStep

LEMMA OtherKeeps ==
    ASSUME Types, NEW c \in Callers, OtherStep(c), ~ReadsFailures(c)
    PROVE  \E n : Becomes(c, n) /\ Keeps(call[c], n)
<1> DEFINE w == call[c]
<1>n. ASSUME "kind" \notin DOMAIN w, NEW n, "kind" \notin DOMAIN n \/ n.kind # "explain"
      PROVE  Keeps(w, n)
  BY <1>n, NothingInHand DEF Keeps
<1>i. "kind" \notin DOMAIN Idle
  BY DEF Idle
<1>o. At(c, "pending") \/ At(c, "report") \/ At(c, "reply") \/ At(c, "patch") \/ At(c, "idle")
         => "kind" \notin DOMAIN w
  BY DEF At, Types, IsCall, IsWork, IsOther
<1>1. CASE ReadsPending(c)
  <2>1. PICK todo : Becomes(c, Work("describe", todo, Budget))
    BY <1>1 DEF ReadsPending
  <2>2. Work("describe", todo, Budget).kind # "explain"
    BY DEF Work
  <2>3. Keeps(w, Work("describe", todo, Budget))
    BY <1>1, <1>n, <1>o, <2>2 DEF ReadsPending
  <2>4. QED
    BY <2>1, <2>3
<1>2. CASE EndsPass(c)
  <2>1. Becomes(c, Idle) /\ w.at = "next" /\ Finished(w)
    BY <1>2 DEF EndsPass, At
  <2>2. IsWork(w)
    BY <2>1 DEF Types, IsCall, IsOther
  <2>3. w.kind = "explain" => w.todo = <<>>
    BY <2>1, <2>2 DEF Finished
  <2>4. Keeps(w, Idle)
    BY <2>1, IdleHoldsNothing DEF Keeps, SentFor
  <2>5. QED
    BY <2>1, <2>4
<1>3. CASE ReportReadsCases(c)
  <2> DEFINE n == [w EXCEPT !.at = "reply", !.rows = CaseRuns]
  <2>1. Becomes(c, n) /\ "kind" \notin DOMAIN w
    BY <1>3, <1>o DEF ReportReadsCases
  <2>2. "kind" \notin DOMAIN n
    BY <2>1
  <2>3. Keeps(w, n)
    BY <2>1, <2>2, <1>n
  <2>4. QED
    BY <2>1, <2>3
<1>4. CASE Replies(c) \/ PatchWrites(c)
  <2>1. Becomes(c, Idle) /\ "kind" \notin DOMAIN w
    BY <1>4, <1>o DEF Replies, PatchWrites
  <2>2. Keeps(w, Idle)
    BY <2>1, <1>n, <1>i
  <2>3. QED
    BY <2>1, <2>2
<1>5. CASE Presses(c)
  <2>1. PICK n : Becomes(c, n) /\ IsOther(n) /\ At(c, "idle")
    BY <1>5, PressIs
  <2>2. Keeps(w, n)
    BY <2>1, <1>n, <1>o DEF IsOther
  <2>3. QED
    BY <2>1, <2>2
<1>6. QED
  BY <1>1, <1>2, <1>3, <1>4, <1>5 DEF OtherStep

\* A case is sent by the only press that has it in hand, for the first time.
LEMMA SendingPays ==
    ASSUME Types, PaidInv, RowsOfRun', NEW c \in Callers, SendsRequest(c) PROVE PaidInv'
<1> DEFINE w == call[c]
           n == [w EXCEPT !.at = "asked"]
<1>1. /\ IsWork(w) /\ w.at = "sleep"
      /\ UNCHANGED <<run, status, cases, excused>>
      /\ call'[c] = n /\ \A d \in Callers \ {c} : call'[d] = call[d]
  <2>1. IsWork(w)
    BY AtWork DEF WalkStep
  <2>2. w.at = "sleep" /\ Becomes(c, n) /\ UNCHANGED <<run, status, cases, excused>>
    BY DEF SendsRequest, At, Goes, suiteRow, rows
  <2> HIDE DEF n
  <2>3. call'[c] = n /\ \A d \in Callers \ {c} : call'[d] = call[d]
    BY <2>2, Moves
  <2>4. QED
    BY <2>1, <2>2, <2>3
<1>2. /\ "kind" \in DOMAIN w /\ "kind" \in DOMAIN n
      /\ n.kind = w.kind /\ n.todo = w.todo /\ n.at = "asked"
  BY <1>1 DEF IsWork
<1>3. \A id : Holds(n, id) <=> Holds(w, id)
  BY <1>2 DEF Holds
<1>4. \A id : SentFor(n, id) <=> w.kind = "explain" /\ id = Head(w.todo)
  BY <1>2 DEF SentFor
<1>5. \A id : ~SentFor(w, id)
  BY <1>1 DEF SentFor
<1>6. \A id \in CaseIds : SentFor(n, id) => Holds(w, id)
  <2>1. ASSUME w.kind = "explain" PROVE Head(w.todo) \in Range(w.todo)
    BY <1>1, <2>1, RestOfTodo DEF IsWork
  <2>2. QED
    BY <1>2, <1>4, <2>1 DEF Holds
<1>7. \A id \in CaseIds : paid'[id] = IF SentFor(n, id) THEN Min({2, paid[id] + 1}) ELSE paid[id]
  BY <1>4 DEF SendsRequest
<1> HIDE DEF n
<1>8. CasesKnown'
  <2>1. \A id \in CaseIds : paid'[id] # 0 => Known(id)
    BY <1>6, <1>7 DEF PaidInv, CasesKnown
  <2>2. \A d \in Callers, id \in CaseIds : Holds(call'[d], id) => Known(id)
    BY <1>1, <1>3 DEF PaidInv, CasesKnown
  <2>3. QED
    BY <1>1, <2>1, <2>2 DEF CasesKnown, Known
<1>9. ASSUME NEW id \in CaseIds \ excused PROVE PaidFor(id)'
  <2>0. PaidFor(id)
    BY DEF PaidInv
  <2>1. CASE SentFor(n, id)
    <3>1. Holds(w, id) /\ ~SentFor(w, id)
      BY <1>5, <1>6, <2>1
    <3>2. paid[id] = 0 /\ \A d \in Callers : Holds(call[d], id) => d = c
      BY <2>0, <3>1 DEF PaidFor
    <3>3. Min({2, 0 + 1}) = 1
      BY DEF Min
    <3>4. paid'[id] = 1
      BY <1>7, <2>1, <3>2, <3>3
    <3>5. \A d \in Callers : Holds(call'[d], id) => d = c
      BY <1>1, <3>2
    <3>6. SentFor(call'[c], id)
      BY <1>1, <2>1
    <3>7. QED
      BY <3>4, <3>5, <3>6 DEF PaidFor
  <2>2. CASE ~SentFor(n, id)
    <3>1. paid'[id] = paid[id]
      BY <1>7, <2>2
    <3>2. \A d \in Callers : /\ Holds(call'[d], id) <=> Holds(call[d], id)
                             /\ SentFor(call'[d], id) <=> SentFor(call[d], id)
      BY <1>1, <1>3, <1>5, <2>2
    <3>3. QED
      BY <1>1, <2>0, <3>1, <3>2 DEF PaidFor
  <2>3. QED
    BY <2>1, <2>2
<1>10. QED
  BY <1>1, <1>8, <1>9 DEF PaidInv

\* The answer is stored, or the case is gone; the press turns to unpaid ones.
LEMMA StoringKeeps ==
    ASSUME Types, PaidInv, RowsOfRun', NEW c \in Callers, StoresExplanation(c) PROVE PaidInv'
<1> DEFINE w == call[c]
           id0 == Head(w.todo)
           n == [w EXCEPT !.at = "next", !.todo = Rest(w), !.answer = {}]
<1>1. /\ IsWork(w) /\ w.at = "store" /\ w.kind = "explain"
      /\ UNCHANGED <<run, status, paid, excused>>
  BY AtWork, Reach DEF WalkStep, StoresExplanation, SendsRequest, ReadsFailures, At
<1>2. w.todo \in Seq(CaseIds) /\ w.todo # <<>> /\ Distinct(w.todo)
  BY <1>1 DEF IsWork
<1>3. \A id : SentFor(w, id) <=> id = id0
  BY <1>1 DEF SentFor, IsWork
<1>4. \A id : Holds(n, id) => Holds(w, id) /\ id # id0
  <2>1. n.todo = SubSeq(w.todo, 2, Len(w.todo))
    BY <1>1, RestIs DEF IsWork
  <2>2. \A x \in Range(SubSeq(w.todo, 2, Len(w.todo))) : x \in Range(w.todo) /\ x # id0
    BY <1>2, RestOfTodo
  <2>3. "kind" \in DOMAIN w /\ w.kind = "explain"
    BY <1>1 DEF IsWork
  <2> HIDE DEF n
  <2>4. QED
    BY <2>1, <2>2, <2>3 DEF Holds
<1>5. \A id : ~SentFor(n, id)
  BY <1>1 DEF SentFor, IsWork
<1> HIDE DEF n
<1>6. PICK m \in {Idle, n} : Becomes(c, m)
  BY Stored DEF n
<1>7. call'[c] = m /\ \A d \in Callers \ {c} : call'[d] = call[d]
  BY <1>6, Moves
<1>8. \A id : ~SentFor(m, id) /\ (Holds(m, id) => Holds(w, id) /\ id # id0)
  BY <1>4, <1>5, IdleHoldsNothing
<1>9. id0 \in CaseIds => cases'[id0] # Blank
  <2>1. CASE UNCHANGED cases /\ cases[id0] = Absent
    BY <2>1, RowsDiffer
  <2>2. CASE \E e \in Explanation : id0 \in CaseIds /\ cases' = [cases EXCEPT ![id0] = e]
    BY <2>2, RowsDiffer DEF Types
  <2>3. QED
    BY <2>1, <2>2, Stored
<1>10. \A id \in CaseIds : cases'[id] = Blank => cases[id] = Blank
  <2>1. CASE UNCHANGED cases
    BY <2>1
  <2>2. CASE \E e \in Explanation : id0 \in CaseIds /\ cases' = [cases EXCEPT ![id0] = e]
    BY <2>2, RowsDiffer DEF Types
  <2>3. QED
    BY <2>1, <2>2, Stored
<1>11. CasesKnown'
  <2>1. \A d \in Callers, id \in CaseIds : Holds(call'[d], id) => Known(id)
    BY <1>7, <1>8 DEF PaidInv, CasesKnown
  <2>2. QED
    BY <1>1, <2>1 DEF PaidInv, CasesKnown, Known
<1>12. ASSUME NEW id \in CaseIds \ excused PROVE PaidFor(id)'
  <2>0. PaidFor(id)
    BY DEF PaidInv
  <2>1. \A d \in Callers : /\ Holds(call'[d], id) => Holds(call[d], id)
                           /\ SentFor(call'[d], id) => SentFor(call[d], id)
    BY <1>7, <1>8
  <2>2. paid[id] # 0 /\ cases'[id] = Blank => \E d \in Callers : SentFor(call'[d], id)
    BY <1>3, <1>7, <1>9, <1>10, <2>0 DEF PaidFor
  <2>3. \A d \in Callers : Holds(call'[d], id) /\ ~SentFor(call'[d], id) => paid[id] = 0
    BY <1>3, <1>7, <1>8, <2>0 DEF PaidFor
  <2>4. QED
    BY <1>1, <2>0, <2>1, <2>2, <2>3 DEF PaidFor
<1>13. QED
  BY <1>1, <1>11, <1>12 DEF PaidInv

\* A press takes in hand what is blank.  What another press has in hand too is
\* excused; the rest was not paid for.
LEMMA ReadingTakes ==
    ASSUME Types, PaidInv, RowsOfRun', NEW c \in Callers, ReadsFailures(c) PROVE PaidInv'
<1>1. /\ At(c, "failures") /\ UNCHANGED <<run, status, cases, paid>>
      /\ excused' = excused \cup {id \in ToExplain : \E d \in Callers : id \in InHand(d)}
  BY Reach DEF OtherStep, ReadsFailures, StoresExplanation, SendsRequest, At, rows
<1>2. PICK todo \in SetToSeqs(ToExplain) : Becomes(c, Work("explain", todo, 0))
  BY DEF ReadsFailures
<1> DEFINE n == Work("explain", todo, 0)
<1>3. call'[c] = n /\ \A d \in Callers \ {c} : call'[d] = call[d]
  BY <1>2, Moves
<1>4. Range(todo) \subseteq ToExplain
  BY WalkOrder DEF ToExplain
<1>5. \A id : ~SentFor(n, id) /\ (Holds(n, id) => id \in ToExplain)
  BY <1>4 DEF SentFor, Holds, Work
<1> HIDE DEF n
<1>6. \A id : ~Holds(call[c], id) /\ ~SentFor(call[c], id)
  BY <1>1, NothingInHand DEF At, Types, IsCall, IsWork, IsOther
<1>7. \A d \in Callers : \A id : Holds(call[d], id) => id \in InHand(d)
  BY DEF Holds, InHand, Working
<1>8. CasesKnown'
  <2>1. \A id \in ToExplain : Known(id)
    BY RowsDiffer DEF ToExplain, PaidInv, CasesKnown, RowsOfRun, Known
  <2>2. \A d \in Callers, id \in CaseIds : Holds(call'[d], id) => Known(id)
    BY <1>3, <1>5, <2>1 DEF PaidInv, CasesKnown
  <2>3. QED
    BY <1>1, <2>2 DEF PaidInv, CasesKnown, Known
<1>9. ASSUME NEW id \in CaseIds \ excused' PROVE PaidFor(id)'
  <2>0. PaidFor(id)
    BY <1>1 DEF PaidInv
  <2>1. CASE Holds(n, id)
    <3>1. id \in ToExplain /\ cases[id] = Blank
      BY <1>5, <2>1 DEF ToExplain
    <3>2. \A d \in Callers : ~Holds(call[d], id)
      BY <1>1, <1>7, <3>1
    <3>3. \A d \in Callers : ~SentFor(call[d], id)
      BY <3>2, HeadInHand DEF Types, IsCall, IsOther, SentFor
    <3>4. paid[id] = 0
      BY <2>0, <3>1, <3>3 DEF PaidFor
    <3>5. \A d \in Callers : Holds(call'[d], id) => d = c
      BY <1>3, <3>2
    <3>6. QED
      BY <1>1, <3>4, <3>5 DEF PaidFor
  <2>2. CASE ~Holds(n, id)
    <3>1. \A d \in Callers : /\ Holds(call'[d], id) <=> Holds(call[d], id)
                             /\ SentFor(call'[d], id) <=> SentFor(call[d], id)
      BY <1>3, <1>5, <1>6, <2>2
    <3>2. QED
      BY <1>1, <2>0, <3>1 DEF PaidFor
  <2>3. QED
    BY <2>1, <2>2
<1>10. QED
  BY <1>8, <1>9 DEF PaidInv

\* A restart drops what was in hand, and excuses it.
LEMMA RestartDrops == Types /\ PaidInv /\ RowsOfRun' /\ RestartBackend => PaidInv'
<1> SUFFICES ASSUME Types, PaidInv, RowsOfRun', RestartBackend PROVE PaidInv'
  OBVIOUS
<1>1. /\ UNCHANGED <<run, status, cases, paid>>
      /\ \A c \in Callers : call'[c] = Idle
      /\ excused' = excused \cup {id \in CaseIds : \E c \in Callers : id \in InHand(c)}
  BY DEF RestartBackend, suiteRow, rows
<1>2. CasesKnown'
  BY <1>1, IdleHoldsNothing DEF PaidInv, CasesKnown, Known
<1>3. ASSUME NEW id \in CaseIds \ excused' PROVE PaidFor(id)'
  <2>1. PaidFor(id)
    BY <1>1 DEF PaidInv
  <2>2. \A c \in Callers : ~Holds(call[c], id)
    BY <1>1 DEF Holds, InHand, Working
  <2>3. \A c \in Callers : ~SentFor(call[c], id)
    BY <2>2, HeadInHand DEF Types, IsCall, IsOther, SentFor
  <2>4. QED
    BY <1>1, <2>1, <2>3, IdleHoldsNothing DEF PaidFor
<1>4. QED
  BY <1>2, <1>3 DEF PaidInv

\* A request that fails drops what it had in hand, and excuses the case whose
\* answer it was to store; what it had not sent for it has not paid for.
LEMMA FailureDrops ==
    ASSUME Types, PaidInv, RowsOfRun', NEW c \in Callers, RequestFails(c) PROVE PaidInv'
<1> DEFINE w == call[c]
<1>1. /\ UNCHANGED <<run, status, cases, paid>> /\ Becomes(c, Idle)
      /\ w.at # "asked"
      /\ excused' = IF w.at = "store" /\ w.kind = "explain"
                    THEN excused \cup {Head(w.todo)} ELSE excused
  BY DEF RequestFails, At, suiteRow, rows
<1>2. call'[c] = Idle /\ \A d \in Callers \ {c} : call'[d] = call[d]
  BY <1>1, Moves
<1>3. \A d \in Callers, id \in CaseIds :
         /\ Holds(call'[d], id) => Holds(call[d], id)
         /\ SentFor(call'[d], id) => SentFor(call[d], id)
         /\ d # c => (SentFor(call'[d], id) <=> SentFor(call[d], id))
         /\ d = c => ~Holds(call'[d], id)
  BY <1>2, IdleHoldsNothing
<1>4. CasesKnown'
  BY <1>1, <1>3 DEF PaidInv, CasesKnown, Known
<1>5. ASSUME NEW id \in CaseIds \ excused' PROVE PaidFor(id)'
  <2>1. PaidFor(id)
    BY <1>1 DEF PaidInv
  <2>2. ~SentFor(w, id)
    BY <1>1 DEF SentFor
  <2>3. \A d \in Callers : SentFor(call'[d], id) <=> SentFor(call[d], id)
    BY <1>3, <2>2
  <2>4. QED
    BY <1>1, <1>3, <2>1, <2>3 DEF PaidFor
<1>6. QED
  BY <1>4, <1>5 DEF PaidInv

LEMMA PaidHolds == Spec => []PaidInv
<1> USE ReportsAssumption
<1>1. Init => PaidInv
  <2> SUFFICES ASSUME Init PROVE PaidInv
    OBVIOUS
  <2>1. /\ \A id \in CaseIds : cases[id] = Absent /\ paid[id] = 0
        /\ \A c \in Callers : call[c] = Idle
    BY DEF Init
  <2>2. \A c \in Callers, id \in CaseIds : ~Holds(call[c], id)
    BY <2>1, IdleHoldsNothing
  <2>3. QED
    BY <2>1, <2>2 DEF PaidInv, CasesKnown, RowsOfRun, PaidFor
<1>2. Types /\ PaidInv /\ RowsOfRun' /\ [Next]_vars => PaidInv'
  <2> SUFFICES ASSUME Types, PaidInv, RowsOfRun', [Next]_vars PROVE PaidInv'
    OBVIOUS
  <2>k. \A w : Keeps(w, w)
    BY DEF Keeps
  <2>1. ASSUME NEW c \in Callers, WalkStep(c) \/ OtherStep(c) PROVE PaidInv'
    <3>1. CASE SendsRequest(c)
      BY <3>1, SendingPays
    <3>2. CASE StoresExplanation(c)
      BY <3>2, StoringKeeps
    <3>3. CASE ReadsFailures(c)
      BY <3>3, ReadingTakes
    <3>4. CASE ~SendsRequest(c) /\ ~StoresExplanation(c) /\ ~ReadsFailures(c)
      <4>1. UNCHANGED <<run, status, cases, paid, excused>>
        BY <2>1, <3>4, Reach
      <4>2. PICK n : Becomes(c, n) /\ Keeps(call[c], n)
        BY <2>1, <3>4, WalkKeeps, OtherKeeps
      <4>3. \A d \in Callers : Keeps(call[d], call'[d])
        BY <2>k, <4>2, Moves
      <4>4. QED
        BY <4>1, <4>3, PaidKept DEF Known
    <3>5. QED
      BY <3>1, <3>2, <3>3, <3>4
  <2>2. CASE RunAgain
    <3>1. /\ run' = run + 1 /\ UNCHANGED <<call, paid, excused>>
          /\ cases' = [id \in CaseIds |-> Absent]
      BY <2>2 DEF RunAgain, payment
    <3>2. \A id \in CaseIds : Known(id) => Known(id)'
      <4>1. \A id \in CaseIds : id[1] \in Nat
        BY DEF CaseIds
      <4>2. QED
        BY <3>1, <4>1 DEF Known, Types
    <3>3. \A id \in CaseIds : cases'[id] # Blank
      BY <3>1, RowsDiffer
    <3>4. QED
      BY <2>k, <3>1, <3>2, <3>3, PaidKept
  <2>3. CASE Completes
    <3>1. /\ status = "running" /\ UNCHANGED <<run, call, paid, excused>>
          /\ \A id \in CaseIds : id[1] # run => cases'[id] = cases[id]
      BY <2>3 DEF Completes, payment
    <3>2. \A id \in CaseIds : Known(id) => id[1] < run
      BY <3>1 DEF Known
    <3>3. \A id \in CaseIds : Known(id) => Known(id)' /\ cases'[id] = cases[id]
      BY <3>1, <3>2 DEF Known, Types
    <3>4. QED
      BY <2>k, <3>1, <3>3, PaidKept
  <2>4. CASE StoresLogs \/ UNCHANGED vars
    <3>1. UNCHANGED <<run, status, cases, call, paid, excused>>
      BY <2>4 DEF StoresLogs, vars, payment
    <3>2. QED
      BY <2>k, <3>1, PaidKept DEF Known
  <2>5. CASE Tick
    <3>1. UNCHANGED <<run, status, cases, paid, excused>>
      BY <2>5 DEF Tick, suiteRow, rows, payment
    <3>2. \A c \in Callers : Keeps(call[c], Ticked(call[c]))
      <4>1. ASSUME NEW c \in Callers PROVE Keeps(call[c], Ticked(call[c]))
        <5>1. CASE IsWork(call[c])
          <6>1. LET w == call[c] n == Ticked(call[c]) IN
                DOMAIN n = DOMAIN w /\ n.kind = w.kind /\ n.todo = w.todo /\ n.at = w.at
            BY <5>1 DEF IsWork, Ticked
          <6>2. QED
            BY <6>1 DEF Keeps, Holds, SentFor
        <5>2. CASE IsOther(call[c])
          BY <2>k, <5>2 DEF IsOther, Ticked
        <5>3. QED
          BY <5>1, <5>2 DEF Types, IsCall
      <4>2. QED
        BY <4>1
    <3>3. \A c \in Callers : Keeps(call[c], call'[c])
      BY <2>5, <3>2, TickIs
    <3>4. QED
      BY <3>1, <3>3, PaidKept DEF Known
  <2>6. CASE RestartBackend
    BY <2>6, RestartDrops
  <2>7. ASSUME NEW c \in Callers, RequestFails(c) PROVE PaidInv'
    BY <2>7, FailureDrops
  <2>8. QED
    BY <2>1, <2>2, <2>3, <2>4, <2>5, <2>6, <2>7, Steps DEF Next
<1>3. EvidenceInv => RowsOfRun
  BY DEF EvidenceInv
<1>4. QED
  BY <1>1, <1>2, <1>3, TypesHold, EvidenceHolds, PTL DEF Spec

-----------------------------------------------------------------------------
(* Keeping.  Captured requests are stored once for each run; until then the  *)
(* run has none, so storing them overwrites no description.                  *)

LogsInv == ~stored => \A id \in LogIds : id[1] = run => logs[id] = Absent

LEMMA LogsHold == Spec => []LogsInv
<1>1. Init => LogsInv
  BY DEF Init, LogsInv
<1>2. Types /\ LogsInv /\ [Next]_vars => LogsInv'
  <2> SUFFICES ASSUME Types, LogsInv, [Next]_vars PROVE LogsInv'
    OBVIOUS
  <2>1. ASSUME NEW c \in Callers, WalkStep(c) \/ OtherStep(c) PROVE LogsInv'
    <3>1. UNCHANGED <<run, stored>>
      BY <2>1, Reach
    <3>2. \A id \in LogIds : logs[id] = Absent => logs'[id] = Absent
      <4>1. CASE UNCHANGED logs
        BY <4>1
      <4>2. CASE \E S \in SUBSET LogIds :
                    /\ \A id \in S : logs[id] # Absent
                    /\ logs' = [id \in LogIds |-> IF id \in S THEN [about |-> id] ELSE logs[id]]
        BY <4>2
      <4>3. QED
        BY <2>1, <4>1, <4>2, Stored, Reach
    <3>3. QED
      BY <3>1, <3>2 DEF LogsInv
  <2>2. CASE RunAgain
    BY <2>2 DEF RunAgain, LogsInv
  <2>3. CASE StoresLogs
    BY <2>3 DEF StoresLogs, LogsInv
  <2>4. CASE Completes \/ Tick \/ RestartBackend \/ UNCHANGED vars
    BY <2>4 DEF Completes, Tick, RestartBackend, LogsInv, suiteRow, rows, vars
  <2>5. ASSUME NEW c \in Callers, RequestFails(c) PROVE LogsInv'
    BY <2>5 DEF RequestFails, LogsInv, suiteRow, rows
  <2>6. QED
    BY <2>1, <2>2, <2>3, <2>4, <2>5, Steps DEF Next
<1>3. QED
  BY <1>1, <1>2, TypesHold, PTL DEF Spec

\* A description is only ever replaced by itself, or goes with its row.
LEMMA DescriptionsStay ==
    Types /\ OwnEvidence /\ LogsInv /\ [Next]_vars => DescribedStays
<1> SUFFICES ASSUME Types, OwnEvidence, LogsInv, [Next]_vars PROVE DescribedStays
  OBVIOUS
<1>1. ASSUME NEW c \in Callers, WalkStep(c) \/ OtherStep(c) PROVE DescribedStays
  <2>1. CASE UNCHANGED logs
    BY <2>1 DEF DescribedStays
  <2>2. CASE \E S \in SUBSET LogIds :
                logs' = [id \in LogIds |-> IF id \in S THEN [about |-> id] ELSE logs[id]]
    <3>1. \A id \in LogIds : logs[id] \in Description => logs[id] = [about |-> id]
      <4>1. ASSUME NEW id \in LogIds, logs[id] \in Description
            PROVE  logs[id] = [about |-> id]
        <5>1. logs[id].about = id
          BY <4>1 DEF OwnEvidence
        <5>2. QED
          BY <4>1, <5>1 DEF Description
      <4>2. QED
        BY <4>1
    <3>2. QED
      BY <2>2, <3>1 DEF DescribedStays
  <2>3. QED
    BY <1>1, <2>1, <2>2, Stored, Reach
<1>2. CASE RunAgain
  BY <1>2 DEF RunAgain, DescribedStays
<1>3. CASE StoresLogs
  <2>1. \A id \in LogIds : id[1] = run => logs[id] \notin Description
    BY <1>3, RowsDiffer DEF StoresLogs, LogsInv
  <2>2. QED
    BY <1>3, <2>1 DEF StoresLogs, DescribedStays
<1>4. CASE Completes \/ Tick \/ RestartBackend \/ UNCHANGED vars
  BY <1>4 DEF Completes, Tick, RestartBackend, DescribedStays, rows, vars
<1>5. ASSUME NEW c \in Callers, RequestFails(c) PROVE DescribedStays
  BY <1>5 DEF RequestFails, DescribedStays, rows
<1>6. QED
  BY <1>1, <1>2, <1>3, <1>4, <1>5, Steps DEF Next

\* What was paid for is kept: no case is paid for twice unless two presses had
\* it in hand or its answer was lost to a restart or a write that threw, and no
\* description is overwritten.
THEOREM PaidIsKept == Spec => PaidForIsKept
<1>1. Types' /\ PaidInv' => PaidOnceUnlessExcused
  <2> SUFFICES ASSUME Types', PaidInv' PROVE PaidOnceUnlessExcused
    OBVIOUS
  <2>1. ASSUME NEW id \in CaseIds, id \notin excused' PROVE ~(paid'[id] > 1)
    <3>1. paid'[id] <= 1
      BY <2>1 DEF PaidInv, PaidFor
    <3>2. paid'[id] \in Nat
      BY DEF Types
    <3>3. QED
      BY <3>1, <3>2
  <2>2. QED
    BY <2>1 DEF PaidOnceUnlessExcused
<1>2. EvidenceInv => OwnEvidence
  BY DEF EvidenceInv
<1>3. QED
  BY <1>1, <1>2, DescriptionsStay, TypesHold, EvidenceHolds, PaidHolds, LogsHold, PTL
     DEF Spec, PaidForIsKept
=============================================================================
