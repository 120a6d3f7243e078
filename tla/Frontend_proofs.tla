-------------------------- MODULE Frontend_proofs --------------------------
(***************************************************************************)
(* Theorems about the pages in the browser: what they remember of their    *)
(* reads across sessions and writes (WebCache), which requests a run's     *)
(* form turns into (RunScope), and the page of a run's captured requests   *)
(* (RequestPage), for any number of roles, operations, rows, requests and  *)
(* turns.                                                                  *)
(***************************************************************************)
EXTENDS WebCache, RunScope, RequestPage, SequenceTheorems, FiniteSetTheorems,
        WellFoundedInduction, TLAPS

-----------------------------------------------------------------------------
(* What the pages remember (WebCache).                                     *)

\* What the backend answers to a key, and what the page keeps of it.
Answers(scr, k) == [role   : IF k = RoleKey(scr) THEN Roles ELSE {"-"},
                    status : IF k \in StatusKey(scr) THEN Statuses ELSE {"-"},
                    did    : BOOLEAN,
                    of     : Nat]

Entries(scr, k) == [answer : Answers(scr, k), age : {"fresh", "stale", "invalid"}]

CacheFits(scr, keys, c) ==
    /\ DOMAIN c = keys
    /\ \A k \in keys : c[k] # NoAnswer => c[k] \in Entries(scr, k)

Reads(scr, k) == [reply : {"none", "200", "4xx", "401"},
                  answer : Answers(scr, k) \cup {NoAnswer}, of : Nat]

ReadsFit(scr, keys, r) ==
    /\ DOMAIN r = keys
    /\ \A k \in keys : r[k] # NoAnswer =>
         /\ r[k] \in Reads(scr, k)
         /\ r[k].reply = "200" => r[k].answer \in Answers(scr, k)

Phases == {"none", "sent", "obeyed", "refused", "unauthorized", "done", "failed"}

WriteFits(scr, keys, w) ==
    /\ w = [phase |-> w.phase, basis |-> w.basis, before |-> w.before, of |-> w.of]
    /\ w.phase \in Phases /\ w.of \in Nat
    /\ CacheFits(scr, keys, w.before)

OwnKeys(o, keys) == keys \cup Effects[o].sets \cup Effects[o].guesses

PastFits(keys, p) ==
    p \in [open : BOOLEAN, turns : Nat, sessions : Nat, revoked : SUBSET Nat,
           endedBy : {"none", "user", "401"}, last : Nat, prefetched : SUBSET keys,
           overtaken : SUBSET keys, late : SUBSET keys]

ScreenFits(scr, keys) ==
    /\ scr \in Screens
    /\ OfProject(scr) => RoleKey(scr) \in keys
    /\ StatusKey(scr) \subseteq keys

WebTypeOK ==
    /\ ScreenFits(screen, Watched)
    /\ world \in [role : Roles, status : Statuses, did : BOOLEAN, has : BOOLEAN]
    /\ CacheFits(screen, Watched, cache) /\ CacheFits(screen, Watched, disk)
    /\ ReadsFit(screen, Watched, reading)
    /\ WriteFits(screen, Watched, write)
    /\ PastFits(OwnKeys(op, Watched), past)
    /\ session \in Nat

LEMMA AnswerNowFits ==
  ASSUME world \in [role : Roles, status : Statuses, did : BOOLEAN, has : BOOLEAN], session \in Nat
  PROVE  \A k : AnswerNow(k) \in Answers(screen, k)
BY DEF AnswerNow, Answers

LEMMA WebTypeInit == WebInit => WebTypeOK
<1> SUFFICES ASSUME WebInit PROVE WebTypeOK
  OBVIOUS
<1> USE DEF WebInit
<1>1. ScreenFits(screen, Watched)
  <2>1. screen \in Screens
    <3>1. {"projects", "run", "generation", "graph"} \subseteq Screens
      BY DEF Screens, Offers
    <3> QED  BY <3>1 DEF ScreensOf
  <2> QED  BY <2>1 DEF ScreenFits, Watched
<1>2. world \in [role : Roles, status : Statuses, did : BOOLEAN, has : BOOLEAN]
  <2>1. PICK role \in Roles \ {"none"}, status \in StatusesOn(screen), has \in BOOLEAN :
          world = [role |-> role, status |-> status, did |-> FALSE, has |-> has]
    OBVIOUS
  <2>2. status \in Statuses
    BY DEF StatusesOn, Statuses
  <2> QED  BY <2>1, <2>2
<1>3. \A k : AnswerNow(k) \in Answers(screen, k)
  BY <1>2, AnswerNowFits
<1>4. CacheFits(screen, Watched, cache) /\ DOMAIN reading = Watched
  BY <1>3 DEF CacheFits, Watched, Entry, Entries
<1>5. CacheFits(screen, Watched, disk) /\ ReadsFit(screen, Watched, reading)
  BY <1>4 DEF CacheFits, ReadsFit, Watched
<1>6. WriteFits(screen, Watched, write) /\ PastFits(OwnKeys(op, Watched), past)
  BY DEF WriteFits, PastFits, Settled, Phases, EmptyCache, CacheFits
<1> QED  BY <1>1, <1>2, <1>4, <1>5, <1>6 DEF WebTypeOK

LEMMA SetInFits ==
  ASSUME NEW scr, NEW keys, NEW c, CacheFits(scr, keys, c), NEW answers,
         \A k \in DOMAIN answers \cap keys : answers[k] \in Answers(scr, k)
  PROVE  CacheFits(scr, keys, SetIn(c, answers))
BY DEF CacheFits, SetIn, Entry, Entries

LEMMA InvalidateInFits ==
  ASSUME NEW scr, NEW keys, NEW c, CacheFits(scr, keys, c), NEW prefixes
  PROVE  CacheFits(scr, keys, InvalidateIn(c, prefixes))
BY DEF CacheFits, InvalidateIn, Entries

LEMMA RemoveInFits ==
  ASSUME NEW scr, NEW keys, NEW c, CacheFits(scr, keys, c), NEW prefixes
  PROVE  CacheFits(scr, keys, RemoveIn(c, prefixes))
BY DEF CacheFits, RemoveIn

LEMMA EmptyFits ==
  ASSUME NEW scr
  PROVE  CacheFits(scr, Watched, EmptyCache) /\ ReadsFit(scr, Watched, EmptyCache)
BY DEF CacheFits, ReadsFit, EmptyCache

LEMMA CancelInFits ==
  ASSUME NEW scr, NEW keys, NEW gone
  PROVE  /\ \A r : ReadsFit(scr, keys, r) => ReadsFit(scr, keys, CancelIn(r, gone))
         /\ \A c : CacheFits(scr, keys, c) => CacheFits(scr, keys, CancelIn(c, gone))
BY DEF ReadsFit, CacheFits, CancelIn

LEMMA SendReadFits ==
  ASSUME WebTypeOK, NEW k \in Watched, SendRead(k)
  PROVE  ReadsFit(screen, Watched, reading')
BY DEF WebTypeOK, ReadsFit, SendRead, Reads

\* What a step keeps, from what it changes.
LEMMA WebTypeKeeps ==
  ASSUME WebTypeOK, op' = op, screen' = screen, DOMAIN cache' = Watched,
         world' \in [role : Roles, status : Statuses, did : BOOLEAN, has : BOOLEAN],
         CacheFits(screen, Watched, cache'), CacheFits(screen, Watched, disk'),
         ReadsFit(screen, Watched, reading'), WriteFits(screen, Watched, write'),
         PastFits(OwnKeys(op, Watched), past'), session' \in Nat
  PROVE  WebTypeOK'
BY DEF WebTypeOK, Watched

LEMMA TurnsCount == WebTypeOK => past.turns \in Nat /\ past.turns + 1 \in Nat
BY DEF WebTypeOK, PastFits

LEMMA WebTypeRead ==
  ASSUME WebTypeOK, NEW k \in Watched,
         StartRead(k) \/ FocusRead(k) \/ PrefetchRead(k)
  PROVE  WebTypeOK'
<1> ReadsFit(screen, Watched, reading')
  BY SendReadFits DEF StartRead, FocusRead, PrefetchRead
<1> PastFits(OwnKeys(op, Watched), past')
  BY DEF WebTypeOK, PastFits, StartRead, FocusRead, PrefetchRead, OwnKeys
<1> QED
  BY WebTypeKeeps DEF WebTypeOK, Watched, StartRead, FocusRead, PrefetchRead

LEMMA WebTypeServe ==
  ASSUME WebTypeOK, NEW k \in Watched, ServeRead(k)
  PROVE  WebTypeOK'
<1> AnswerNow(k) \in Answers(screen, k)
  BY AnswerNowFits DEF WebTypeOK
<1>1. reading[k] \in Reads(screen, k)
  BY DEF WebTypeOK, ReadsFit, ServeRead
<1>2. [AnswerNow(k) EXCEPT !.of = reading[k].of] \in Answers(screen, k)
  BY <1>1 DEF Reads, Answers
<1>3. reading'[k] \in Reads(screen, k) /\ (reading'[k].reply = "200" => reading'[k].answer \in Answers(screen, k))
  BY <1>1, <1>2 DEF WebTypeOK, ReadsFit, Reads, ServeRead
<1>4. ReadsFit(screen, Watched, reading')
  BY <1>3 DEF WebTypeOK, ReadsFit, ServeRead
<1> QED
  BY <1>4, WebTypeKeeps DEF WebTypeOK, Watched, ServeRead

LEMMA WebTypeArrives ==
  ASSUME WebTypeOK, NEW k \in Watched,
         ReadArrives(k) \/ ReadFails(k) \/ ReadUnauthorized(k) \/ ReadLost(k)
  PROVE  WebTypeOK'
<1>1. CASE ReadArrives(k)
  <2>1. CacheFits(screen, Watched, cache')
    BY <1>1, SetInFits DEF WebTypeOK, ReadsFit, ReadArrives
  <2>2. ReadsFit(screen, Watched, reading')
    BY <1>1, CancelInFits DEF WebTypeOK, ReadArrives
  <2>3. PastFits(OwnKeys(op, Watched), past')
    BY <1>1 DEF WebTypeOK, PastFits, OwnKeys, ReadArrives
  <2> QED
    BY <1>1, <2>1, <2>2, <2>3, WebTypeKeeps DEF WebTypeOK, CacheFits, ReadArrives
<1>2. CASE ReadFails(k)
  <2>1. CacheFits(screen, Watched, cache')
    BY <1>2 DEF WebTypeOK, CacheFits, Entries, ReadFails
  <2>2. ReadsFit(screen, Watched, reading')
    BY <1>2, CancelInFits DEF WebTypeOK, ReadFails
  <2>3. PastFits(OwnKeys(op, Watched), past')
    BY <1>2 DEF WebTypeOK, PastFits, OwnKeys, ReadFails
  <2> QED
    BY <1>2, <2>1, <2>2, <2>3, WebTypeKeeps DEF WebTypeOK, CacheFits, ReadFails
<1>3. CASE ReadUnauthorized(k)
  <2>1. PastFits(OwnKeys(op, Watched), past')
    BY <1>3 DEF WebTypeOK, PastFits, OwnKeys, ReadUnauthorized, EndSession
  <2> QED
    BY <1>3, <2>1, EmptyFits, WebTypeKeeps DEF WebTypeOK, CacheFits, ReadUnauthorized, EndSession
<1>4. CASE ReadLost(k)
  <2>1. PastFits(OwnKeys(op, Watched), past')
    BY <1>4 DEF WebTypeOK, PastFits, OwnKeys, ReadLost
  <2>2. ReadsFit(screen, Watched, reading')
    BY <1>4, CancelInFits DEF WebTypeOK, ReadLost
  <2> QED
    BY <1>4, <2>1, <2>2, WebTypeKeeps DEF WebTypeOK, Watched, ReadLost
<1> QED
  BY <1>1, <1>2, <1>3, <1>4

LEMMA PageShows ==
  ASSUME WebTypeOK, PageLoaded
  PROVE  /\ RoleShown \in Roles \cup {"-"} /\ StatusShown \in Statuses \cup {"-"}
         /\ RoleShown = "-" <=> ~OfProject(screen)
         /\ StatusShown = "-" <=> StatusKey(screen) = {}
<1>1. OfProject(screen) => RoleShown \in Roles
  BY DEF WebTypeOK, PageLoaded, Loaded, ScreenFits, CacheFits, Entries, Answers, RoleShown, Shown
<1>2. ASSUME StatusKey(screen) # {} PROVE StatusShown \in Statuses
  <2> DEFINE k == CHOOSE x \in StatusKey(screen) : TRUE
  <2>1. k \in StatusKey(screen)
    BY <1>2
  <2> HIDE DEF k
  <2>2. Shown(k).status \in Statuses
    BY <2>1 DEF WebTypeOK, PageLoaded, Loaded, ScreenFits, CacheFits, Entries, Answers, Shown
  <2> QED  BY <2>2, <1>2 DEF StatusShown, k
<1>3. "-" \notin Roles /\ "-" \notin Statuses
  BY DEF Roles, Statuses
<1> QED
  BY <1>1, <1>2, <1>3 DEF RoleShown, StatusShown

LEMMA WebTypePress == ASSUME WebTypeOK, Press PROVE WebTypeOK'
<1> DEFINE guesses == Effects[op].guesses \cap {k \in Watched : Loaded(k)}
           guessed == [k \in guesses |-> [Shown(k) EXCEPT !.did = TRUE]]
<1>1. \A k \in guesses : guessed[k] \in Answers(screen, k)
  <2> SUFFICES ASSUME NEW k \in guesses
               PROVE  [Shown(k) EXCEPT !.did = TRUE] \in Answers(screen, k)
    OBVIOUS
  <2>1. Shown(k) \in Answers(screen, k)
    BY DEF WebTypeOK, CacheFits, Entries, Loaded, Shown
  <2> QED  BY <2>1 DEF Answers
<1>2. CacheFits(screen, Watched, cache')
  BY <1>1, SetInFits DEF WebTypeOK, Press
<1>3. ReadsFit(screen, Watched, reading')
  BY CancelInFits DEF WebTypeOK, Press
<1>4. CacheFits(screen, Watched, write'.before)
  BY CancelInFits DEF WebTypeOK, Press
<1>5. WriteFits(screen, Watched, write')
  BY <1>4 DEF WebTypeOK, WriteFits, Press, Phases
<1> QED
  BY <1>2, <1>3, <1>5, WebTypeKeeps DEF WebTypeOK, CacheFits, Press

LEMMA WebTypeServeWrite ==
  ASSUME WebTypeOK, ServeWrite \/ RefuseWrite \/ WriteUnauthorized
  PROVE  WebTypeOK'
<1>1. WriteFits(screen, Watched, write')
  BY DEF WebTypeOK, WriteFits, Phases, ServeWrite, RefuseWrite, WriteUnauthorized
<1>2. PastFits(OwnKeys(op, Watched), past')
  BY DEF WebTypeOK, PastFits, WriteFits, OwnKeys, ServeWrite, RefuseWrite, WriteUnauthorized, Obey
<1>3. world' \in [role : Roles, status : Statuses, did : BOOLEAN, has : BOOLEAN]
  BY DEF WebTypeOK, ServeWrite, RefuseWrite, WriteUnauthorized, Obey, StatusAfter, Statuses, Roles
<1> QED
  BY <1>1, <1>2, <1>3, WebTypeKeeps
     DEF WebTypeOK, Watched, ServeWrite, RefuseWrite, WriteUnauthorized, Obey

LEMMA SettledFits ==
  ASSUME WebTypeOK, NEW phase \in Phases
  PROVE  WriteFits(screen, Watched, Settled(phase, write.of))
BY EmptyFits DEF WebTypeOK, WriteFits, Settled

LEMMA ReplyFits ==
  ASSUME WebTypeOK
  PROVE  \A k \in DOMAIN Reply : Reply[k] \in Answers(screen, k) /\ Reply[k].of = write.of
<1>1. \A k : AnswerNow(k) \in Answers(screen, k)
  BY AnswerNowFits DEF WebTypeOK
<1> QED  BY <1>1 DEF Reply, WebTypeOK, WriteFits, Answers

LEMMA WebTypeReply ==
  ASSUME WebTypeOK, WriteSucceeds \/ WriteEndsSession
  PROVE  WebTypeOK'
<1>1. CASE WriteSucceeds
  <2>1. CacheFits(screen, Watched, cache')
    <3>1. CacheFits(screen, Watched, SetIn(cache, Reply))
      BY ReplyFits, SetInFits DEF WebTypeOK
    <3> QED  BY <1>1, <3>1, InvalidateInFits, RemoveInFits DEF WriteSucceeds, Succeeded
  <2>2. ReadsFit(screen, Watched, reading')
    BY <1>1, CancelInFits DEF WebTypeOK, WriteSucceeds
  <2>3. PastFits(OwnKeys(op, Watched), past')
    BY <1>1 DEF WebTypeOK, PastFits, OwnKeys, WriteSucceeds
  <2>4. WriteFits(screen, Watched, write')
    BY <1>1, SettledFits DEF WriteSucceeds, Phases
  <2> QED
    BY <1>1, <2>1, <2>2, <2>3, <2>4, WebTypeKeeps DEF WebTypeOK, CacheFits, WriteSucceeds
<1>2. CASE WriteEndsSession
  <2>1. PastFits(OwnKeys(op, Watched), past')
    BY <1>2 DEF WebTypeOK, PastFits, OwnKeys, WriteEndsSession, EndSession
  <2>2. WriteFits(screen, Watched, write')
    BY <1>2, SettledFits DEF WriteEndsSession, Phases
  <2> QED
    BY <1>2, <2>1, <2>2, EmptyFits, WebTypeKeeps DEF WebTypeOK, CacheFits, WriteEndsSession, EndSession
<1> QED  BY <1>1, <1>2

LEMMA WebTypeFails == ASSUME WebTypeOK, WriteFails PROVE WebTypeOK'
<1> DEFINE e == Effects[op]
           back == [k \in Watched |-> IF k \in e.guesses /\ write.before[k] # NoAnswer
                                      THEN Entry(k, write.before[k].answer) ELSE cache[k]]
<1>1. CacheFits(screen, Watched, back)
  BY DEF WebTypeOK, WriteFits, CacheFits, Entry, Entries
<1>2. CacheFits(screen, Watched, cache')
  BY <1>1, InvalidateInFits DEF WriteFails
<1>3. ReadsFit(screen, Watched, reading')
  BY CancelInFits DEF WebTypeOK, WriteFails
<1>4. PastFits(OwnKeys(op, Watched), past')
  BY TurnsCount DEF WebTypeOK, PastFits, OwnKeys, WriteFails
<1>5. WriteFits(screen, Watched, write')
  BY SettledFits DEF WriteFails, Phases
<1> QED
  BY <1>2, <1>3, <1>4, <1>5, WebTypeKeeps DEF WebTypeOK, CacheFits, WriteFails

LEMMA WebTypeUser ==
  ASSUME WebTypeOK,
         \/ LeavePage \/ ReopenPage \/ Ages \/ SignOut \/ SignIn \/ Flush \/ Reload
         \/ StatusMoves \/ RoleMoves \/ Revoke
  PROVE  WebTypeOK'
<1>1. CASE LeavePage
  <2>1. ReadsFit(screen, Watched, reading')
    BY <1>1, CancelInFits DEF WebTypeOK, LeavePage
  <2>2. PastFits(OwnKeys(op, Watched), past')
    BY <1>1, TurnsCount DEF WebTypeOK, PastFits, LeavePage
  <2> QED  BY <1>1, <2>1, <2>2, WebTypeKeeps DEF WebTypeOK, Watched, LeavePage
<1>2. CASE ReopenPage
  <2>1. CacheFits(screen, Watched, cache')
    BY <1>2 DEF WebTypeOK, CacheFits, Entries, ReopenPage
  <2>2. PastFits(OwnKeys(op, Watched), past')
    BY <1>2 DEF WebTypeOK, PastFits, ReopenPage
  <2> QED  BY <1>2, <2>1, <2>2, WebTypeKeeps DEF WebTypeOK, CacheFits, ReopenPage
<1>3. CASE Ages
  <2>1. CacheFits(screen, Watched, cache')
    BY <1>3 DEF WebTypeOK, CacheFits, Entries, Ages, Age
  <2> QED  BY <1>3, <2>1, WebTypeKeeps DEF WebTypeOK, CacheFits, Ages
<1>4. CASE SignOut
  <2>1. PastFits(OwnKeys(op, Watched), past')
    BY <1>4 DEF WebTypeOK, PastFits, SignOut, EndSession
  <2> QED
    BY <1>4, <2>1, EmptyFits, WebTypeKeeps DEF WebTypeOK, CacheFits, SignOut, EndSession
<1>5. CASE SignIn
  <2>1. PastFits(OwnKeys(op, Watched), past') /\ past.sessions + 1 \in Nat
    BY <1>5 DEF WebTypeOK, PastFits, SignIn
  <2>2. \A k : [AnswerNow(k) EXCEPT !.of = past.sessions + 1] \in Answers(screen, k)
    <3>1. \A k : AnswerNow(k) \in Answers(screen, k)
      BY AnswerNowFits DEF WebTypeOK
    <3> QED  BY <3>1, <2>1 DEF Answers
  <2>3. CacheFits(screen, Watched, cache')
    BY <1>5, <2>2, SetInFits DEF WebTypeOK, SignIn
  <2> QED  BY <1>5, <2>1, <2>3, WebTypeKeeps DEF WebTypeOK, CacheFits, SignIn
<1>6. CASE Flush
  BY <1>6, WebTypeKeeps DEF WebTypeOK, Watched, Flush
<1>7. CASE Reload
  <2>1. WriteFits(screen, Watched, write')
    BY <1>7, SettledFits DEF WebTypeOK, Reload, Phases
  <2>2. PastFits(OwnKeys(op, Watched), past')
    BY <1>7 DEF WebTypeOK, PastFits, Reload
  <2> QED  BY <1>7, <2>1, <2>2, EmptyFits, WebTypeKeeps DEF WebTypeOK, CacheFits, Reload
<1>8. CASE StatusMoves \/ RoleMoves \/ Revoke
  <2>1. PastFits(OwnKeys(op, Watched), past')
    <3>1. past' = [past EXCEPT !.turns = @ + 1]
            \/ past' = [past EXCEPT !.turns = @ + 1, !.revoked = @ \cup {session}]
      BY <1>8 DEF StatusMoves, RoleMoves, Revoke
    <3>2. past.revoked \cup {session} \in SUBSET Nat
      BY DEF WebTypeOK, PastFits
    <3> QED  BY <3>1, <3>2, TurnsCount DEF WebTypeOK, PastFits
  <2>2. world' \in [role : Roles, status : Statuses, did : BOOLEAN, has : BOOLEAN]
    <3>1. \A s \in Follows(screen, world.status) : s \in Statuses
      BY DEF Follows, Statuses
    <3>2. CASE StatusMoves
      BY <3>1, <3>2 DEF WebTypeOK, StatusMoves
    <3>3. CASE RoleMoves
      BY <3>3 DEF WebTypeOK, RoleMoves
    <3>4. CASE Revoke
      BY <3>4 DEF WebTypeOK, Revoke
    <3> QED  BY <1>8, <3>2, <3>3, <3>4
  <2> QED
    BY <1>8, <2>1, <2>2, WebTypeKeeps DEF WebTypeOK, Watched, StatusMoves, RoleMoves, Revoke
<1> QED
  BY <1>1, <1>2, <1>3, <1>4, <1>5, <1>6, <1>7, <1>8

LEMMA WebTypeStep == WebTypeOK /\ [WebNext]_webVars => WebTypeOK'
<1> SUFFICES ASSUME WebTypeOK, [WebNext]_webVars PROVE WebTypeOK'
  OBVIOUS
<1>1. CASE UNCHANGED webVars
  BY <1>1 DEF webVars, WebTypeOK, Watched
<1>2. CASE WebNext
  BY <1>2, WebTypeRead, WebTypeServe, WebTypeArrives, WebTypePress, WebTypeServeWrite,
     WebTypeReply, WebTypeFails, WebTypeUser DEF WebNext
<1> QED  BY <1>1, <1>2

\* Type correctness: every variable keeps its type in every behaviour.
THEOREM WebTypeCorrect == WebSpec => []WebTypeOK
BY WebTypeInit, WebTypeStep, PTL DEF WebSpec

-----------------------------------------------------------------------------
\* The answers of c, those of late aside, were given to session n.
OfSession(keys, late, c, n) ==
    \A k \in keys \ late : c[k] # NoAnswer => n # 0 /\ c[k].answer.of = n

\* A read in flight is of the session there, and a read refused for its
\* session is of one that was revoked.
ReadsOfSession ==
    \A k \in Watched : reading[k] # NoAnswer =>
       /\ session # 0 /\ reading[k].of = session
       /\ reading[k].reply = "200" => reading[k].answer.of = session
       /\ reading[k].reply = "401" => session \in past.revoked

\* What a write keeps for its undoing is of the session that pressed it.
WriteOfSession ==
    /\ write.phase # "none" => write.of # 0
    /\ OfSession(Watched, past.late, write.before, write.of)

\* All that is kept, in memory, on disk and on the way, is of the session there.
SessionsInv ==
    /\ OfSession(Watched, past.late, cache, session)
    /\ OfSession(Watched, past.late, disk, session)
    /\ ReadsOfSession /\ WriteOfSession
    /\ session <= past.sessions
    /\ past.endedBy = "401" => past.last \in past.revoked

LEMMA SessionsInit == WebInit => SessionsInv
BY DEF WebInit, SessionsInv, OfSession, ReadsOfSession, WriteOfSession, Settled, EmptyCache,
       AnswerNow, Entry, Watched

LEMMA LateGrows ==
  ASSUME NEW keys, NEW late, NEW more, NEW c, NEW n, OfSession(keys, late, c, n)
  PROVE  OfSession(keys, late \cup more, c, n)
BY DEF OfSession

LEMMA SetInOf ==
  ASSUME NEW scr, NEW keys, NEW late, NEW n, NEW c, NEW answers,
         CacheFits(scr, keys, c), OfSession(keys, late, c, n),
         \A k \in (DOMAIN answers \cap keys) \ late : n # 0 /\ answers[k].of = n
  PROVE  OfSession(keys, late, SetIn(c, answers), n)
BY DEF CacheFits, OfSession, SetIn, Entry

LEMMA InvalidateInOf ==
  ASSUME NEW scr, NEW keys, NEW late, NEW n, NEW c, NEW prefixes,
         CacheFits(scr, keys, c), OfSession(keys, late, c, n)
  PROVE  OfSession(keys, late, InvalidateIn(c, prefixes), n)
BY DEF CacheFits, OfSession, InvalidateIn, Entries

LEMMA RemoveInOf ==
  ASSUME NEW scr, NEW keys, NEW late, NEW n, NEW c, NEW prefixes,
         CacheFits(scr, keys, c), OfSession(keys, late, c, n)
  PROVE  OfSession(keys, late, RemoveIn(c, prefixes), n)
BY DEF CacheFits, OfSession, RemoveIn

LEMMA EmptyOf ==
  ASSUME NEW late, NEW n PROVE OfSession(Watched, late, EmptyCache, n)
BY DEF OfSession, EmptyCache

LEMMA SessionsRead ==
  ASSUME WebTypeOK, SessionsInv, NEW k \in Watched,
         StartRead(k) \/ FocusRead(k) \/ PrefetchRead(k)
  PROVE  SessionsInv'
<1>1. session # 0 /\ SendRead(k)
  BY DEF StartRead, FocusRead, PrefetchRead, Due, Observed
<1>2. UNCHANGED <<op, screen, world, cache, write, session, disk>>
  BY DEF StartRead, FocusRead, PrefetchRead
<1>3. /\ past'.late = past.late /\ past'.revoked = past.revoked /\ past'.last = past.last
      /\ past'.endedBy = past.endedBy /\ past'.sessions = past.sessions
  BY DEF WebTypeOK, PastFits, StartRead, FocusRead, PrefetchRead
<1>4. ReadsOfSession'
  BY <1>1, <1>2, <1>3 DEF SessionsInv, ReadsOfSession, SendRead, WebTypeOK, ReadsFit, Watched
<1> QED
  BY <1>2, <1>3, <1>4 DEF SessionsInv, WriteOfSession, Watched

LEMMA SessionsServe ==
  ASSUME WebTypeOK, SessionsInv, NEW k \in Watched, ServeRead(k)
  PROVE  SessionsInv'
<1>1. UNCHANGED <<op, screen, world, cache, write, session, disk, past>>
  BY DEF ServeRead
<1>2. reading[k].of = session /\ reading[k] \in Reads(screen, k) /\ reading[k] # NoAnswer
  BY DEF ServeRead, SessionsInv, ReadsOfSession, WebTypeOK, ReadsFit
<1>3. ReadsOfSession'
  <2>1. /\ reading'[k].of = session
        /\ reading'[k].reply = "200" => reading'[k].answer.of = session
        /\ reading'[k].reply = "401" => session \in past.revoked
    <3>1. [AnswerNow(k) EXCEPT !.of = reading[k].of].of = session
      BY <1>2 DEF AnswerNow
    <3> QED  BY <1>2, <3>1 DEF ServeRead, Reads, WebTypeOK, ReadsFit
  <2>2. \A x \in Watched : x # k => reading'[x] = reading[x]
    BY DEF ServeRead, WebTypeOK, ReadsFit
  <2> QED
    BY <2>1, <2>2, <1>1, <1>2 DEF ReadsOfSession, SessionsInv, Watched
<1> QED
  BY <1>1, <1>3 DEF SessionsInv, WriteOfSession, Watched

LEMMA CancelInOf ==
  ASSUME WebTypeOK, SessionsInv, NEW gone, reading' = CancelIn(reading, gone),
         session' = session, past'.revoked = past.revoked, DOMAIN cache' = Watched
  PROVE  ReadsOfSession'
BY DEF WebTypeOK, ReadsFit, SessionsInv, ReadsOfSession, CancelIn, Watched

\* A session's end leaves nothing of it.
LEMMA SessionsEnd ==
  ASSUME WebTypeOK, SessionsInv, NEW by, EndSession(by),
         by = "401" => session \in past.revoked,
         write'.of = write.of, write'.before = write.before \/ write'.before = EmptyCache,
         write'.phase # "none" => write.phase # "none"
  PROVE  SessionsInv'
<1>1. DOMAIN cache' = Watched
  BY DEF EndSession, EmptyCache
<1>2. /\ past'.late = past.late /\ past'.revoked = past.revoked /\ past'.last = session
      /\ past'.endedBy = by /\ past'.sessions = past.sessions /\ past.sessions \in Nat
  BY DEF EndSession, WebTypeOK, PastFits
<1>3. OfSession(Watched, past.late, cache', 0) /\ OfSession(Watched, past.late, disk', 0)
  BY EmptyOf DEF EndSession
<1>4. ReadsOfSession'
  BY <1>1 DEF ReadsOfSession, EndSession, EmptyCache, Watched
<1>5. WriteOfSession'
  BY <1>1, <1>2, EmptyOf DEF SessionsInv, WriteOfSession, Watched
<1> QED
  BY <1>1, <1>2, <1>3, <1>4, <1>5 DEF SessionsInv, EndSession, Watched

LEMMA SessionsArrive ==
  ASSUME WebTypeOK, SessionsInv, NEW k \in Watched,
         ReadArrives(k) \/ ReadFails(k) \/ ReadUnauthorized(k) \/ ReadLost(k)
  PROVE  SessionsInv'
<1>1. CASE ReadUnauthorized(k)
  BY <1>1, SessionsEnd DEF ReadUnauthorized, SessionsInv, ReadsOfSession
<1>2. CASE ReadArrives(k) \/ ReadFails(k) \/ ReadLost(k)
  <2>1. /\ UNCHANGED <<op, screen, world, write, session, disk>>
        /\ reading' = CancelIn(reading, {k})
    BY <1>2 DEF ReadArrives, ReadFails, ReadLost
  <2>2. /\ past'.late = past.late /\ past'.revoked = past.revoked /\ past'.last = past.last
        /\ past'.endedBy = past.endedBy /\ past'.sessions = past.sessions
    BY <1>2 DEF WebTypeOK, PastFits, ReadArrives, ReadFails, ReadLost
  <2>3. DOMAIN cache' = Watched /\ OfSession(Watched, past.late, cache', session)
    <3>1. CASE ReadArrives(k)
      <4>1. OfSession(Watched, past.late, SetIn(cache, [x \in {k} |-> reading[x].answer]), session)
        BY <3>1, SetInOf DEF ReadArrives, SessionsInv, ReadsOfSession, WebTypeOK
      <4> QED
        BY <4>1, <3>1 DEF ReadArrives, SetIn, WebTypeOK, CacheFits
    <3>2. CASE ReadFails(k)
      BY <3>2 DEF ReadFails, SessionsInv, OfSession, WebTypeOK, CacheFits, Entries
    <3>3. CASE ReadLost(k)
      BY <3>3 DEF ReadLost, SessionsInv, Watched
    <3> QED  BY <1>2, <3>1, <3>2, <3>3
  <2>4. ReadsOfSession'
    BY <2>1, <2>2, <2>3, CancelInOf
  <2> QED
    BY <2>1, <2>2, <2>3, <2>4 DEF SessionsInv, WriteOfSession, Watched
<1> QED
  BY <1>1, <1>2

LEMMA SessionsPress == ASSUME WebTypeOK, SessionsInv, Press PROVE SessionsInv'
<1> DEFINE guesses == Effects[op].guesses \cap {k \in Watched : Loaded(k)}
           guessed == [k \in guesses |-> [Shown(k) EXCEPT !.did = TRUE]]
<1>1. \A k \in (DOMAIN guessed \cap Watched) \ past.late :
          session # 0 /\ guessed[k].of = session
  <2> SUFFICES ASSUME NEW k \in guesses \ past.late
               PROVE  session # 0 /\ [Shown(k) EXCEPT !.did = TRUE].of = session
    OBVIOUS
  <2>1. Shown(k) \in Answers(screen, k)
    BY DEF WebTypeOK, CacheFits, Entries, Loaded, Shown
  <2> QED
    BY <2>1 DEF Answers, SessionsInv, OfSession, Loaded, Shown
<1>2. OfSession(Watched, past.late, cache', session)
  BY <1>1, SetInOf DEF Press, SessionsInv, WebTypeOK
<1>3. DOMAIN cache' = Watched
  BY DEF Press, SetIn, Watched
<1>4. ReadsOfSession'
  BY <1>3, CancelInOf DEF Press
<1>5. OfSession(Watched, past.late, write'.before, session) /\ write'.of = session
  BY DEF Press, CancelIn, SessionsInv, OfSession, Watched
<1> QED
  BY <1>2, <1>3, <1>4, <1>5 DEF Press, SessionsInv, WriteOfSession, Watched

LEMMA SessionsServeWrite ==
  ASSUME WebTypeOK, SessionsInv, ServeWrite \/ RefuseWrite \/ WriteUnauthorized
  PROVE  SessionsInv'
<1>1. /\ UNCHANGED <<op, screen, cache, reading, session, disk>>
      /\ write.phase # "none" /\ write'.of = write.of /\ write'.before = write.before
  BY DEF WebTypeOK, WriteFits, ServeWrite, RefuseWrite, WriteUnauthorized
<1>2. /\ past'.late = past.late /\ past.revoked \subseteq past'.revoked /\ past'.last = past.last
      /\ past'.endedBy = past.endedBy /\ past'.sessions = past.sessions
  BY DEF WebTypeOK, PastFits, ServeWrite, RefuseWrite, WriteUnauthorized, Obey
<1>3. ReadsOfSession'
  BY <1>1, <1>2 DEF SessionsInv, ReadsOfSession, Watched
<1> QED
  BY <1>1, <1>2, <1>3 DEF SessionsInv, WriteOfSession, Watched

LEMMA SessionsReply ==
  ASSUME WebTypeOK, SessionsInv, WriteSucceeds \/ WriteEndsSession
  PROVE  SessionsInv'
<1>1. CASE WriteEndsSession
  BY <1>1, SessionsEnd DEF WriteEndsSession, Settled
<1>2. CASE WriteSucceeds
  <2> USE <1>2 DEF WriteSucceeds
  <2> DEFINE late == IF session = write.of THEN past.late ELSE past.late \cup Effects[op].sets
  <2>1. /\ past'.late = late /\ past'.revoked = past.revoked /\ past'.last = past.last
        /\ past'.endedBy = past.endedBy /\ past'.sessions = past.sessions
    BY DEF WebTypeOK, PastFits
  <2>2. \A k \in (DOMAIN Reply \cap Watched) \ late : session # 0 /\ Reply[k].of = session
    BY ReplyFits DEF Reply, SessionsInv, WriteOfSession
  <2>3. /\ OfSession(Watched, late, cache, session) /\ OfSession(Watched, late, disk, session)
        /\ OfSession(Watched, late, write.before, write.of)
    BY LateGrows DEF SessionsInv, WriteOfSession
  <2> HIDE DEF late
  <2>4. OfSession(Watched, late, SetIn(cache, Reply), session)
        /\ CacheFits(screen, Watched, SetIn(cache, Reply))
    BY <2>2, <2>3, SetInOf, SetInFits, ReplyFits DEF WebTypeOK
  <2>5. OfSession(Watched, late, cache', session) /\ CacheFits(screen, Watched, cache')
    BY <2>4, InvalidateInOf, InvalidateInFits, RemoveInOf, RemoveInFits DEF Succeeded
  <2>6. ReadsOfSession'
    BY <2>1, <2>5, CancelInOf DEF CacheFits
  <2>7. OfSession(Watched, late, write'.before, write'.of)
    BY EmptyOf DEF Settled
  <2> QED
    BY <2>1, <2>3, <2>5, <2>6, <2>7 DEF SessionsInv, WriteOfSession, CacheFits, Watched, Settled
<1> QED
  BY <1>1, <1>2

LEMMA SessionsFails == ASSUME WebTypeOK, SessionsInv, WriteFails PROVE SessionsInv'
<1> USE DEF WriteFails
<1> DEFINE e == Effects[op]
           late == IF session = write.of THEN past.late ELSE past.late \cup e.guesses
           back == [k \in Watched |-> IF k \in e.guesses /\ write.before[k] # NoAnswer
                                      THEN Entry(k, write.before[k].answer) ELSE cache[k]]
<1>1. /\ past'.late = late /\ past'.revoked = past.revoked /\ past'.last = past.last
      /\ past'.endedBy = past.endedBy /\ past'.sessions = past.sessions
  BY DEF WebTypeOK, PastFits
<1>2. /\ OfSession(Watched, late, cache, session) /\ OfSession(Watched, late, disk, session)
      /\ OfSession(Watched, late, write.before, write.of)
  BY LateGrows DEF SessionsInv, WriteOfSession
<1>3. OfSession(Watched, late, back, session)
  BY <1>2 DEF OfSession, Entry
<1>4. CacheFits(screen, Watched, back)
  BY DEF WebTypeOK, WriteFits, CacheFits, Entry, Entries
<1>5. OfSession(Watched, late, cache', session) /\ CacheFits(screen, Watched, cache')
  <2> HIDE DEF late
  <2> QED  BY <1>3, <1>4, InvalidateInOf, InvalidateInFits
<1>6. ReadsOfSession'
  BY <1>1, <1>5, CancelInOf DEF CacheFits
<1>7. OfSession(Watched, late, write'.before, write'.of)
  BY EmptyOf DEF Settled
<1> QED
  BY <1>1, <1>2, <1>5, <1>6, <1>7
     DEF SessionsInv, WriteOfSession, CacheFits, Watched, Settled

LEMMA SessionsUser ==
  ASSUME WebTypeOK, SessionsInv,
         \/ LeavePage \/ ReopenPage \/ Ages \/ SignOut \/ SignIn \/ Flush \/ Reload
         \/ StatusMoves \/ RoleMoves \/ Revoke
  PROVE  SessionsInv'
<1>1. CASE SignOut
  BY <1>1, SessionsEnd DEF SignOut
<1>2. CASE SignIn
  <2>1. /\ past'.late = past.late /\ past'.revoked = past.revoked /\ past'.last = past.last
        /\ past'.endedBy = past.endedBy /\ past'.sessions = past.sessions + 1
        /\ past.sessions \in Nat
    BY <1>2 DEF WebTypeOK, PastFits, SignIn
  <2>2. /\ OfSession(Watched, past.late, cache, session')
        /\ OfSession(Watched, past.late, disk, session')
    BY <1>2 DEF SessionsInv, OfSession, SignIn
  <2>3. \A k : [AnswerNow(k) EXCEPT !.of = past.sessions + 1].of = past.sessions + 1
    BY DEF AnswerNow
  <2>4. session' # 0 /\ session' <= past'.sessions /\ session' = past.sessions + 1
    BY <1>2, <2>1 DEF SignIn
  <2>5. OfSession(Watched, past.late, cache', session')
    BY <1>2, <2>2, <2>3, <2>4, SetInOf DEF SignIn, WebTypeOK
  <2>6. DOMAIN cache' = Watched
    BY <1>2 DEF SignIn, SetIn, Watched
  <2>7. ReadsOfSession'
    BY <1>2, <2>6 DEF SignIn, SessionsInv, ReadsOfSession, Watched
  <2> QED
    BY <1>2, <2>1, <2>2, <2>4, <2>5, <2>6, <2>7 DEF SignIn, SessionsInv, WriteOfSession, Watched
<1>3. CASE \/ LeavePage \/ ReopenPage \/ Ages \/ Flush \/ Reload
           \/ StatusMoves \/ RoleMoves \/ Revoke
  <2>1. session' = session
    BY <1>3 DEF LeavePage, ReopenPage, Ages, Flush, Reload, StatusMoves, RoleMoves, Revoke
  <2>2. /\ past'.late = past.late /\ past.revoked \subseteq past'.revoked
        /\ past'.last = past.last
        /\ past'.endedBy = past.endedBy /\ past'.sessions = past.sessions
    <3>1. CASE Revoke
      BY <3>1 DEF WebTypeOK, PastFits, Revoke
    <3>2. CASE Ages \/ Flush
      BY <3>2 DEF Ages, Flush
    <3>3. CASE LeavePage \/ ReopenPage
      BY <3>3 DEF WebTypeOK, PastFits, LeavePage, ReopenPage
    <3>4. CASE Reload \/ StatusMoves \/ RoleMoves
      BY <3>4 DEF WebTypeOK, PastFits, Reload, StatusMoves, RoleMoves
    <3> QED  BY <1>3, <3>1, <3>2, <3>3, <3>4
  <2>3. /\ DOMAIN cache' = Watched
        /\ OfSession(Watched, past.late, cache', session)
        /\ OfSession(Watched, past.late, disk', session)
    <3>1. CASE ReopenPage
      <4>1. /\ DOMAIN cache' = Watched /\ disk' = disk
            /\ \A k \in Watched : cache'[k] # NoAnswer =>
                  cache[k] # NoAnswer /\ cache'[k].answer = cache[k].answer
        BY <3>1 DEF ReopenPage, WebTypeOK, CacheFits, Entries
      <4> QED
        BY <4>1 DEF SessionsInv, OfSession
    <3>2. CASE Ages
      BY <3>2 DEF Ages, Age, SessionsInv, OfSession, WebTypeOK, CacheFits, Entries
    <3>3. CASE Flush \/ Reload
      BY <3>3 DEF Flush, Reload, SessionsInv, WebTypeOK, CacheFits, Watched
    <3>4. CASE LeavePage \/ StatusMoves \/ RoleMoves \/ Revoke
      BY <3>4 DEF LeavePage, StatusMoves, RoleMoves, Revoke, SessionsInv, Watched
    <3> QED  BY <1>3, <3>1, <3>2, <3>3, <3>4
  <2>4. ReadsOfSession'
    <3>1. \A k \in Watched : reading'[k] # NoAnswer => reading'[k] = reading[k]
      BY <1>3 DEF LeavePage, ReopenPage, Ages, Flush, Reload, StatusMoves, RoleMoves, Revoke,
                  CancelIn, EmptyCache, WebTypeOK, ReadsFit
    <3> QED
      BY <3>1, <2>1, <2>2, <2>3 DEF ReadsOfSession, SessionsInv, Watched
  <2>5. WriteOfSession'
    <3>1. write' = write \/ (write.phase # "none" /\ write' = Settled("failed", write.of))
      BY <1>3 DEF LeavePage, ReopenPage, Ages, Flush, Reload, StatusMoves, RoleMoves, Revoke
    <3> QED
      BY <3>1, <2>2, <2>3, EmptyOf DEF WriteOfSession, SessionsInv, Settled, Watched
  <2> QED
    BY <2>1, <2>2, <2>3, <2>4, <2>5 DEF SessionsInv, Watched
<1> QED
  BY <1>1, <1>2, <1>3

LEMMA SessionsStep == WebTypeOK /\ SessionsInv /\ [WebNext]_webVars => SessionsInv'
<1> SUFFICES ASSUME WebTypeOK, SessionsInv, [WebNext]_webVars PROVE SessionsInv'
  OBVIOUS
<1>1. CASE UNCHANGED webVars
  BY <1>1 DEF webVars, SessionsInv, ReadsOfSession, WriteOfSession, OfSession, Watched
<1>2. CASE WebNext
  BY <1>2, SessionsRead, SessionsServe, SessionsArrive, SessionsPress, SessionsServeWrite,
     SessionsReply, SessionsFails, SessionsUser DEF WebNext
<1> QED  BY <1>1, <1>2

\* However signing in and out, reloads, late answers and revocations interleave,
\* no page shows what was answered to another session, but for what a write that
\* outlived its own put there, and a session that ended with a 401 was revoked.
THEOREM NothingOutlivesItsSession == WebSpec => []SessionsAreSound
<1>1. SessionsInv => SessionsAreSound
  BY DEF SessionsInv, SessionsAreSound, OfSession, Loaded, Shown
<1> QED
  BY <1>1, WebTypeInit, SessionsInit, WebTypeStep, SessionsStep, PTL DEF WebSpec

-----------------------------------------------------------------------------
\* What a page offers to a role at a status the backend admits at them, be it
\* on a page that goes by neither, where what is offered blindly has what it needs.
LEMMA OfferedIsAdmitted ==
  ASSUME WebTypeOK, NEW role, NEW status, op \in Offers(role, status)[screen],
         op \in OfferedBlindly => world.has,
         role = world.role \/ ~OfProject(screen), status = world.status \/ StatusKey(screen) = {}
  PROVE  Admits(op, world.role, world.status, world.has)
<1> USE DEF Offers, OfProject, StatusKey
<1>1. screen \in {"projects", "overview", "team", "invitations", "runs", "run", "endpoints", "spec",
                  "generation", "graph", "settings", "llm"}
  BY DEF Screens, WebTypeOK, ScreenFits
<1>2. world.role \in Roles /\ world.status \in Statuses /\ world.has \in BOOLEAN
  BY DEF WebTypeOK
<1>3. CASE screen \in {"projects", "overview", "team", "runs", "endpoints", "spec"}
  <2>1. role = world.role
    BY <1>3
  <2>2. CASE screen = "projects"
    BY <1>2, <2>1, <2>2 DEF ProjectsOffers, Admits, SaveProjectAdmits, DeleteProjectAdmits
  <2>3. CASE screen = "overview"
    BY <1>2, <2>1, <2>3 DEF ProjectOffers, Admits, SaveProjectAdmits, DeleteProjectAdmits
  <2>4. CASE screen = "team"
    BY <1>2, <2>1, <2>4 DEF TeamMembersOffers, TeamInvitationsOffers, CanManage, Admits, Roles,
       AssertAccess, ChangeRoleAdmits, RemoveMemberAdmits, LeaveAdmits, InviteAdmits, RevokeAdmits
  <2>5. CASE screen = "runs"
    BY <1>2, <2>1, <2>5 DEF RunsOffers, CanRun, CanManage, Admits, Roles, AssertAccess,
       CreateRunAdmits, DeleteRunAdmits, OfferedBlindly
  <2>6. CASE screen = "endpoints"
    BY <1>2, <2>1, <2>6 DEF EndpointsOffers, CanManage, Admits, Roles, AssertAccess,
       AddEndpointAdmits, DeleteEndpointAdmits
  <2>7. CASE screen = "spec"
    BY <1>2, <2>1, <2>7 DEF SpecOffers, CanManage, Admits, Roles, AssertAccess,
       UploadSpecAdmits, DeleteSpecAdmits
  <2> QED  BY <1>3, <2>2, <2>3, <2>4, <2>5, <2>6, <2>7
<1>4. CASE screen \in {"run", "generation", "graph"}
  <2>1. role = world.role /\ status = world.status
    BY <1>4
  <2>2. CASE screen = "run"
    BY <1>2, <2>1, <2>2 DEF RunOffers, CanRun, CanManage, Admits, Roles, Statuses, AssertAccess,
       RunAdmits, ReplayAdmits, ExplainAdmits, DescribeAdmits, OfferedBlindly
  <2>3. CASE screen = "generation"
    BY <1>2, <2>1, <2>3 DEF GenerationOffers, CanManage, Admits, Roles, Statuses, AssertAccess,
       GenerateAdmits, ApplyAdmits, DiscardAdmits
  <2>4. CASE screen = "graph"
    BY <1>2, <2>1, <2>4 DEF GraphOffers, CanRun, CanManage, Admits, Roles, AssertAccess,
       BuildAdmits, OfferedBlindly
  <2> QED  BY <1>4, <2>2, <2>3, <2>4
<1>5. CASE screen \in {"invitations", "settings", "llm"}
  BY <1>5 DEF InvitationsOffers, SettingsOffers, LlmSettingsOffers, Admits
<1> QED
  BY <1>1, <1>3, <1>4, <1>5

\* What becomes of the write in a step.
LEMMA WriteMoves ==
  ASSUME WebTypeOK, [WebNext]_webVars
  PROVE  \/ Press \/ RefuseWrite
         \/ write' = write
         \/ write'.phase \in {"obeyed", "unauthorized", "done", "failed"}
<1>1. CASE UNCHANGED webVars
  BY <1>1 DEF webVars
<1>2. ASSUME NEW k \in Watched,
             \/ StartRead(k) \/ FocusRead(k) \/ PrefetchRead(k) \/ ServeRead(k)
             \/ ReadArrives(k) \/ ReadFails(k) \/ ReadUnauthorized(k) \/ ReadLost(k)
      PROVE  write' = write
  BY <1>2 DEF StartRead, FocusRead, PrefetchRead, ServeRead, ReadArrives, ReadFails,
              ReadUnauthorized, ReadLost
<1>3. CASE \/ Ages \/ LeavePage \/ ReopenPage \/ StatusMoves \/ RoleMoves \/ Revoke
           \/ SignOut \/ SignIn \/ Flush
  BY <1>3 DEF Ages, LeavePage, ReopenPage, StatusMoves, RoleMoves, Revoke, SignOut, SignIn, Flush
<1>4. CASE ServeWrite \/ WriteUnauthorized
  BY <1>4 DEF ServeWrite, WriteUnauthorized, WebTypeOK, WriteFits
<1>5. CASE WriteSucceeds \/ WriteEndsSession \/ WriteFails \/ Reload
  BY <1>5 DEF WriteSucceeds, WriteEndsSession, WriteFails, Reload, Settled
<1> QED
  BY <1>1, <1>2, <1>3, <1>4, <1>5 DEF WebNext

\* The press that is on its way went by what the page showed.
PressedAsOffered ==
    write.phase = "sent" =>
      \E role \in Roles \cup {"-"}, status \in Statuses \cup {"-"} :
        /\ write.basis = <<role, status>> /\ op \in Offers(role, status)[screen]
        /\ role = "-" <=> ~OfProject(screen)
        /\ status = "-" <=> StatusKey(screen) = {}

LEMMA PressedInit == WebInit => PressedAsOffered
BY DEF WebInit, PressedAsOffered, Settled

LEMMA PressedStep == WebTypeOK /\ PressedAsOffered /\ [WebNext]_webVars => PressedAsOffered'
<1> SUFFICES ASSUME WebTypeOK, PressedAsOffered, [WebNext]_webVars
             PROVE  PressedAsOffered'
  OBVIOUS
<1>1. op' = op /\ screen' = screen
  BY DEF webVars, WebNext, StartRead, FocusRead, PrefetchRead, ServeRead, ReadArrives, ReadFails,
         ReadUnauthorized, ReadLost, Ages, Press, ServeWrite, RefuseWrite, WriteUnauthorized,
         WriteSucceeds, WriteEndsSession, WriteFails, LeavePage, ReopenPage, StatusMoves,
         RoleMoves, Revoke, SignOut, SignIn, Flush, Reload
<1>2. Press \/ write' = write \/ write'.phase # "sent"
  BY WriteMoves DEF RefuseWrite, WebTypeOK, WriteFits
<1>3. CASE Press
  BY <1>1, <1>3, PageShows DEF Press, PressedAsOffered
<1> QED
  BY <1>1, <1>2, <1>3 DEF PressedAsOffered

\* The backend refuses a press only if the role or the status the page went by is
\* no longer the project's, or if the press is one of those offered without looking
\* at what they work on and that is not there.
THEOREM PressesAreRefusedForCause == WebSpec => RefusalsHaveCause
<1>1. WebTypeOK /\ PressedAsOffered /\ [WebNext]_webVars =>
        (write.phase = "sent" /\ write'.phase = "refused" =>
           \/ Differs(write.basis[1], world.role)
           \/ Differs(write.basis[2], world.status)
           \/ op \in OfferedBlindly /\ ~world.has)
  <2> SUFFICES ASSUME WebTypeOK, PressedAsOffered, [WebNext]_webVars,
                      write.phase = "sent", write'.phase = "refused",
                      ~Differs(write.basis[1], world.role), ~Differs(write.basis[2], world.status),
                      op \in OfferedBlindly => world.has
               PROVE  FALSE
    OBVIOUS
  <2>1. RefuseWrite
    BY WriteMoves DEF Press
  <2>2. PICK role \in Roles \cup {"-"}, status \in Statuses \cup {"-"} :
          /\ write.basis = <<role, status>> /\ op \in Offers(role, status)[screen]
          /\ role = "-" <=> ~OfProject(screen)
          /\ status = "-" <=> StatusKey(screen) = {}
    BY DEF PressedAsOffered
  <2>3. role = world.role \/ ~OfProject(screen)
    BY <2>2 DEF Differs
  <2>4. status = world.status \/ StatusKey(screen) = {}
    BY <2>2 DEF Differs
  <2>5. Admits(op, world.role, world.status, world.has)
    BY <2>2, <2>3, <2>4, OfferedIsAdmitted
  <2> QED  BY <2>1, <2>5 DEF RefuseWrite
<1> QED
  BY <1>1, WebTypeInit, WebTypeStep, PressedInit, PressedStep, PTL DEF WebSpec, RefusalsHaveCause

-----------------------------------------------------------------------------
\* The keys are sequences of words.
Words == {"me", "my-invitations", "admin", "llm-settings", "projects", "list", "detail", "p",
          "suites", "s", "r", "o", "members", "invitations", "endpoints", "spec", "graph",
          "generation", "history", "report", "log-summary", "logs", "page1"}

Keys == Seq(Words)

LEMMA OneIsASeq == ASSUME NEW S, NEW s \in S PROVE <<s>> \in Seq(S)
<1>1. Append(<<>>, s) = <<s>>
  OBVIOUS
<1>2. Append(<<>>, s) \in Seq(S)
  BY AppendProperties, EmptySeq
<1> QED  BY <1>1, <1>2

LEMMA LongerKey == ASSUME NEW k \in Keys, NEW t \in Keys PROVE k \o t \in Keys
BY DEF Keys

LEMMA OneIsAKey == ASSUME NEW s \in Words PROVE <<s>> \in Keys
BY OneIsASeq DEF Keys

LEMMA PrefixOfItself == ASSUME NEW k \in Keys PROVE IsPrefix(k, k)
BY DEF Keys, IsPrefix

LEMMA PrefixOfLonger == ASSUME NEW k \in Keys, NEW t \in Keys PROVE IsPrefix(k, k \o t)
<1>1. Len(k) <= Len(k \o t) /\ Len(k) \in Nat
  BY DEF Keys
<1>2. CASE Len(k) = 0
  BY <1>1, <1>2 DEF Keys, IsPrefix
<1>3. CASE Len(k) # 0
  <2>1. 1 \in 1..Len(k) /\ Len(k) \in 1..Len(k)
    BY <1>1, <1>3
  <2>2. SubSeq(k \o t, 1, Len(k)) = SubSeq(k, 1, Len(k))
    BY <2>1, SubSeqOfConcat1 DEF Keys
  <2> QED  BY <1>1, <2>2 DEF IsPrefix
<1> QED  BY <1>2, <1>3

LEMMA ProjectKeys ==
  /\ Me \in Keys /\ MyInvitations \in Keys /\ LlmSettings \in Keys /\ ProjectsList \in Keys
  /\ Detail \in Keys
<1>1. "me" \in Words /\ "my-invitations" \in Words
  BY DEF Words
<1>2. Me \in Keys /\ MyInvitations \in Keys
  BY <1>1, OneIsAKey DEF Me, MyInvitations
<1>3. LlmSettings \in Keys /\ ProjectsList \in Keys /\ Detail \in Keys
  BY DEF Keys, Words, LlmSettings, ProjectsList, Detail
<1> QED  BY <1>2, <1>3

LEMMA PartsOfTheProject ==
  \A s \in Words : Part(s) \in Keys /\ IsPrefix(Detail, Part(s))
<1> SUFFICES ASSUME NEW s \in Words PROVE Part(s) \in Keys /\ IsPrefix(Detail, Part(s))
  OBVIOUS
<1> QED  BY OneIsAKey, ProjectKeys, LongerKey, PrefixOfLonger DEF Part

LEMMA SuitesOfTheProject ==
  /\ SuitesList \in Keys /\ IsPrefix(Detail, SuitesList)
  /\ Suite("s") \in Keys /\ Suite("r") \in Keys
<1>1. "suites" \in Words /\ <<"list">> \in Keys
  BY OneIsAKey DEF Words
<1>2. /\ <<"suites", "list">> \in Keys /\ <<"detail", "s">> \in Keys
      /\ <<"detail", "r">> \in Keys
  BY DEF Keys, Words
<1>3. Part("suites") \in Keys
  BY <1>1, PartsOfTheProject
<1>4. SuitesList = Detail \o <<"suites", "list">>
  BY DEF SuitesList, Part, Detail
<1> QED
  BY <1>2, <1>3, <1>4, ProjectKeys, LongerKey, PrefixOfLonger DEF Suite

LEMMA PartsOfASuite ==
  \A n \in Words : PartOfSuite("s", n) \in Keys /\ IsPrefix(Suite("s"), PartOfSuite("s", n))
<1> SUFFICES ASSUME NEW n \in Words
             PROVE  PartOfSuite("s", n) \in Keys /\ IsPrefix(Suite("s"), PartOfSuite("s", n))
  OBVIOUS
<1> QED  BY OneIsAKey, SuitesOfTheProject, LongerKey, PrefixOfLonger DEF PartOfSuite

LEMMA BelowTheProject ==
  /\ IsPrefix(Detail, Part("members")) /\ IsPrefix(Detail, SuitesList)
  /\ IsPrefix(Suite("s"), PartOfSuite("s", "report"))
  /\ IsPrefix(PartOfSuite("s", "logs"), PartOfSuite("s", "logs") \o <<"page1">>)
<1>1. <<"page1">> \in Keys
  BY OneIsAKey DEF Words
<1>2. {"members", "report", "logs"} \subseteq Words
  BY DEF Words
<1>3. IsPrefix(Detail, Part("members"))
  BY <1>2, PartsOfTheProject
<1>4. IsPrefix(Suite("s"), PartOfSuite("s", "report")) /\ PartOfSuite("s", "logs") \in Keys
  BY <1>2, PartsOfASuite
<1> QED  BY <1>1, <1>3, <1>4, SuitesOfTheProject, PrefixOfLonger

LEMMA BelowThemselves ==
  \A k \in {Me, MyInvitations, LlmSettings, ProjectsList, Detail, SuitesList, Part("members"),
            Part("invitations"), Part("endpoints"), Part("spec"), Part("graph"),
            Part("generation"), Suite("s"), Suite("r"), PartOfSuite("s", "history"),
            PartOfSuite("s", "report")} : IsPrefix(k, k)
<1>1. \A s \in {"members", "invitations", "endpoints", "spec", "graph", "generation"} :
        Part(s) \in Keys
  BY PartsOfTheProject DEF Words
<1>2. \A s \in {"history", "report"} : PartOfSuite("s", s) \in Keys
  BY PartsOfASuite DEF Words
<1> QED
  BY <1>1, <1>2, ProjectKeys, SuitesOfTheProject, PrefixOfItself

\* What a page gives up of its cache, or asks for again, when the operation succeeds.
Refreshed(e) == e.invalidates \cup e.afterwards \cup e.refetches \cup e.removes

\* What an operation changes and its page neither fills in nor refreshes, it
\* leaves to age.
Handled(o, e, k) ==
    \/ k \in e.sets
    \/ \E p \in Refreshed(e) : IsPrefix(p, k)
    \/ <<o, k>> \in LeftToAge

LEMMA EffectsAre ==
  /\ Effects["createProject"] = CreateProject
  /\ Effects["saveProject"] = SaveProject
  /\ Effects["saveProjectHere"] = SaveProjectHere
  /\ Effects["deleteProject"] = DeleteProject
  /\ Effects["changeRole"] = ChangeRole
  /\ Effects["removeMember"] = RemoveMember
  /\ Effects["leaveProject"] = LeaveProject
  /\ Effects["inviteMember"] = InviteMember
  /\ Effects["revokeInvitation"] = RevokeInvitation
  /\ Effects["acceptInvitation"] = AcceptInvitation
  /\ Effects["declineInvitation"] = DeclineInvitation
  /\ Effects["createRun"] = CreateRun
  /\ Effects["startRun"] = StartSuite
  /\ Effects["replayRun"] = ReplayRun
  /\ Effects["explainFailures"] = ExplainFailures
  /\ Effects["describeRequests"] = DescribeRequests
  /\ Effects["deleteRun"] = DeleteRun
  /\ Effects["addEndpoint"] = AddEndpoint
  /\ Effects["deleteEndpoint"] = DeleteEndpoint
  /\ Effects["uploadSpec"] = UploadSpec
  /\ Effects["deleteSpec"] = DeleteSpec
  /\ Effects["startGeneration"] = StartGeneration
  /\ Effects["applyGeneration"] = ApplyGeneration
  /\ Effects["discardGeneration"] = DiscardGeneration
  /\ Effects["buildGraph"] = BuildGraph
  /\ Effects["saveLlmSettings"] = SaveLlmSettings
  /\ Effects["saveProfile"] = SaveProfile
  /\ Effects["saveNotifications"] = SaveNotifications
  /\ Effects["browse"] = Browse
  /\ Effects["changePassword"] = ChangePassword
  /\ Effects["deleteAccount"] = DeleteAccount
BY DEF Effects

LEMMA ChangesAreHandled ==
  ASSUME NEW o \in DOMAIN Effects, NEW k \in Effects[o].changes
  PROVE  Handled(o, Effects[o], k)
<1> DEFINE Keeps(e, x) == \A y \in e.changes : Handled(x, e, y)
<1>1. DOMAIN Effects =
        {"createProject", "saveProject", "saveProjectHere", "deleteProject",
         "changeRole", "removeMember", "leaveProject", "inviteMember",
         "revokeInvitation", "acceptInvitation", "declineInvitation", "createRun",
         "startRun", "replayRun", "explainFailures", "describeRequests", "deleteRun",
         "addEndpoint", "deleteEndpoint", "uploadSpec", "deleteSpec", "startGeneration",
         "applyGeneration", "discardGeneration", "buildGraph", "saveLlmSettings",
         "saveProfile", "saveNotifications", "browse", "changePassword", "deleteAccount"}
  BY DEF Effects
<1>2. /\ Keeps(CreateProject, "createProject")
      /\ Keeps(SaveProject, "saveProject")
      /\ Keeps(SaveProjectHere, "saveProjectHere")
      /\ Keeps(DeleteProject, "deleteProject")
      /\ Keeps(ChangeRole, "changeRole")
      /\ Keeps(RemoveMember, "removeMember")
      /\ Keeps(LeaveProject, "leaveProject")
      /\ Keeps(InviteMember, "inviteMember")
      /\ Keeps(RevokeInvitation, "revokeInvitation")
      /\ Keeps(AcceptInvitation, "acceptInvitation")
      /\ Keeps(DeclineInvitation, "declineInvitation")
      /\ Keeps(CreateRun, "createRun")
      /\ Keeps(StartSuite, "startRun")
      /\ Keeps(ReplayRun, "replayRun")
      /\ Keeps(ExplainFailures, "explainFailures")
      /\ Keeps(DescribeRequests, "describeRequests")
      /\ Keeps(DeleteRun, "deleteRun")
      /\ Keeps(AddEndpoint, "addEndpoint")
      /\ Keeps(DeleteEndpoint, "deleteEndpoint")
      /\ Keeps(UploadSpec, "uploadSpec")
      /\ Keeps(DeleteSpec, "deleteSpec")
      /\ Keeps(StartGeneration, "startGeneration")
      /\ Keeps(ApplyGeneration, "applyGeneration")
      /\ Keeps(DiscardGeneration, "discardGeneration")
      /\ Keeps(BuildGraph, "buildGraph")
      /\ Keeps(SaveLlmSettings, "saveLlmSettings")
      /\ Keeps(SaveProfile, "saveProfile")
      /\ Keeps(SaveNotifications, "saveNotifications")
      /\ Keeps(Browse, "browse")
      /\ Keeps(ChangePassword, "changePassword")
      /\ Keeps(DeleteAccount, "deleteAccount")
  <2> USE BelowThemselves, BelowTheProject DEF Handled, Refreshed, Plain
  <2>1. Keeps(CreateProject, "createProject")
    BY DEF CreateProject
  <2>2. Keeps(SaveProject, "saveProject")
    BY DEF SaveProject
  <2>3. Keeps(SaveProjectHere, "saveProjectHere")
    BY DEF SaveProjectHere, SaveProject
  <2>4. Keeps(DeleteProject, "deleteProject")
    BY DEF DeleteProject
  <2>5. Keeps(ChangeRole, "changeRole")
    BY DEF ChangeRole, LeftToAge
  <2>6. Keeps(RemoveMember, "removeMember")
    BY DEF RemoveMember
  <2>7. Keeps(LeaveProject, "leaveProject")
    BY DEF LeaveProject
  <2>8. Keeps(InviteMember, "inviteMember")
    BY DEF InviteMember
  <2>9. Keeps(RevokeInvitation, "revokeInvitation")
    BY DEF RevokeInvitation
  <2>10. Keeps(AcceptInvitation, "acceptInvitation")
    BY DEF AcceptInvitation
  <2>11. Keeps(DeclineInvitation, "declineInvitation")
    BY DEF DeclineInvitation
  <2>12. Keeps(CreateRun, "createRun")
    BY DEF CreateRun
  <2>13. Keeps(StartSuite, "startRun")
    BY DEF StartSuite, LeftToAge, OfEarlierRuns
  <2>14. Keeps(ReplayRun, "replayRun")
    BY DEF ReplayRun, LeftToAge, OfEarlierRuns
  <2>15. Keeps(ExplainFailures, "explainFailures")
    BY DEF ExplainFailures
  <2>16. Keeps(DescribeRequests, "describeRequests")
    BY DEF DescribeRequests
  <2>17. Keeps(DeleteRun, "deleteRun")
    BY DEF DeleteRun, LeftToAge, OfEarlierRuns
  <2>18. Keeps(AddEndpoint, "addEndpoint")
    BY DEF AddEndpoint, LeftToAge, OfEarlierRuns
  <2>19. Keeps(DeleteEndpoint, "deleteEndpoint")
    BY DEF DeleteEndpoint, LeftToAge, OfEarlierRuns
  <2>20. Keeps(UploadSpec, "uploadSpec")
    BY DEF UploadSpec, LeftToAge, OfEarlierRuns
  <2>21. Keeps(DeleteSpec, "deleteSpec")
    BY DEF DeleteSpec
  <2>22. Keeps(StartGeneration, "startGeneration")
    BY DEF StartGeneration
  <2>23. Keeps(ApplyGeneration, "applyGeneration")
    BY DEF ApplyGeneration, LeftToAge, OfEarlierRuns
  <2>24. Keeps(DiscardGeneration, "discardGeneration")
    BY DEF DiscardGeneration
  <2>25. Keeps(BuildGraph, "buildGraph")
    BY DEF BuildGraph
  <2>26. Keeps(SaveLlmSettings, "saveLlmSettings")
    BY DEF SaveLlmSettings
  <2>27. Keeps(SaveProfile, "saveProfile")
    BY DEF SaveProfile
  <2>28. Keeps(SaveNotifications, "saveNotifications")
    BY DEF SaveNotifications
  <2>29. Keeps(Browse, "browse")
    BY DEF Browse
  <2>30. Keeps(ChangePassword, "changePassword")
    BY DEF ChangePassword
  <2>31. Keeps(DeleteAccount, "deleteAccount")
    BY DEF DeleteAccount
  <2> QED
    BY <2>1, <2>2, <2>3, <2>4, <2>5, <2>6, <2>7, <2>8, <2>9, <2>10, <2>11, <2>12, <2>13,
       <2>14, <2>15, <2>16, <2>17, <2>18, <2>19, <2>20, <2>21, <2>22, <2>23, <2>24, <2>25,
       <2>26, <2>27, <2>28, <2>29, <2>30, <2>31
<1> QED
  BY <1>1, <1>2, EffectsAre
-----------------------------------------------------------------------------
\* An answer that says the operation was obeyed does not lie, but where it is a guess
\* whose write is on its way, and the answer before the guess is kept.
Truthful(keys, c, did) == \A k \in keys : c[k] # NoAnswer /\ c[k].answer.did => did

Guessed(k) ==
    /\ write.phase \in {"sent", "refused", "unauthorized"}
    /\ k \in Effects[op].guesses /\ write.before[k] # NoAnswer

TruthInv ==
    /\ op \in DOMAIN Effects
    /\ write.phase \in {"obeyed", "done"} => world.did
    /\ \A k \in Watched : cache[k] # NoAnswer /\ cache[k].answer.did => world.did \/ Guessed(k)
    /\ Truthful(Watched, write.before, world.did)
    /\ Truthful(Watched, disk, world.did)
    /\ \A k \in Watched : reading[k] # NoAnswer /\ reading[k].reply = "200" /\ reading[k].answer.did
                            => world.did

LEMMA TruthInit == WebInit => TruthInv
<1> SUFFICES ASSUME WebInit PROVE TruthInv
  OBVIOUS
<1>1. op \in DOMAIN Effects /\ write = Settled("none", 0) /\ ~world.did
  <2>1. PICK role \in Roles \ {"none"}, status \in StatusesOn(screen), has \in BOOLEAN :
          world = [role |-> role, status |-> status, did |-> FALSE, has |-> has]
    BY DEF WebInit
  <2>2. world.did = FALSE
    BY <2>1
  <2> QED  BY <2>2 DEF WebInit
<1>2. \A k \in Watched : cache[k] # NoAnswer => ~cache[k].answer.did
  <2>1. \A k : ~Entry(k, AnswerNow(k)).answer.did
    BY <1>1 DEF AnswerNow, Entry
  <2>2. \A k \in Watched : cache[k] \in {Entry(k, AnswerNow(k)), NoAnswer}
    BY DEF WebInit, Watched
  <2> QED  BY <2>1, <2>2
<1>3. \A k \in Watched : reading[k] = NoAnswer /\ disk[k] = NoAnswer
  BY DEF WebInit, Watched
<1> QED
  BY <1>1, <1>2, <1>3 DEF TruthInv, Truthful, Settled, EmptyCache

LEMMA TruthRead ==
  ASSUME WebTypeOK, TruthInv, NEW k \in Watched,
         StartRead(k) \/ FocusRead(k) \/ PrefetchRead(k)
  PROVE  TruthInv'
<1>1. SendRead(k) /\ UNCHANGED <<op, screen, world, cache, write, session, disk>>
  BY DEF StartRead, FocusRead, PrefetchRead
<1>2. reading'[k].reply = "none" /\ \A x \in Watched : x # k => reading'[x] = reading[x]
  BY <1>1 DEF SendRead, WebTypeOK, ReadsFit
<1> QED
  BY <1>1, <1>2 DEF TruthInv, Guessed, Watched

LEMMA TruthServe ==
  ASSUME WebTypeOK, TruthInv, NEW k \in Watched, ServeRead(k)
  PROVE  TruthInv'
<1>1. UNCHANGED <<op, screen, world, cache, write, session, disk>>
  BY DEF ServeRead
<1>2. \A x \in Watched : x # k => reading'[x] = reading[x]
  BY DEF ServeRead, WebTypeOK, ReadsFit
<1>3. reading'[k].reply = "200" /\ reading'[k].answer.did => world.did
  <2>1. reading[k] \in Reads(screen, k)
    BY DEF ServeRead, WebTypeOK, ReadsFit
  <2>2. [AnswerNow(k) EXCEPT !.of = reading[k].of].did => world.did
    BY DEF AnswerNow
  <2> QED  BY <2>1, <2>2 DEF ServeRead, Reads, WebTypeOK, ReadsFit
<1> QED
  BY <1>1, <1>2, <1>3 DEF TruthInv, Guessed, Watched

LEMMA TruthCancel ==
  ASSUME WebTypeOK, TruthInv, NEW gone, reading' = CancelIn(reading, gone)
  PROVE  \A k \in Watched :
           reading'[k] # NoAnswer /\ reading'[k].reply = "200" /\ reading'[k].answer.did => world.did
BY DEF WebTypeOK, ReadsFit, TruthInv, CancelIn

LEMMA TruthEnd ==
  ASSUME WebTypeOK, TruthInv, NEW by, EndSession(by), op' = op, world' = world,
         write' = write \/ (write.phase = "obeyed" /\ write' = Settled("done", write.of))
  PROVE  TruthInv'
<1>1. DOMAIN cache' = Watched
  BY DEF EndSession, EmptyCache
<1>2. Truthful(Watched, write'.before, world.did)
  BY DEF TruthInv, Truthful, Settled, EmptyCache
<1>3. write'.phase \in {"obeyed", "done"} => world.did
  BY DEF TruthInv, Settled
<1> QED
  BY <1>1, <1>2, <1>3 DEF TruthInv, Truthful, EndSession, EmptyCache, Watched

LEMMA TruthArrives ==
  ASSUME WebTypeOK, TruthInv, NEW k \in Watched,
         ReadArrives(k) \/ ReadFails(k) \/ ReadUnauthorized(k) \/ ReadLost(k)
  PROVE  TruthInv'
<1>1. CASE ReadUnauthorized(k)
  BY <1>1, TruthEnd DEF ReadUnauthorized
<1>2. CASE ReadArrives(k) \/ ReadFails(k) \/ ReadLost(k)
  <2>1. /\ UNCHANGED <<op, screen, world, write, session, disk>>
        /\ reading' = CancelIn(reading, {k})
    BY <1>2 DEF ReadArrives, ReadFails, ReadLost
  <2>2. /\ DOMAIN cache' = Watched
        /\ \A x \in Watched : cache'[x] # NoAnswer /\ cache'[x].answer.did
                                => world.did \/ Guessed(x)
    <3>1. CASE ReadArrives(k)
      <4>1. cache'[k].answer = reading[k].answer
        BY <3>1 DEF ReadArrives, SetIn, Entry, WebTypeOK, CacheFits
      <4>2. DOMAIN cache' = Watched /\ \A x \in Watched : x # k => cache'[x] = cache[x]
        BY <3>1 DEF ReadArrives, SetIn, WebTypeOK, CacheFits
      <4> QED
        <5>1. reading[k].answer.did => world.did
          BY <3>1 DEF ReadArrives, TruthInv
        <5> QED
          BY <4>1, <4>2, <5>1 DEF TruthInv
    <3>2. CASE ReadFails(k)
      BY <3>2 DEF ReadFails, TruthInv, WebTypeOK, CacheFits, Entries
    <3>3. CASE ReadLost(k)
      BY <3>3 DEF ReadLost, TruthInv, Watched
    <3> QED  BY <1>2, <3>1, <3>2, <3>3
  <2> QED
    BY <2>1, <2>2, TruthCancel DEF TruthInv, Guessed, Watched
<1> QED  BY <1>1, <1>2

LEMMA TruthPress == ASSUME WebTypeOK, TruthInv, Press PROVE TruthInv'
<1> DEFINE guesses == Effects[op].guesses \cap {k \in Watched : Loaded(k)}
<1>1. /\ UNCHANGED <<op, screen, world, disk>> /\ write'.phase = "sent"
      /\ write'.before = CancelIn(cache, Watched \ guesses)
      /\ reading' = CancelIn(reading, Effects[op].guesses)
  BY DEF Press
<1>2. \A k \in Watched : cache[k] # NoAnswer /\ cache[k].answer.did => world.did
  BY DEF Press, TruthInv, Guessed
<1>3. Truthful(Watched, write'.before, world.did)
  BY <1>1, <1>2 DEF Truthful, CancelIn, Watched
<1>4. /\ DOMAIN cache' = Watched
      /\ \A k \in Watched \ guesses : cache'[k] = cache[k]
  BY DEF Press, SetIn, Watched
<1>5. \A k \in guesses : k \in Effects[op].guesses /\ write'.before[k] # NoAnswer
  BY <1>1 DEF Loaded, CancelIn, Watched
<1> QED
  BY <1>1, <1>2, <1>3, <1>4, <1>5, TruthCancel DEF TruthInv, Guessed, Watched

LEMMA TruthWrite ==
  ASSUME WebTypeOK, TruthInv,
         ServeWrite \/ RefuseWrite \/ WriteUnauthorized \/ WriteSucceeds \/ WriteEndsSession
  PROVE  TruthInv'
<1>1. CASE ServeWrite
  <2>1. op' = op /\ world'.did
    BY <1>1 DEF ServeWrite, Obey, WebTypeOK
  <2> QED  BY <2>1 DEF TruthInv, Truthful
<1>2. CASE RefuseWrite \/ WriteUnauthorized
  <2>1. /\ UNCHANGED <<op, screen, world, cache, reading, disk>>
        /\ write.phase = "sent" /\ write'.phase \in {"refused", "unauthorized"}
        /\ write'.before = write.before
    BY <1>2 DEF RefuseWrite, WriteUnauthorized, WebTypeOK, WriteFits
  <2> QED  BY <2>1 DEF TruthInv, Guessed, Watched
<1>3. CASE WriteSucceeds \/ WriteEndsSession
  <2>1. op' = op /\ world'.did
    BY <1>3 DEF WriteSucceeds, WriteEndsSession, TruthInv
  <2> QED  BY <2>1 DEF TruthInv, Truthful
<1> QED  BY <1>1, <1>2, <1>3

LEMMA TruthFails == ASSUME WebTypeOK, TruthInv, WriteFails PROVE TruthInv'
<1> DEFINE e == Effects[op]
           back == [k \in Watched |-> IF k \in e.guesses /\ write.before[k] # NoAnswer
                                      THEN Entry(k, write.before[k].answer) ELSE cache[k]]
<1>1. UNCHANGED <<op, screen, world, disk>> /\ write' = Settled("failed", write.of)
  BY DEF WriteFails
<1>2. Truthful(Watched, back, world.did)
  BY DEF TruthInv, Truthful, Guessed, Entry, WriteFails
<1>3. CacheFits(screen, Watched, back)
  BY DEF WebTypeOK, WriteFits, CacheFits, Entry, Entries
<1>4. DOMAIN cache' = Watched /\ Truthful(Watched, cache', world.did)
  <2>1. cache' = InvalidateIn(back, e.afterwards)
    BY DEF WriteFails
  <2> HIDE DEF back
  <2> QED  BY <2>1, <1>2, <1>3 DEF Truthful, InvalidateIn, CacheFits, Entries
<1>5. \A k \in Watched :
        reading'[k] # NoAnswer /\ reading'[k].reply = "200" /\ reading'[k].answer.did => world.did
  BY TruthCancel DEF WriteFails
<1> QED
  BY <1>1, <1>4, <1>5 DEF TruthInv, Truthful, Settled, EmptyCache, Watched

LEMMA PersistedIsNeverGuessed == Persists => Effects[op].guesses = {}
<1>1. Effects["saveProfile"].guesses = {} /\ Effects["browse"].guesses = {}
  <2>1. Effects["saveProfile"] = SaveProfile /\ Effects["browse"] = Browse
    BY DEF Effects
  <2> QED  BY <2>1 DEF SaveProfile, Browse, Plain
<1> QED  BY <1>1 DEF Persists

LEMMA TruthUser ==
  ASSUME WebTypeOK, TruthInv,
         \/ LeavePage \/ ReopenPage \/ Ages \/ SignOut \/ SignIn \/ Flush \/ Reload
         \/ StatusMoves \/ RoleMoves \/ Revoke
  PROVE  TruthInv'
<1>1. CASE SignOut
  BY <1>1, TruthEnd DEF SignOut
<1>2. CASE SignIn
  <2>1. \A k : [AnswerNow(k) EXCEPT !.of = past.sessions + 1].did => world.did
    BY DEF AnswerNow
  <2>2. /\ DOMAIN cache' = Watched
        /\ \A k \in Watched : cache'[k] # NoAnswer /\ cache'[k].answer.did
                                => world.did \/ Guessed(k)
    BY <1>2, <2>1 DEF SignIn, SetIn, Entry, TruthInv, WebTypeOK, CacheFits
  <2> QED
    BY <1>2, <2>2 DEF SignIn, TruthInv, Guessed, Watched
<1>3. CASE Flush
  <2>1. Truthful(Watched, cache, world.did)
    BY <1>3, PersistedIsNeverGuessed DEF Flush, TruthInv, Guessed, Truthful
  <2> QED
    BY <1>3, <2>1 DEF Flush, TruthInv, Guessed, Watched
<1>4. CASE Reload
  <2>1. /\ UNCHANGED <<op, screen, world, disk>>
        /\ write' = write \/ write' = Settled("failed", write.of)
    BY <1>4 DEF Reload
  <2>2. DOMAIN cache' = Watched /\ Truthful(Watched, cache', world.did)
    BY <1>4 DEF Reload, TruthInv, WebTypeOK, CacheFits
  <2>3. Truthful(Watched, write'.before, world.did)
        /\ (write'.phase \in {"obeyed", "done"} => world.did)
    BY <2>1 DEF TruthInv, Truthful, Settled, EmptyCache
  <2> QED
    BY <1>4, <2>1, <2>2, <2>3 DEF Reload, TruthInv, Truthful, EmptyCache, Watched
<1>5. CASE LeavePage \/ ReopenPage \/ Ages \/ StatusMoves \/ RoleMoves \/ Revoke
  <2>1. UNCHANGED <<op, screen, write, disk>> /\ world'.did = world.did
    BY <1>5 DEF LeavePage, ReopenPage, Ages, StatusMoves, RoleMoves, Revoke, WebTypeOK
  <2>2. /\ DOMAIN cache' = Watched
        /\ \A k \in Watched : cache'[k] # NoAnswer =>
              cache[k] # NoAnswer /\ cache'[k].answer = cache[k].answer
    BY <1>5 DEF LeavePage, ReopenPage, Ages, Age, StatusMoves, RoleMoves, Revoke, WebTypeOK,
                CacheFits, Entries
  <2>3. \A k \in Watched : reading'[k] # NoAnswer => reading'[k] = reading[k]
    BY <1>5 DEF LeavePage, ReopenPage, Ages, StatusMoves, RoleMoves, Revoke, CancelIn,
                WebTypeOK, ReadsFit
  <2> QED
    BY <2>1, <2>2, <2>3 DEF TruthInv, Truthful, Guessed, Watched
<1> QED
  BY <1>1, <1>2, <1>3, <1>4, <1>5

LEMMA TruthStep == WebTypeOK /\ TruthInv /\ [WebNext]_webVars => TruthInv'
<1> SUFFICES ASSUME WebTypeOK, TruthInv, [WebNext]_webVars PROVE TruthInv'
  OBVIOUS
<1>1. CASE UNCHANGED webVars
  BY <1>1 DEF webVars, TruthInv, Truthful, Guessed, Watched
<1>2. CASE WebNext
  BY <1>2, TruthRead, TruthServe, TruthArrives, TruthPress, TruthWrite, TruthFails, TruthUser
     DEF WebNext
<1> QED  BY <1>1, <1>2

-----------------------------------------------------------------------------
\* One read is in flight at a time; until the write is answered, one of what the
\* operation changes was asked for by the page still there, or ahead of it.
OneRead == \A j, k \in Watched : reading[j] # NoAnswer /\ reading[k] # NoAnswer => j = k

ReadsAreObserved ==
    write.phase \notin {"done", "failed"} =>
      \A k \in Watched \cap Effects[op].changes :
        reading[k] # NoAnswer => Observed(k) \/ k \in past.prefetched

ReadsInv == OneRead /\ ReadsAreObserved

LEMMA ReadsInit == WebInit => ReadsInv
BY DEF WebInit, ReadsInv, OneRead, ReadsAreObserved, Watched

LEMMA EntriesAreAnswers == ASSUME NEW scr, NEW k PROVE NoAnswer \notin Entries(scr, k)
<1>1. Entries(scr, k) \subseteq CacheEntries
  BY DEF Entries, Answers, CacheEntries
<1> QED  BY <1>1, NoAnswerAssumption

\* What of the cache the page goes by.
SameLook ==
    /\ screen' = screen /\ session' = session /\ DOMAIN cache' = Watched
    /\ \A k \in Watched : /\ cache'[k] # NoAnswer <=> cache[k] # NoAnswer
                          /\ cache[k] # NoAnswer =>
                                cache'[k].answer.status = cache[k].answer.status

LEMMA LooksTheSame ==
  ASSUME WebTypeOK, SameLook, past.open => past'.open
  PROVE  \A k : Observed(k) => Observed(k)'
<1>1. PageLoaded' <=> PageLoaded
  BY DEF SameLook, PageLoaded, Loaded, WebTypeOK, ScreenFits
<1>2. ASSUME PageLoaded PROVE StatusShown' = StatusShown
  <2>1. CASE StatusKey(screen) = {}
    BY <2>1 DEF StatusShown, SameLook
  <2>2. CASE StatusKey(screen) # {}
    <3> DEFINE x == CHOOSE y \in StatusKey(screen) : TRUE
    <3>1. x \in StatusKey(screen)
      BY <2>2
    <3>2. StatusShown = cache[x].answer.status /\ StatusShown' = cache'[x].answer.status
      BY <2>2 DEF StatusShown, Shown, SameLook
    <3> HIDE DEF x
    <3> QED
      BY <3>1, <3>2, <1>2 DEF SameLook, PageLoaded, Loaded, WebTypeOK, ScreenFits
  <2> QED  BY <2>1, <2>2
<1> SUFFICES ASSUME NEW k, Observed(k) PROVE Observed(k)'
  OBVIOUS
<1>3. CASE k \in Shell
  BY <1>3 DEF Observed, SameLook
<1>4. CASE past.open /\ k \in Observes(screen, IF PageLoaded THEN StatusShown ELSE "-")
  <2>1. (IF PageLoaded THEN StatusShown ELSE "-")' = IF PageLoaded THEN StatusShown ELSE "-"
    BY <1>1, <1>2
  <2> QED
    BY <2>1, <1>4 DEF Observed, SameLook
<1> QED  BY <1>3, <1>4 DEF Observed

\* A step that sends no read and keeps the page's look.
LEMMA ReadsKeep ==
  ASSUME WebTypeOK, ReadsInv, SameLook, op' = op, past.open => past'.open,
         past.prefetched \subseteq past'.prefetched,
         write'.phase \notin {"done", "failed"} => write.phase \notin {"done", "failed"},
         \A k \in Watched : reading'[k] # NoAnswer => reading[k] # NoAnswer
  PROVE  ReadsInv'
<1>1. DOMAIN cache' = Watched
  BY DEF SameLook
<1>2. OneRead'
  BY <1>1 DEF ReadsInv, OneRead, Watched
<1>3. ReadsAreObserved'
  BY <1>1, LooksTheSame DEF ReadsInv, ReadsAreObserved, Watched
<1> QED  BY <1>2, <1>3 DEF ReadsInv

\* A step after which no read is in flight.
LEMMA ReadsNone ==
  ASSUME \A k \in DOMAIN cache' : reading'[k] = NoAnswer
  PROVE  ReadsInv'
BY DEF ReadsInv, OneRead, ReadsAreObserved, Watched

\* A step after the write was answered.
LEMMA ReadsAfter ==
  ASSUME WebTypeOK, ReadsInv, write'.phase \in {"done", "failed"}, DOMAIN cache' = Watched,
         \A k \in Watched : reading'[k] # NoAnswer => reading[k] # NoAnswer
  PROVE  ReadsInv'
BY DEF ReadsInv, OneRead, ReadsAreObserved, Watched

LEMMA ReadsSend ==
  ASSUME WebTypeOK, ReadsInv, NEW k \in Watched,
         StartRead(k) \/ FocusRead(k) \/ PrefetchRead(k)
  PROVE  ReadsInv'
<1>1. NoRead /\ SendRead(k) /\ UNCHANGED <<op, screen, world, cache, write, session, disk>>
  BY DEF StartRead, FocusRead, PrefetchRead
<1>2. \A x \in Watched : reading'[x] # NoAnswer => x = k
  BY <1>1 DEF NoRead, SendRead, WebTypeOK, ReadsFit
<1>3. OneRead'
  BY <1>1, <1>2 DEF OneRead, Watched
<1>4. \/ Observed(k)' 
      \/ k \notin Effects[op].changes \/ k \in past'.prefetched
  <2>1. CASE StartRead(k) \/ FocusRead(k)
    <3>1. Observed(k) /\ past'.open = past.open
      BY <2>1 DEF StartRead, FocusRead, Due, WebTypeOK, PastFits
    <3>2. SameLook
      BY <1>1 DEF SameLook, Watched
    <3> QED  BY <3>1, <3>2, LooksTheSame
  <2>2. CASE PrefetchRead(k)
    BY <2>2 DEF PrefetchRead, WebTypeOK, PastFits
  <2> QED  BY <2>1, <2>2
<1>5. ReadsAreObserved'
  BY <1>1, <1>2, <1>4 DEF ReadsAreObserved, Watched
<1> QED  BY <1>3, <1>5 DEF ReadsInv

LEMMA ReadsServe ==
  ASSUME WebTypeOK, ReadsInv, NEW k \in Watched, ServeRead(k)
  PROVE  ReadsInv'
<1>1. /\ UNCHANGED <<op, screen, world, cache, write, session, disk, past>>
      /\ \A x \in Watched : reading'[x] # NoAnswer => reading[x] # NoAnswer
  BY DEF ServeRead, WebTypeOK, ReadsFit
<1>2. SameLook
  BY <1>1 DEF SameLook, Watched
<1> QED  BY <1>1, <1>2, ReadsKeep

LEMMA ReadsArrive ==
  ASSUME WebTypeOK, ReadsInv, NEW k \in Watched,
         ReadArrives(k) \/ ReadFails(k) \/ ReadUnauthorized(k) \/ ReadLost(k)
  PROVE  ReadsInv'
<1>1. reading[k] # NoAnswer /\ \A x \in Watched : x # k => reading[x] = NoAnswer
  BY DEF ReadArrives, ReadFails, ReadUnauthorized, ReadLost, ReadsInv, OneRead
<1>2. DOMAIN cache' = Watched
  BY DEF ReadArrives, ReadFails, ReadUnauthorized, ReadLost, EndSession, SetIn, EmptyCache,
         WebTypeOK, CacheFits, Watched
<1>3. \A x \in Watched : reading'[x] = NoAnswer
  BY <1>1 DEF ReadArrives, ReadFails, ReadUnauthorized, ReadLost, EndSession, CancelIn,
              EmptyCache, WebTypeOK, ReadsFit
<1> QED  BY <1>2, <1>3, ReadsNone

LEMMA GuessesKeepTheStatus ==
  ASSUME NEW scr, NEW k, NEW a \in Answers(scr, k)
  PROVE  /\ Entry(k, [a EXCEPT !.did = TRUE]) \in Entries(scr, k)
         /\ Entry(k, [a EXCEPT !.did = TRUE]).answer.status = a.status
<1>1. [a EXCEPT !.did = TRUE] \in Answers(scr, k) /\ [a EXCEPT !.did = TRUE].status = a.status
  BY DEF Answers
<1> QED  BY <1>1 DEF Entry, Entries

LEMMA ReadsPress == ASSUME WebTypeOK, ReadsInv, Press PROVE ReadsInv'
<1> DEFINE guesses == Effects[op].guesses \cap {k \in Watched : Loaded(k)}
           guessed == [k \in guesses |-> [Shown(k) EXCEPT !.did = TRUE]]
<1>1. /\ UNCHANGED <<op, screen, world, session, disk, past>> /\ write.phase = "none"
      /\ \A x \in Watched : reading'[x] # NoAnswer => reading[x] # NoAnswer
  BY DEF Press, CancelIn, WebTypeOK, ReadsFit
<1>2. SameLook
  <2>1. CacheFits(screen, Watched, cache')
    <3>1. \A k \in guesses : guessed[k] \in Answers(screen, k)
      <4> SUFFICES ASSUME NEW k \in guesses
                   PROVE  [Shown(k) EXCEPT !.did = TRUE] \in Answers(screen, k)
        OBVIOUS
      <4>1. Shown(k) \in Answers(screen, k)
        BY DEF WebTypeOK, CacheFits, Entries, Loaded, Shown
      <4> QED  BY <4>1 DEF Answers
    <3> QED  BY <3>1, SetInFits DEF WebTypeOK, Press
  <2>2. \A k \in guesses : /\ cache[k] # NoAnswer
                           /\ cache'[k] = Entry(k, [cache[k].answer EXCEPT !.did = TRUE])
                           /\ cache[k].answer \in Answers(screen, k)
    BY DEF Press, SetIn, Loaded, Shown, WebTypeOK, CacheFits, Entries
  <2> HIDE DEF guesses, guessed
  <2>4. \A k \in guesses : cache'[k] # NoAnswer
                           /\ cache'[k].answer.status = cache[k].answer.status
    <3> SUFFICES ASSUME NEW k \in guesses
                 PROVE  cache'[k] # NoAnswer /\ cache'[k].answer.status = cache[k].answer.status
      OBVIOUS
    <3>1. PICK a : a = cache[k].answer
      OBVIOUS
    <3>2. a \in Answers(screen, k) /\ cache'[k] = Entry(k, [a EXCEPT !.did = TRUE])
      BY <2>2, <3>1
    <3>3. cache'[k] \in Entries(screen, k) /\ cache'[k].answer.status = a.status
      BY <3>2, GuessesKeepTheStatus
    <3> QED
      BY <3>1, <3>3, EntriesAreAnswers
  <2> USE DEF guesses
  <2>5. \A k \in Watched \ guesses : cache'[k] = cache[k]
    BY DEF Press, SetIn, Watched
  <2> QED
    BY <1>1, <2>1, <2>2, <2>4, <2>5 DEF SameLook, CacheFits
<1> QED  BY <1>1, <1>2, ReadsKeep

LEMMA ReadsWrite ==
  ASSUME WebTypeOK, ReadsInv,
         \/ ServeWrite \/ RefuseWrite \/ WriteUnauthorized
         \/ WriteSucceeds \/ WriteEndsSession \/ WriteFails
  PROVE  ReadsInv'
<1>1. CASE ServeWrite \/ RefuseWrite \/ WriteUnauthorized
  <2>1. /\ UNCHANGED <<op, screen, cache, reading, session>> /\ write.phase = "sent"
        /\ past'.open = past.open /\ past'.prefetched = past.prefetched
    BY <1>1 DEF ServeWrite, RefuseWrite, WriteUnauthorized, Obey, WebTypeOK, PastFits
  <2>2. SameLook
    BY <2>1 DEF SameLook, Watched
  <2> QED  BY <2>1, <2>2, ReadsKeep
<1>2. CASE WriteSucceeds \/ WriteFails
  <2>1. write'.phase \in {"done", "failed"}
    BY <1>2 DEF WriteSucceeds, WriteFails, Settled
  <2>2. DOMAIN cache' = Watched
    BY <1>2 DEF WriteSucceeds, WriteFails, Succeeded, SetIn, InvalidateIn, RemoveIn, Watched
  <2>3. \A k \in Watched : reading'[k] # NoAnswer => reading[k] # NoAnswer
    BY <1>2 DEF WriteSucceeds, WriteFails, CancelIn, WebTypeOK, ReadsFit
  <2> QED  BY <2>1, <2>2, <2>3, ReadsAfter
<1>3. CASE WriteEndsSession
  BY <1>3, ReadsNone DEF WriteEndsSession, EndSession, EmptyCache
<1> QED  BY <1>1, <1>2, <1>3

LEMMA ReadsUser ==
  ASSUME WebTypeOK, SessionsInv, ReadsInv,
         \/ LeavePage \/ ReopenPage \/ Ages \/ SignOut \/ SignIn \/ Flush \/ Reload
         \/ StatusMoves \/ RoleMoves \/ Revoke
  PROVE  ReadsInv'
<1>1. CASE SignOut \/ Reload
  BY <1>1, ReadsNone DEF SignOut, Reload, EndSession, EmptyCache, WebTypeOK, CacheFits
<1>2. CASE SignIn
  BY <1>2, ReadsNone DEF SignIn, SessionsInv, ReadsOfSession, SetIn, Watched
<1>3. CASE LeavePage
  <2>1. UNCHANGED <<op, screen, world, cache, write, session, disk>>
        /\ past'.prefetched = past.prefetched
    BY <1>3 DEF LeavePage, WebTypeOK, PastFits
  <2>2. \A k \in Watched : reading'[k] # NoAnswer =>
          /\ reading[k] # NoAnswer
          /\ k \in Shell \/ ~Observed(k)
    BY <1>3 DEF LeavePage, CancelIn, WebTypeOK, ReadsFit
  <2>3. OneRead'
    BY <2>1, <2>2 DEF ReadsInv, OneRead, Watched
  <2>4. \A k \in Shell : Observed(k) => Observed(k)'
    BY <2>1 DEF Observed
  <2>5. ReadsAreObserved'
    BY <2>1, <2>2, <2>4 DEF ReadsInv, ReadsAreObserved, Watched
  <2> QED  BY <2>3, <2>5 DEF ReadsInv
<1>4. CASE ReopenPage \/ Ages \/ Flush \/ StatusMoves \/ RoleMoves \/ Revoke
  <2>1. /\ UNCHANGED <<op, screen, write, session, reading>>
        /\ past.open => past'.open
        /\ past'.prefetched = past.prefetched
    BY <1>4 DEF ReopenPage, Ages, Flush, StatusMoves, RoleMoves, Revoke, WebTypeOK, PastFits
  <2>2. SameLook
    <3>1. CASE ReopenPage \/ Ages
      <4>1. \A k \in Watched : cache[k] # NoAnswer =>
               /\ cache'[k] \in Entries(screen, k)
               /\ cache'[k].answer = cache[k].answer
        BY <3>1 DEF ReopenPage, Ages, Age, WebTypeOK, CacheFits, Entries
      <4>2. \A k \in Watched : cache[k] = NoAnswer => cache'[k] = NoAnswer
        BY <3>1 DEF ReopenPage, Ages, Age
      <4>3. DOMAIN cache' = Watched
        BY <3>1 DEF ReopenPage, Ages
      <4> QED
        BY <2>1, <4>1, <4>2, <4>3, EntriesAreAnswers DEF SameLook
    <3>2. CASE Flush \/ StatusMoves \/ RoleMoves \/ Revoke
      BY <2>1, <3>2 DEF SameLook, Flush, StatusMoves, RoleMoves, Revoke, Watched
    <3> QED  BY <1>4, <3>1, <3>2
  <2> QED  BY <2>1, <2>2, ReadsKeep
<1> QED  BY <1>1, <1>2, <1>3, <1>4

LEMMA ReadsStep == WebTypeOK /\ SessionsInv /\ ReadsInv /\ [WebNext]_webVars => ReadsInv'
<1> SUFFICES ASSUME WebTypeOK, SessionsInv, ReadsInv, [WebNext]_webVars PROVE ReadsInv'
  OBVIOUS
<1>1. CASE UNCHANGED webVars
  <2>1. SameLook
    BY <1>1 DEF webVars, SameLook, Watched
  <2> QED  BY <1>1, <2>1, ReadsKeep DEF webVars
<1>2. CASE WebNext
  BY <1>2, ReadsSend, ReadsServe, ReadsArrive, ReadsPress, ReadsWrite, ReadsUser DEF WebNext
<1> QED  BY <1>1, <1>2

-----------------------------------------------------------------------------
\* What the user has done shows, and no read on its way will hide it.
Excepted(k) == <<op, k>> \in LeftToAge \/ k \in past.overtaken

DoneInv ==
    write.phase = "done" /\ session = write.of =>
      \A k \in Watched \cap Effects[op].changes :
        /\ cache[k] # NoAnswer /\ cache[k].age = "fresh" => cache[k].answer.did \/ Excepted(k)
        /\ reading[k] # NoAnswer /\ reading[k].reply = "200" /\ ~reading[k].answer.did =>
             \/ cache[k] = NoAnswer
             \/ k \in Effects[op].sets \cup past.prefetched
             \/ <<op, k>> \in LeftToAge

WritesAreOfThePast == write.of <= past.sessions

LEMMA DoneInit == WebInit => DoneInv /\ WritesAreOfThePast
BY DEF WebInit, DoneInv, WritesAreOfThePast, Settled

LEMMA PastWrites ==
  WebTypeOK /\ SessionsInv /\ WritesAreOfThePast /\ [WebNext]_webVars => WritesAreOfThePast'
<1> SUFFICES ASSUME WebTypeOK, SessionsInv, WritesAreOfThePast, [WebNext]_webVars
             PROVE  WritesAreOfThePast'
  OBVIOUS
<1>1. write'.of = write.of \/ write'.of = session
  <2>1. CASE UNCHANGED webVars
    BY <2>1 DEF webVars
  <2>2. ASSUME NEW k \in Watched,
               \/ StartRead(k) \/ FocusRead(k) \/ PrefetchRead(k) \/ ServeRead(k)
               \/ ReadArrives(k) \/ ReadFails(k) \/ ReadUnauthorized(k) \/ ReadLost(k)
        PROVE  write' = write
    BY <2>2 DEF StartRead, FocusRead, PrefetchRead, ServeRead, ReadArrives, ReadFails,
                ReadUnauthorized, ReadLost
  <2>3. CASE \/ Ages \/ LeavePage \/ ReopenPage \/ StatusMoves \/ RoleMoves \/ Revoke
             \/ SignOut \/ SignIn \/ Flush
    BY <2>3 DEF Ages, LeavePage, ReopenPage, StatusMoves, RoleMoves, Revoke, SignOut, SignIn,
                Flush
  <2>4. CASE ServeWrite \/ RefuseWrite \/ WriteUnauthorized
    BY <2>4 DEF ServeWrite, RefuseWrite, WriteUnauthorized, WebTypeOK, WriteFits
  <2>5. CASE Press \/ WriteSucceeds \/ WriteEndsSession \/ WriteFails \/ Reload
    BY <2>5 DEF Press, WriteSucceeds, WriteEndsSession, WriteFails, Reload, Settled
  <2> QED  BY <2>1, <2>2, <2>3, <2>4, <2>5 DEF WebNext
<1>2. past.sessions \in Nat /\ past'.sessions \in {past.sessions, past.sessions + 1}
  <2>1. CASE UNCHANGED webVars
    BY <2>1 DEF webVars, WebTypeOK, PastFits
  <2>2. ASSUME NEW k \in Watched,
               \/ StartRead(k) \/ FocusRead(k) \/ PrefetchRead(k) \/ ServeRead(k)
               \/ ReadArrives(k) \/ ReadFails(k) \/ ReadUnauthorized(k) \/ ReadLost(k)
        PROVE  past'.sessions = past.sessions
    BY <2>2 DEF StartRead, FocusRead, PrefetchRead, ServeRead, ReadArrives, ReadFails,
                ReadUnauthorized, ReadLost, EndSession, WebTypeOK, PastFits
  <2>3. CASE \/ Ages \/ LeavePage \/ ReopenPage \/ StatusMoves \/ RoleMoves \/ Revoke
             \/ SignOut \/ SignIn \/ Flush
    BY <2>3 DEF Ages, LeavePage, ReopenPage, StatusMoves, RoleMoves, Revoke, SignOut, SignIn,
                Flush, EndSession, WebTypeOK, PastFits
  <2>4. CASE ServeWrite \/ RefuseWrite \/ WriteUnauthorized
    BY <2>4 DEF ServeWrite, RefuseWrite, WriteUnauthorized, Obey, WebTypeOK, PastFits
  <2>5. CASE Press \/ WriteSucceeds \/ WriteEndsSession \/ WriteFails \/ Reload
    BY <2>5 DEF Press, WriteSucceeds, WriteEndsSession, WriteFails, Reload, EndSession,
                WebTypeOK, PastFits
  <2>6. past.sessions \in Nat
    BY DEF WebTypeOK, PastFits
  <2> QED  BY <2>1, <2>2, <2>3, <2>4, <2>5, <2>6 DEF WebNext
<1>3. write.of \in Nat /\ session \in Nat /\ session <= past.sessions
  BY DEF WebTypeOK, WriteFits, SessionsInv
<1> QED
  BY <1>1, <1>2, <1>3 DEF WritesAreOfThePast

\* A step that answers no write, makes nothing fresh and sends no read.
LEMMA DoneKeeps ==
  ASSUME WebTypeOK, DoneInv, op' = op, session' = session, DOMAIN cache' = Watched,
         write'.phase = "done" => write.phase = "done" /\ write'.of = write.of,
         past.overtaken \subseteq past'.overtaken, past.prefetched \subseteq past'.prefetched,
         \A k \in Watched :
            /\ cache[k] = NoAnswer => cache'[k] = NoAnswer
            /\ cache'[k] # NoAnswer /\ cache'[k].age = "fresh" =>
                 cache[k] # NoAnswer /\ cache[k].age = "fresh" /\ cache'[k].answer = cache[k].answer
            /\ reading'[k] # NoAnswer /\ reading'[k].reply = "200" =>
                 \/ reading[k] # NoAnswer /\ reading'[k] = reading[k]
                 \/ write'.phase = "done" /\ k \in Effects[op].changes => reading'[k].answer.did
  PROVE  DoneInv'
BY DEF DoneInv, Excepted, Watched

\* A step after which the write is not done, or not of the session there.
LEMMA DoneNot ==
  ASSUME write'.phase # "done" \/ session' # write'.of PROVE DoneInv'
BY DEF DoneInv

LEMMA DoneRead ==
  ASSUME WebTypeOK, DoneInv, NEW k \in Watched,
         StartRead(k) \/ FocusRead(k) \/ PrefetchRead(k)
  PROVE  DoneInv'
<1>1. SendRead(k) /\ UNCHANGED <<op, screen, world, cache, write, session, disk>>
  BY DEF StartRead, FocusRead, PrefetchRead
<1>2. reading'[k].reply = "none" /\ \A x \in Watched : x # k => reading'[x] = reading[x]
  BY <1>1 DEF SendRead, WebTypeOK, ReadsFit
<1>3. past'.overtaken = past.overtaken /\ past.prefetched \subseteq past'.prefetched
  BY DEF StartRead, FocusRead, PrefetchRead, WebTypeOK, PastFits
<1> QED
  BY <1>1, <1>2, <1>3, DoneKeeps DEF Watched

LEMMA DoneServe ==
  ASSUME WebTypeOK, TruthInv, DoneInv, NEW k \in Watched, ServeRead(k)
  PROVE  DoneInv'
<1>1. UNCHANGED <<op, screen, world, cache, write, session, disk, past>>
  BY DEF ServeRead
<1>2. \A x \in Watched : x # k => reading'[x] = reading[x]
  BY DEF ServeRead, WebTypeOK, ReadsFit
<1>3. reading'[k].reply = "200" /\ write.phase = "done" /\ k \in Effects[op].changes
        => reading'[k].answer.did
  <2>1. reading[k] \in Reads(screen, k)
    BY DEF ServeRead, WebTypeOK, ReadsFit
  <2>2. [AnswerNow(k) EXCEPT !.of = reading[k].of].did <=> world.did /\ k \in Effects[op].changes
    BY DEF AnswerNow
  <2> QED
    BY <2>1, <2>2 DEF ServeRead, Reads, WebTypeOK, ReadsFit, TruthInv
<1> QED
  BY <1>1, <1>2, <1>3, DoneKeeps DEF Watched

LEMMA DoneArrives ==
  ASSUME WebTypeOK, SessionsInv, DoneInv, NEW k \in Watched,
         ReadArrives(k) \/ ReadFails(k) \/ ReadUnauthorized(k) \/ ReadLost(k)
  PROVE  DoneInv'
<1>1. CASE ReadArrives(k)
  <2>1. UNCHANGED <<op, screen, world, write, session, disk>>
    BY <1>1 DEF ReadArrives
  <2>2. /\ DOMAIN cache' = Watched /\ cache'[k].answer = reading[k].answer
        /\ \A x \in Watched : x # k => cache'[x] = cache[x]
    BY <1>1 DEF ReadArrives, SetIn, Entry, WebTypeOK, CacheFits
  <2>3. reading'[k] = NoAnswer /\ \A x \in Watched : x # k => reading'[x] = reading[x]
    BY <1>1 DEF ReadArrives, CancelIn, WebTypeOK, ReadsFit
  <2>4. /\ past'.prefetched = past.prefetched
        /\ past'.overtaken = IF /\ write.phase = "done" /\ ~reading[k].answer.did
                                /\ k \in Effects[op].changes
                                /\ Loaded(k) => k \in Effects[op].sets \cup past.prefetched
                             THEN past.overtaken \cup {k} ELSE past.overtaken \ {k}
    BY <1>1 DEF ReadArrives, WebTypeOK, PastFits
  <2> SUFFICES ASSUME write.phase = "done", session = write.of,
                      NEW x \in Watched \cap Effects[op].changes
               PROVE  /\ cache'[x] # NoAnswer /\ cache'[x].age = "fresh" =>
                           cache'[x].answer.did \/ Excepted(x)'
                      /\ reading'[x] # NoAnswer /\ reading'[x].reply = "200"
                           /\ ~reading'[x].answer.did =>
                              \/ cache'[x] = NoAnswer
                              \/ x \in Effects[op].sets \cup past'.prefetched
                              \/ <<op, x>> \in LeftToAge
    BY <2>1, <2>2 DEF DoneInv, Watched
  <2>5. CASE x # k
    BY <2>1, <2>2, <2>3, <2>4, <2>5 DEF DoneInv, Excepted
  <2>6. CASE x = k
    BY <1>1, <2>1, <2>2, <2>3, <2>4, <2>6 DEF DoneInv, Excepted, Loaded, ReadArrives
  <2> QED  BY <2>5, <2>6
<1>2. CASE ReadFails(k) \/ ReadLost(k)
  <2>1. /\ UNCHANGED <<op, screen, world, write, session, disk>>
        /\ reading' = CancelIn(reading, {k})
        /\ past'.overtaken = past.overtaken /\ past'.prefetched = past.prefetched
    BY <1>2 DEF ReadFails, ReadLost, WebTypeOK, PastFits
  <2>2. /\ DOMAIN cache' = Watched /\ \A x \in Watched : x # k => cache'[x] = cache[x]
        /\ cache[k] = NoAnswer => cache'[k] = NoAnswer
        /\ cache'[k] = cache[k] \/ cache'[k].age # "fresh"
    BY <1>2 DEF ReadFails, ReadLost, WebTypeOK, CacheFits, Entries
  <2>3. \A x \in Watched : reading'[x] # NoAnswer =>
           reading[x] # NoAnswer /\ reading'[x] = reading[x]
    BY <2>1 DEF CancelIn, WebTypeOK, ReadsFit
  <2> QED
    BY <2>1, <2>2, <2>3, DoneKeeps
<1>3. CASE ReadUnauthorized(k)
  BY <1>3, DoneNot DEF ReadUnauthorized, EndSession, SessionsInv, WriteOfSession
<1> QED  BY <1>1, <1>2, <1>3

\* The reply: what the operation changed is filled in, invalid or gone, and so
\* is given up what the page was asking for.
LEMMA DoneSucceeds ==
  ASSUME WebTypeOK, TruthInv, ReadsInv, WriteSucceeds PROVE DoneInv'
<1> DEFINE e == Effects[op]
           touched == e.invalidates \cup e.afterwards \cup e.refetches
<1>1. /\ UNCHANGED <<op, screen, world, session, disk>> /\ write.phase = "obeyed" /\ world.did
      /\ past'.prefetched = past.prefetched
  BY DEF WriteSucceeds, TruthInv, WebTypeOK, PastFits
<1>2. DOMAIN cache' = Watched
  BY DEF WriteSucceeds, Succeeded, SetIn, InvalidateIn, RemoveIn, Watched
<1> SUFFICES ASSUME NEW k \in Watched \cap e.changes
             PROVE  /\ cache'[k] # NoAnswer /\ cache'[k].age = "fresh" =>
                         cache'[k].answer.did \/ Excepted(k)'
                    /\ reading'[k] # NoAnswer =>
                         \/ cache'[k] = NoAnswer
                         \/ k \in e.sets \cup past'.prefetched
                         \/ <<op, k>> \in LeftToAge
  BY <1>1, <1>2 DEF DoneInv, Watched
<1>3. \/ k \in e.sets \/ Covered(touched, k) \/ Covered(e.removes, k) \/ <<op, k>> \in LeftToAge
  BY ChangesAreHandled DEF TruthInv, Handled, Refreshed, Covered
<1>4. CASE <<op, k>> \in LeftToAge
  BY <1>1, <1>4 DEF Excepted
<1>5. CASE Covered(e.removes, k)
  BY <1>5 DEF WriteSucceeds, Succeeded, RemoveIn, InvalidateIn, SetIn, Watched
<1>6. CASE ~Covered(e.removes, k) /\ Covered(touched, k) /\ <<op, k>> \notin LeftToAge
  <2> DEFINE set == SetIn(cache, Reply)
  <2>1. CacheFits(screen, Watched, set)
    BY ReplyFits, SetInFits DEF WebTypeOK
  <2>2. cache'[k] = IF set[k] # NoAnswer THEN [set[k] EXCEPT !.age = "invalid"] ELSE set[k]
    BY <1>6 DEF WriteSucceeds, Succeeded, RemoveIn, InvalidateIn, SetIn, Watched
  <2>3. cache'[k] # NoAnswer => cache'[k].age # "fresh"
    BY <2>1, <2>2 DEF CacheFits, Entries
  <2>4. k \notin e.sets /\ cache[k] = NoAnswer => cache'[k] = NoAnswer
    BY <2>2 DEF SetIn, Reply, Watched
  <2>5. reading'[k] # NoAnswer => ~(Observed(k) /\ Loaded(k)) /\ reading[k] # NoAnswer
    BY <1>6 DEF WriteSucceeds, Restarted, CancelIn, WebTypeOK, ReadsFit
  <2> QED
    BY <1>1, <2>3, <2>4, <2>5 DEF ReadsInv, ReadsAreObserved, Loaded
<1>7. CASE ~Covered(e.removes, k) /\ ~Covered(touched, k) /\ k \in e.sets
  <2>1. cache'[k] = Entry(k, Reply[k])
    BY <1>7 DEF WriteSucceeds, Succeeded, RemoveIn, InvalidateIn, SetIn, Reply, Watched
  <2>2. Reply[k].did
    BY <1>1, <1>7 DEF Reply, AnswerNow
  <2> QED
    BY <1>7, <2>1, <2>2 DEF Entry
<1> QED  BY <1>3, <1>4, <1>5, <1>6, <1>7

LEMMA DoneWrite ==
  ASSUME WebTypeOK, SessionsInv, TruthInv, ReadsInv, DoneInv,
         \/ Press \/ ServeWrite \/ RefuseWrite \/ WriteUnauthorized
         \/ WriteSucceeds \/ WriteEndsSession \/ WriteFails
  PROVE  DoneInv'
<1>1. CASE Press \/ ServeWrite \/ RefuseWrite \/ WriteUnauthorized \/ WriteFails
  <2>1. write'.phase # "done"
    BY <1>1 DEF Press, ServeWrite, RefuseWrite, WriteUnauthorized, WriteFails, Settled,
                WebTypeOK, WriteFits
  <2> QED  BY <2>1, DoneNot
<1>2. CASE WriteSucceeds
  BY <1>2, DoneSucceeds
<1>3. CASE WriteEndsSession
  BY <1>3, DoneNot DEF WriteEndsSession, EndSession, Settled, SessionsInv, WriteOfSession
<1> QED  BY <1>1, <1>2, <1>3

LEMMA DoneUser ==
  ASSUME WebTypeOK, SessionsInv, WritesAreOfThePast, DoneInv,
         \/ LeavePage \/ ReopenPage \/ Ages \/ SignOut \/ SignIn \/ Flush \/ Reload
         \/ StatusMoves \/ RoleMoves \/ Revoke
  PROVE  DoneInv'
<1>1. CASE SignOut
  BY <1>1, DoneNot DEF SignOut, EndSession, SessionsInv, WriteOfSession
<1>2. CASE SignIn
  <2>1. session' # write'.of
    BY <1>2 DEF SignIn, WritesAreOfThePast, WebTypeOK, WriteFits, PastFits
  <2> QED  BY <2>1, DoneNot
<1>3. CASE Reload
  <2>1. write'.phase # "done"
    BY <1>3 DEF Reload, Settled
  <2> QED  BY <2>1, DoneNot
<1>4. CASE LeavePage \/ ReopenPage \/ Ages \/ Flush \/ StatusMoves \/ RoleMoves \/ Revoke
  <2>1. /\ UNCHANGED <<op, screen, write, session>>
        /\ past'.overtaken = past.overtaken /\ past'.prefetched = past.prefetched
    BY <1>4 DEF LeavePage, ReopenPage, Ages, Flush, StatusMoves, RoleMoves, Revoke, WebTypeOK,
                PastFits
  <2>2. /\ DOMAIN cache' = Watched
        /\ \A k \in Watched :
             /\ cache[k] = NoAnswer => cache'[k] = NoAnswer
             /\ cache'[k] # NoAnswer /\ cache'[k].age = "fresh" =>
                  /\ cache[k] # NoAnswer /\ cache[k].age = "fresh"
                  /\ cache'[k].answer = cache[k].answer
    BY <1>4 DEF LeavePage, ReopenPage, Ages, Age, Flush, StatusMoves, RoleMoves, Revoke,
                WebTypeOK, CacheFits, Entries
  <2>3. \A k \in Watched : reading'[k] # NoAnswer =>
           reading[k] # NoAnswer /\ reading'[k] = reading[k]
    BY <1>4 DEF LeavePage, ReopenPage, Ages, Flush, StatusMoves, RoleMoves, Revoke, CancelIn,
                WebTypeOK, ReadsFit
  <2> QED
    BY <2>1, <2>2, <2>3, DoneKeeps
<1> QED  BY <1>1, <1>2, <1>3, <1>4

\* That, with where an answer that knows of the write can come from, and with
\* the reads that are on their way while a page waits for one.
OwnWritesInv == TruthInv /\ ReadsInv /\ WritesAreOfThePast /\ DoneInv

LEMMA OwnWritesStep ==
  WebTypeOK /\ SessionsInv /\ OwnWritesInv /\ [WebNext]_webVars => OwnWritesInv'
<1> SUFFICES ASSUME WebTypeOK, SessionsInv, OwnWritesInv, [WebNext]_webVars
             PROVE  OwnWritesInv'
  OBVIOUS
<1>1. TruthInv' /\ ReadsInv' /\ WritesAreOfThePast'
  BY TruthStep, ReadsStep, PastWrites DEF OwnWritesInv
<1>2. DoneInv'
  <2>1. CASE UNCHANGED webVars
    BY <2>1 DEF webVars, OwnWritesInv, DoneInv, Excepted, Watched
  <2>2. CASE WebNext
    BY <2>2, DoneRead, DoneServe, DoneArrives, DoneWrite, DoneUser DEF WebNext, OwnWritesInv
  <2> QED  BY <2>1, <2>2
<1> QED  BY <1>1, <1>2 DEF OwnWritesInv

\* After an operation was done, nothing fresh on a page is from before it, unless
\* its hook leaves that key to age or a later read overtook the answer; and no
\* page shows it done that was not: the invalidations of every mutation reach
\* what it changes, whatever reads they race.
THEOREM WhatTheUserDidShows == WebSpec => []OwnWritesShow
<1>1. OwnWritesInv => OwnWritesShow
  BY DEF OwnWritesInv, DoneInv, TruthInv, Guessed, Excepted, OwnWritesShow, Loaded, Shown
<1>2. WebInit => WebTypeOK /\ SessionsInv /\ OwnWritesInv
  BY WebTypeInit, SessionsInit, TruthInit, ReadsInit, DoneInit DEF OwnWritesInv
<1> QED
  BY <1>1, <1>2, WebTypeStep, SessionsStep, OwnWritesStep, PTL DEF WebSpec

-----------------------------------------------------------------------------
(* Induction over sets of numbers, recursion over the elements of a        *)
(* sequence, and what is left of a sequence without one of them.           *)

\* Induction over the numbers, of a set of them.
LEMMA LeastOfSome ==
  ASSUME NEW T \in SUBSET Nat, T # {} PROVE \E m \in T : \A n \in T : m <= n
<1> DEFINE R == OpToRel(<, Nat)
<1>1. \A a, b \in Nat : <<a, b>> \in R <=> a < b
  BY DEF OpToRel
<1>2. IsWellFoundedOn(R, Nat)
  BY NatLessThanWellFounded
<1> HIDE DEF R
<1>3. PICK m \in T : \A n \in T : ~(<<n, m>> \in R)
  BY <1>2, WFMin
<1>4. ASSUME NEW n \in T PROVE m <= n
  <2>1. n \in Nat /\ m \in Nat /\ ~(n < m)
    BY <1>1, <1>3
  <2> QED  BY <2>1
<1> QED  BY <1>4

LEMMA AllOfThem ==
  ASSUME NEW N \in Nat, NEW T, 0 \in T, \A n \in 1..N : n - 1 \in T => n \in T
  PROVE  0..N \subseteq T
<1> SUFFICES ASSUME (0..N) \ T # {} PROVE FALSE
  OBVIOUS
<1>1. PICK m \in (0..N) \ T : \A n \in (0..N) \ T : m <= n
  <2>1. (0..N) \ T \in SUBSET Nat
    OBVIOUS
  <2> QED  BY <2>1, LeastOfSome
<1>2. m \in 1..N /\ m - 1 \in 0..N
  BY <1>1
<1> QED  BY <1>1, <1>2

\* A recursion over the prefixes of a sequence has a solution.
Solves(g, V, N, base, step) ==
    /\ g \in [0..N -> V]
    /\ g[0] = base /\ \A i \in 1..N : g[i] = step[<<g[i - 1], i>>]

LEMMA Unrolls ==
  ASSUME NEW V, NEW N \in Nat, NEW base \in V, NEW step \in [V \X (1..N) -> V]
  PROVE  \E g : Solves(g, V, N, base, step)
<1> DEFINE T == {n \in 0..N : \E g \in [0..n -> V] :
                    g[0] = base /\ \A i \in 1..n : g[i] = step[<<g[i - 1], i>>]}
<1>1. 0 \in T
  <2> DEFINE h == [i \in 0..0 |-> base]
  <2>1. h \in [0..0 -> V] /\ h[0] = base /\ \A i \in 1..0 : h[i] = step[<<h[i - 1], i>>]
    OBVIOUS
  <2> HIDE DEF h
  <2> QED  BY <2>1
<1>2. ASSUME NEW n \in 1..N, n - 1 \in T PROVE n \in T
  <2>1. PICK g \in [0..(n - 1) -> V] :
            g[0] = base /\ \A i \in 1..(n - 1) : g[i] = step[<<g[i - 1], i>>]
    BY <1>2
  <2> DEFINE h == [i \in 0..n |-> IF i = n THEN step[<<g[n - 1], n>>] ELSE g[i]]
  <2>2. h \in [0..n -> V]
    BY <2>1
  <2>3. h[0] = base
    BY <2>1
  <2>4. ASSUME NEW i \in 1..n PROVE h[i] = step[<<h[i - 1], i>>]
    <3>1. CASE i = n
      <4>1. i - 1 \in 0..n /\ i - 1 # n
        BY <3>1
      <4> QED  BY <3>1, <4>1
    <3>2. CASE i # n
      <4>1. i \in 1..(n - 1) /\ i - 1 \in 0..n /\ i - 1 # n /\ i \in 0..n
        BY <3>2
      <4> QED  BY <2>1, <3>2, <4>1
    <3> QED  BY <3>1, <3>2
  <2> HIDE DEF h
  <2> QED  BY <2>2, <2>3, <2>4
<1> HIDE DEF T
<1>3. N \in T
  BY <1>1, <1>2, AllOfThem
<1> QED  BY <1>3 DEF T, Solves

\* A sequence without one of its elements.
LEMMA OneTakenOut ==
  ASSUME NEW S, NEW s \in Seq(S), NEW n \in 1..Len(s)
  PROVE  /\ RemoveAt(s, n) \in Seq(S) /\ Len(RemoveAt(s, n)) = Len(s) - 1
         /\ \A j \in 1..(Len(s) - 1) :
               RemoveAt(s, n)[j] = IF j < n THEN s[j] ELSE s[j + 1]
<1> DEFINE a == SubSeq(s, 1, n - 1)
           b == SubSeq(s, n + 1, Len(s))
<1>1. a \in Seq(S) /\ Len(a) = n - 1 /\ \A j \in 1..(n - 1) : a[j] = s[j]
  BY SubSeqProperties
<1>2. b \in Seq(S) /\ Len(b) = Len(s) - n /\ \A j \in 1..(Len(s) - n) : b[j] = s[n + j]
  BY SubSeqProperties
<1>3. RemoveAt(s, n) = a \o b
  BY DEF RemoveAt
<1> HIDE DEF a, b
<1>4. /\ a \o b \in Seq(S) /\ Len(a \o b) = Len(a) + Len(b)
      /\ \A j \in 1..(Len(a) + Len(b)) :
            (a \o b)[j] = IF j <= Len(a) THEN a[j] ELSE b[j - Len(a)]
  BY <1>1, <1>2, ConcatProperties
<1>5. ASSUME NEW j \in 1..(Len(s) - 1)
      PROVE  (a \o b)[j] = IF j < n THEN s[j] ELSE s[j + 1]
  <2>0. j \in 1..(Len(a) + Len(b)) /\ j \in Nat /\ n \in Nat
    BY <1>1, <1>2
  <2>1. CASE j < n
    BY <1>1, <1>4, <2>0, <2>1
  <2>2. CASE ~(j < n)
    <3>1. PICK m \in 1..(Len(s) - n) : m = j - (n - 1)
      BY <2>0, <2>2
    <3>2. (a \o b)[j] = b[m] /\ b[m] = s[n + m] /\ n + m = j + 1
      BY <1>1, <1>2, <1>4, <2>0, <2>2, <3>1
    <3> QED  BY <2>2, <3>2
  <2> QED  BY <2>1, <2>2
<1>6. Len(a) + Len(b) = Len(s) - 1
  BY <1>1, <1>2
<1> QED  BY <1>3, <1>4, <1>5, <1>6

-----------------------------------------------------------------------------
(* The operations a run is asked for (RunScope).                           *)

\* An operation is listed once, under an id given out.
Listing(endpoints, ids) ==
    /\ DOMAIN endpoints \subseteq 1..ids
    /\ \A i, j \in DOMAIN endpoints : endpoints[i].op = endpoints[j].op => i = j

\* What was listed then, and the ids unticked of it, against the rows there are
\* now: an id names what it named, and an id unticked whose row stands was listed.
Agrees(then, unticked, now) ==
    /\ \A i \in DOMAIN then \cap DOMAIN now : now[i].op = then[i].op
    /\ unticked \cap DOMAIN now \subseteq DOMAIN then

HeaderRows == [key : Tokens \cup Typed \cup {Blank}, value : Values \cup {Blank}]

FormFits(f, ids) ==
    /\ DOMAIN f = {"enteredTargetUrl", "timeBudget", "headers", "excluded", "edits"}
    /\ f.headers \in Seq(HeaderRows) /\ Len(f.headers) <= MAX_HEADERS
    /\ f.excluded \subseteq 1..ids

RequestFits(q, now, ids) ==
    /\ FormFits(q.form, ids) /\ Listing(q.listed, ids)
    /\ Agrees(q.listed, q.form.excluded, now)

\* A form that can be sent: its budget and its URL are filled in.
FieldsFilled(f) == f.timeBudget \in TimeBudgets /\ f.enteredTargetUrl # Blank

\* The stored run is of the form it was asked with: its headers, and of the
\* endpoints unticked those that were there; what is there still is still left out.
RunFits(run, now, ids) ==
    /\ RequestFits(run.asked, now, ids)
    /\ run.customHeaders = CustomHeaders(run.asked.form)
    /\ run.excludedEndpointIds \subseteq run.asked.form.excluded
    /\ run.asked.form.excluded \cap DOMAIN now \subseteq run.excludedEndpointIds

OpsExcluded(run, now) == {now[i].op : i \in run.excludedEndpointIds \cap DOMAIN now}

JobFits(j, ids) ==
    /\ RunFits(j.made, j.rows, ids)
    /\ j.tested = ExcludeOperationsFromSpec(j.spec, OpsExcluded(j.made, j.rows))

\* The form, the request, the run and the job made of it agree, each with the
\* rows as they are now: ids are never given out again, so an id names what it
\* named however often the specification was replaced meanwhile.
ScopeInv ==
    /\ lastId \in Nat /\ (spec # Nothing => spec \in Documents)
    /\ Listing(rows, lastId) /\ Listing(listed, lastId) /\ Agrees(listed, {}, rows)
    /\ form # Nothing => FormFits(form, lastId) /\ Agrees(listed, form.excluded, rows)
    /\ asked # Nothing => RequestFits(asked, rows, lastId) /\ FieldsFilled(asked.form)
    /\ made # Nothing => RunFits(made, rows, lastId)
    /\ job # Nothing => JobFits(job, lastId)

LEMMA ScopeStarts == ScopeInit => ScopeInv
BY DEF ScopeInit, ScopeInv, Listing, Agrees

\* Rows that go, and rows under new ids, leave all that was asked as it was.
LEMMA RowsMove ==
  ASSUME ScopeInv, lastId' \in Nat, lastId <= lastId',
         spec' # Nothing => spec' \in Documents,
         Listing(rows', lastId'),
         \A i \in DOMAIN rows' : i <= lastId => i \in DOMAIN rows /\ rows'[i].op = rows[i].op,
         UNCHANGED <<listed, lastUrl, form, asked, made, job>>
  PROVE  ScopeInv'
<1>0. lastId \in Nat
  BY DEF ScopeInv
<1>1. 1..lastId \subseteq 1..lastId'
  BY <1>0
<1>2. ASSUME NEW then, NEW unticked, DOMAIN then \subseteq 1..lastId, unticked \subseteq 1..lastId,
             Agrees(then, unticked, rows)
      PROVE  Agrees(then, unticked, rows')
  <2>1. \A i \in DOMAIN rows' : i \in DOMAIN then \cup unticked
                                  => i \in DOMAIN rows /\ rows'[i].op = rows[i].op
    <3> SUFFICES ASSUME NEW i \in DOMAIN rows', i \in DOMAIN then \cup unticked
                 PROVE  i \in DOMAIN rows /\ rows'[i].op = rows[i].op
      OBVIOUS
    <3>1. i \in 1..lastId
      BY <1>2
    <3> QED  BY <3>1, <1>0
  <2> QED  BY <1>2, <2>1 DEF Agrees
<1>3. ASSUME NEW endpoints, Listing(endpoints, lastId) PROVE Listing(endpoints, lastId')
  BY <1>1, <1>3 DEF Listing
<1>4. ASSUME NEW f, FormFits(f, lastId) PROVE FormFits(f, lastId')
  BY <1>1, <1>4 DEF FormFits
<1>5. ASSUME NEW q, NEW now, RequestFits(q, now, lastId) PROVE RequestFits(q, now, lastId')
  BY <1>3, <1>4, <1>5 DEF RequestFits
<1>6. ASSUME NEW q, RequestFits(q, rows, lastId) PROVE RequestFits(q, rows', lastId')
  <2>1. RequestFits(q, rows, lastId')
    BY <1>5, <1>6
  <2>2. Agrees(q.listed, q.form.excluded, rows')
    BY <1>2, <1>6 DEF RequestFits, FormFits, Listing
  <2> QED  BY <2>1, <2>2 DEF RequestFits
<1>7. ASSUME NEW run, RunFits(run, rows, lastId) PROVE RunFits(run, rows', lastId')
  <2>1. \A i \in DOMAIN rows' : i \in 1..lastId => i \in DOMAIN rows
    BY <1>0
  <2>2. run.asked.form.excluded \cap DOMAIN rows' \subseteq DOMAIN rows
    BY <2>1, <1>7 DEF RunFits, RequestFits, FormFits
  <2> QED  BY <2>2, <1>6, <1>7 DEF RunFits
<1>8. ASSUME NEW j, JobFits(j, lastId) PROVE JobFits(j, lastId')
  BY <1>5, <1>8 DEF JobFits, RunFits
<1>9. Agrees(listed, {}, rows') /\ (form # Nothing => Agrees(listed, form.excluded, rows'))
  BY <1>2 DEF ScopeInv, Listing, FormFits
<1>10. Listing(listed', lastId')
  BY <1>3 DEF ScopeInv
<1>11. form' # Nothing => FormFits(form', lastId') /\ Agrees(listed', form'.excluded, rows')
  BY <1>4, <1>9 DEF ScopeInv
<1>12. asked' # Nothing => RequestFits(asked', rows', lastId') /\ FieldsFilled(asked'.form)
  BY <1>6 DEF ScopeInv
<1>13. made' # Nothing => RunFits(made', rows', lastId')
  BY <1>7 DEF ScopeInv
<1>14. job' # Nothing => JobFits(job', lastId')
  BY <1>8 DEF ScopeInv
<1> QED
  BY <1>9, <1>10, <1>11, <1>12, <1>13, <1>14 DEF ScopeInv

LEMMA Enumerated ==
  ASSUME NEW S, IsFiniteSet(S)
  PROVE  /\ SetToSeq(S) \in [1..Cardinality(S) -> S] /\ Cardinality(S) \in Nat
         /\ Len(SetToSeq(S)) = Cardinality(S)
         /\ \A i, j \in 1..Cardinality(S) : SetToSeq(S)[i] = SetToSeq(S)[j] => i = j
<1>1. Cardinality(S) \in Nat /\ ExistsBijection(1..Cardinality(S), S)
  BY FS_CardinalityType
<1>2. PICK f \in [1..Cardinality(S) -> S] : IsInjective(f)
  BY <1>1 DEF ExistsBijection, Bijection, Injection
<1>3. SetToSeq(S) \in [1..Cardinality(S) -> S] /\ IsInjective(SetToSeq(S))
  BY <1>2 DEF SetToSeq
<1>4. SetToSeq(S) \in Seq(S)
  BY <1>1, <1>3
<1>5. Len(SetToSeq(S)) = Cardinality(S)
  BY <1>1, <1>3, <1>4
<1> QED  BY <1>1, <1>3, <1>5 DEF IsInjective

LEMMA RowsStep ==
  ASSUME ScopeInv,
         \/ \E d \in Documents : PersistSpec(d)
         \/ \E o \in Operations : CreateManual(o)
         \/ \E i \in DOMAIN rows : RemoveEndpoint(i)
  PROVE  ScopeInv'
<1>1. ASSUME NEW d \in Documents, PersistSpec(d) PROVE ScopeInv'
  <2> DEFINE found == SetToSeq(ExtractEndpoints(d))
             n == Cardinality(ExtractEndpoints(d))
  <2>1. IsFiniteSet(ExtractEndpoints(d))
    BY RunScopeAssumption, FS_Subset DEF ExtractEndpoints
  <2>2. /\ found \in [1..n -> ExtractEndpoints(d)] /\ n \in Nat /\ Len(found) = n
        /\ \A i, j \in 1..n : found[i] = found[j] => i = j
    BY <2>1, Enumerated
  <2>3. /\ spec' = d /\ lastId' = lastId + n
        /\ rows' = [i \in lastId + 1 .. lastId' |-> NewEndpoint(found[i - lastId], FALSE)]
        /\ UNCHANGED <<listed, lastUrl, form, asked, made, job>>
    BY <1>1, <2>2 DEF PersistSpec
  <2> HIDE DEF found, n
  <2>4. lastId \in Nat
    BY DEF ScopeInv
  <2>5. Listing(rows', lastId')
    <3>1. DOMAIN rows' \subseteq 1..lastId'
      BY <2>2, <2>3, <2>4
    <3>2. \A i \in DOMAIN rows' : rows'[i].op = found[i - lastId] /\ i - lastId \in 1..n /\ i \in Int
      BY <2>2, <2>3, <2>4 DEF NewEndpoint
    <3> QED  BY <3>1, <3>2, <2>2, <2>4 DEF Listing
  <2>6. \A i \in DOMAIN rows' : ~(i <= lastId)
    BY <2>2, <2>3, <2>4
  <2>7. lastId' \in Nat /\ lastId <= lastId' /\ spec' \in Documents
    BY <2>2, <2>3, <2>4
  <2> QED  BY <2>3, <2>5, <2>6, <2>7, RowsMove
<1>2. ASSUME NEW o \in Operations, CreateManual(o) PROVE ScopeInv'
  <2>1. /\ lastId' = lastId + 1 /\ lastId \in Nat
        /\ DOMAIN rows' = DOMAIN rows \cup {lastId + 1}
        /\ \A i \in DOMAIN rows : rows'[i] = rows[i]
        /\ lastId + 1 \notin DOMAIN rows /\ rows'[lastId + 1].op = o
    <3>1. lastId' = lastId + 1
          /\ rows' = [i \in DOMAIN rows \cup {lastId'} |->
                        IF i = lastId' THEN NewEndpoint(o, TRUE) ELSE rows[i]]
      BY <1>2 DEF CreateManual
    <3>2. DOMAIN rows \subseteq 1..lastId /\ lastId \in Nat
      BY DEF ScopeInv, Listing
    <3> QED  BY <3>1, <3>2 DEF NewEndpoint
  <2>2. Listing(rows', lastId')
    <3>1. /\ DOMAIN rows \subseteq 1..lastId
          /\ \A i, j \in DOMAIN rows : rows[i].op = rows[j].op => i = j
          /\ \A i \in DOMAIN rows : rows[i].op # o
      BY <1>2 DEF CreateManual, ScopeInv, Listing
    <3> QED  BY <2>1, <3>1 DEF Listing
  <2>3. /\ \A i \in DOMAIN rows' : i <= lastId => i \in DOMAIN rows /\ rows'[i].op = rows[i].op
        /\ lastId' \in Nat /\ lastId <= lastId'
    BY <2>1
  <2>4. spec' # Nothing => spec' \in Documents
    BY <1>2 DEF CreateManual, ScopeInv
  <2> QED  BY <1>2, <2>2, <2>3, <2>4, RowsMove DEF CreateManual
<1>3. ASSUME NEW i \in DOMAIN rows, RemoveEndpoint(i) PROVE ScopeInv'
  <2>1. Listing(rows', lastId')
    BY <1>3 DEF RemoveEndpoint, ScopeInv, Listing
  <2>2. /\ \A j \in DOMAIN rows' : j \in DOMAIN rows /\ rows'[j].op = rows[j].op
        /\ lastId' = lastId /\ lastId \in Nat /\ lastId <= lastId
        /\ spec' # Nothing => spec' \in Documents
    BY <1>3 DEF RemoveEndpoint, ScopeInv
  <2> QED  BY <1>3, <2>1, <2>2, RowsMove DEF RemoveEndpoint
<1> QED  BY <1>1, <1>2, <1>3
LEMMA LastTakenOff ==
  ASSUME NEW S, NEW s \in Seq(S), s # <<>>
  PROVE  Front(s) \in Seq(S) /\ Len(Front(s)) = Len(s) - 1
<1>1. Len(s) \in Nat \ {0}
  BY EmptySeq
<1>2. PICK m \in Nat : m = Len(s) - 1
  BY <1>1
<1>3. SubSeq(s, 1, m) \in Seq(S) /\ Len(SubSeq(s, 1, m)) = m
  BY <1>1, <1>2, SubSeqProperties
<1> QED  BY <1>2, <1>3 DEF Front

LEMMA RowsAreHeaderRows ==
  /\ Presets \subseteq HeaderRows /\ BlankRow \in HeaderRows
  /\ \A h \in HeaderRows : /\ \A k \in Typed \cup {Blank} : [h EXCEPT !["key"] = k] \in HeaderRows
                           /\ \A v \in Values : [h EXCEPT !["value"] = v] \in HeaderRows
BY RunScopeAssumption DEF HeaderRows, BlankRow

\* No edit of the form takes it past the limit of header rows, or unticks an
\* endpoint that is not listed.
LEMMA EditsFit ==
  ASSUME NEW f, FormFits(f, lastId), NEW g \in Edited(f), Listing(listed, lastId)
  PROVE  FormFits(g, lastId) /\ g.excluded \subseteq f.excluded \cup DOMAIN listed
<1> USE DEF FormFits
<1>0. MAX_HEADERS \in Nat \ {0} /\ Len(f.headers) \in Nat
  BY RunScopeAssumption
<1>1. ASSUME NEW h \in Seq(HeaderRows), Len(h) <= MAX_HEADERS, g = [f EXCEPT !.headers = h]
      PROVE  FormFits(g, lastId) /\ g.excluded \subseteq f.excluded \cup DOMAIN listed
  BY <1>1
<1>2. ASSUME NEW e, e \subseteq f.excluded \cup DOMAIN listed, g = [f EXCEPT !.excluded = e]
      PROVE  FormFits(g, lastId) /\ g.excluded \subseteq f.excluded \cup DOMAIN listed
  BY <1>2 DEF Listing
<1>3. CASE \E i \in DOMAIN listed : g = ToggleEndpoint(f, i)
  BY <1>3, <1>2 DEF ToggleEndpoint
<1>4. CASE g \in {IncludeAllEndpoints(f), ExcludeAllEndpoints(f)}
  BY <1>4, <1>2 DEF IncludeAllEndpoints, ExcludeAllEndpoints
<1>5. CASE g = AddAnotherHeader(f)
  <2>1. CASE g = f
    BY <2>1
  <2>2. CASE g # f
    <3>1. Len(f.headers) < MAX_HEADERS /\ g = [f EXCEPT !.headers = Append(f.headers, BlankRow)]
      BY <1>5, <2>2, <1>0 DEF AddAnotherHeader
    <3>2. /\ Append(f.headers, BlankRow) \in Seq(HeaderRows)
          /\ Len(Append(f.headers, BlankRow)) = Len(f.headers) + 1
      BY AppendProperties, RowsAreHeaderRows
    <3> QED  BY <3>1, <3>2, <1>0, <1>1
  <2> QED  BY <2>1, <2>2
<1>6. ASSUME NEW h \in Presets, g = AddPresetHeader(f, h)
      PROVE  FormFits(g, lastId) /\ g.excluded \subseteq f.excluded \cup DOMAIN listed
  <2> DEFINE kept == IF f.headers # <<>> /\ Last(f.headers) = BlankRow
                     THEN Front(f.headers) ELSE f.headers
  <2>1. kept \in Seq(HeaderRows) /\ Len(kept) <= Len(f.headers) /\ Len(kept) \in Nat
    BY LastTakenOff, <1>0
  <2>2. g = f \/ (Len(f.headers) < MAX_HEADERS /\ g = [f EXCEPT !.headers = Append(kept, h)])
    BY <1>6, <1>0 DEF AddPresetHeader
  <2> HIDE DEF kept
  <2>3. Append(kept, h) \in Seq(HeaderRows) /\ Len(Append(kept, h)) = Len(kept) + 1
    BY <2>1, AppendProperties, RowsAreHeaderRows
  <2>4. CASE g # f
    <3>1. Len(Append(kept, h)) <= MAX_HEADERS
      BY <2>1, <2>2, <2>3, <2>4, <1>0
    <3> QED  BY <2>2, <2>3, <2>4, <3>1, <1>1
  <2> QED  BY <2>4
<1>7. ASSUME NEW n \in DOMAIN f.headers, g = RemoveHeader(f, n)
      PROVE  FormFits(g, lastId) /\ g.excluded \subseteq f.excluded \cup DOMAIN listed
  <2>1. g = [f EXCEPT !.headers = RemoveAt(f.headers, n)] /\ n \in 1..Len(f.headers)
    BY <1>7 DEF RemoveHeader
  <2>2. RemoveAt(f.headers, n) \in Seq(HeaderRows) /\ Len(RemoveAt(f.headers, n)) = Len(f.headers) - 1
    BY <2>1, OneTakenOut
  <2> QED  BY <2>1, <2>2, <1>0, <1>1
<1>8. ASSUME NEW n \in DOMAIN f.headers, NEW row \in HeaderRows,
             g = [f EXCEPT !.headers = [f.headers EXCEPT ![n] = row]]
      PROVE  FormFits(g, lastId) /\ g.excluded \subseteq f.excluded \cup DOMAIN listed
  <2>1. /\ [f.headers EXCEPT ![n] = row] \in Seq(HeaderRows)
        /\ Len([f.headers EXCEPT ![n] = row]) = Len(f.headers)
    BY ExceptSeq
  <2> QED  BY <1>8, <2>1, <1>1
<1>9. CASE \E n \in DOMAIN f.headers, k \in Typed \cup {Blank} : g = UpdateHeader(f, n, "key", k)
  <2>1. PICK n \in DOMAIN f.headers, k \in Typed \cup {Blank} : g = UpdateHeader(f, n, "key", k)
    BY <1>9
  <2>2. f.headers[n] \in HeaderRows
    BY <2>1
  <2>3. [f.headers[n] EXCEPT !["key"] = k] \in HeaderRows
    BY <2>2, RowsAreHeaderRows
  <2>4. g = [f EXCEPT !.headers = [f.headers EXCEPT ![n] = [f.headers[n] EXCEPT !["key"] = k]]]
    BY <2>1 DEF UpdateHeader
  <2> QED  BY <2>3, <2>4, <1>8
<1>10. CASE \E n \in DOMAIN f.headers, v \in Values : g = UpdateHeader(f, n, "value", v)
  <2>1. PICK n \in DOMAIN f.headers, v \in Values : g = UpdateHeader(f, n, "value", v)
    BY <1>10
  <2>2. f.headers[n] \in HeaderRows
    BY <2>1
  <2>3. [f.headers[n] EXCEPT !["value"] = v] \in HeaderRows
    BY <2>2, RowsAreHeaderRows
  <2>4. g = [f EXCEPT !.headers = [f.headers EXCEPT ![n] = [f.headers[n] EXCEPT !["value"] = v]]]
    BY <2>1 DEF UpdateHeader
  <2> QED  BY <2>3, <2>4, <1>8
<1>11. CASE \/ \E b \in Budgets : g = [f EXCEPT !.timeBudget = b]
            \/ \E u \in Urls \cup {Blank} : g = [f EXCEPT !.enteredTargetUrl = u]
  BY <1>11
<1> QED
  BY <1>3, <1>4, <1>5, <1>6, <1>7, <1>9, <1>10, <1>11 DEF Edited

LEMMA FormStep ==
  ASSUME ScopeInv,
         OpenForm \/ CloseForm \/ ListArrives \/ SuitesArrive \/ Edit \/ PressCreate
  PROVE  ScopeInv'
<1>1. CASE OpenForm
  <2>1. FormFits(NewForm, lastId) /\ NewForm.excluded = {}
    BY RunScopeAssumption, EmptySeq DEF FormFits, NewForm
  <2> QED  BY <1>1, <2>1 DEF OpenForm, ScopeInv, Agrees
<1>2. CASE CloseForm
  BY <1>2 DEF CloseForm, ScopeInv
<1>3. CASE ListArrives
  BY <1>3 DEF ListArrives, ScopeInv, Agrees
<1>4. CASE SuitesArrive
  BY <1>4 DEF SuitesArrive, ScopeInv
<1>5. CASE Edit
  <2>1. PICK g \in Edited(form) : form' = [g EXCEPT !.edits = @ + 1]
    BY <1>5 DEF Edit
  <2>2. /\ FormFits(form, lastId) /\ Listing(listed, lastId)
        /\ Agrees(listed, form.excluded, rows)
    BY <1>5 DEF Edit, ScopeInv
  <2>3. FormFits(g, lastId) /\ g.excluded \subseteq form.excluded \cup DOMAIN listed
    BY <2>2, EditsFit
  <2>4. FormFits(form', lastId) /\ form'.excluded = g.excluded
    BY <2>1, <2>3 DEF FormFits
  <2>5. Agrees(listed, form'.excluded, rows)
    BY <2>2, <2>3, <2>4 DEF Agrees
  <2> QED  BY <1>5, <2>4, <2>5 DEF Edit, ScopeInv
<1>6. CASE PressCreate
  <2> DEFINE q == [form EXCEPT !.enteredTargetUrl = TargetUrl(form), !.edits = 0]
  <2>1. form # Nothing /\ form.timeBudget \in TimeBudgets /\ TargetUrl(form) # Blank
    BY <1>6, Zenon DEF PressCreate
  <2>2. asked' = [form |-> q, listed |-> listed]
    BY <1>6, Zenon DEF PressCreate
  <2>3. UNCHANGED <<spec, rows, lastId, listed, lastUrl, form, made, job>>
    BY <1>6, Zenon DEF PressCreate
  <2>4. /\ FormFits(form, lastId) /\ Listing(listed, lastId)
        /\ Agrees(listed, form.excluded, rows)
    BY <2>1, Zenon DEF ScopeInv
  <2>5. /\ DOMAIN q = DOMAIN form /\ q.excluded = form.excluded /\ q.headers = form.headers
        /\ q.timeBudget = form.timeBudget /\ q.enteredTargetUrl = TargetUrl(form)
    BY <2>4 DEF FormFits
  <2> HIDE DEF q
  <2>6. FormFits(q, lastId) /\ FieldsFilled(q)
    BY <2>1, <2>4, <2>5 DEF FormFits, FieldsFilled
  <2>7. RequestFits(asked', rows, lastId) /\ FieldsFilled(asked'.form)
    BY <2>2, <2>4, <2>5, <2>6 DEF RequestFits
  <2> QED  BY <2>3, <2>7 DEF ScopeInv
<1> QED  BY <1>1, <1>2, <1>3, <1>4, <1>5, <1>6

LEMMA RunStep ==
  ASSUME ScopeInv, CreateSuite \/ Run PROVE ScopeInv'
<1>1. CASE CreateSuite
  <2>1. made' # Nothing => RunFits(made', rows, lastId)
    <3>1. CASE made' = made
      BY <1>1, <3>1 DEF CreateSuite, ScopeInv
    <3>2. CASE made' # made
      <4>1. /\ made'.asked = asked /\ made'.customHeaders = CustomHeaders(asked.form)
            /\ made'.excludedEndpointIds = asked.form.excluded \cap DOMAIN rows
            /\ asked # Nothing
        BY <1>1, <3>2 DEF CreateSuite
      <4>2. RequestFits(asked, rows, lastId)
        BY <4>1 DEF ScopeInv
      <4> QED  BY <4>1, <4>2 DEF RunFits
    <3> QED  BY <3>1, <3>2
  <2>2. /\ asked' = Nothing /\ form' \in {form, Nothing}
        /\ UNCHANGED <<spec, rows, lastId, listed, job>>
    BY <1>1 DEF CreateSuite
  <2> QED  BY <2>1, <2>2 DEF ScopeInv
<1>2. CASE Run
  <2>1. /\ job'.made = made /\ job'.rows = rows
        /\ job'.tested = ExcludeOperationsFromSpec(job'.spec, OpsExcluded(made, rows))
    BY <1>2 DEF Run, OpsExcluded
  <2>2. RunFits(made, rows, lastId)
    BY <1>2 DEF Run, ScopeInv
  <2>3. JobFits(job', lastId)
    BY <2>1, <2>2 DEF JobFits
  <2> QED  BY <1>2, <2>3 DEF Run, ScopeInv
<1> QED  BY <1>1, <1>2

LEMMA ScopeStep == ScopeInv /\ [ScopeNext]_scopeVars => ScopeInv'
<1> SUFFICES ASSUME ScopeInv, [ScopeNext]_scopeVars PROVE ScopeInv'
  OBVIOUS
<1>1. CASE UNCHANGED scopeVars
  BY <1>1 DEF scopeVars, ScopeInv
<1>2. CASE ScopeNext
  BY <1>2, RowsStep, FormStep, RunStep DEF ScopeNext
<1> QED  BY <1>1, <1>2

-----------------------------------------------------------------------------
LEMMA NamesOfRows ==
  ASSUME NEW f, f.headers \in Seq(HeaderRows)
  PROVE  /\ IsFiniteSet(DOMAIN CustomHeaders(f))
         /\ Cardinality(DOMAIN CustomHeaders(f)) <= Cardinality(ValidHeaders(f))
         /\ Cardinality(DOMAIN CustomHeaders(f)) <= Len(f.headers)
<1> DEFINE named == ValidHeaders(f)
           keys  == DOMAIN CustomHeaders(f)
           nameOf == [n \in named |-> f.headers[n].key]
<1>1. named \subseteq 1..Len(f.headers) /\ Len(f.headers) \in Nat
  BY DEF ValidHeaders
<1>2. /\ IsFiniteSet(1..Len(f.headers)) /\ Cardinality(1..Len(f.headers)) = Len(f.headers)
      /\ IsFiniteSet(named) /\ Cardinality(named) <= Len(f.headers)
  <2>0. PICK m \in Int : m = Len(f.headers) /\ 0 <= m
    BY <1>1
  <2>1. IsFiniteSet(1..m) /\ Cardinality(1..m) = IF 1 > m THEN 0 ELSE m - 1 + 1
    BY FS_Interval
  <2>2. Cardinality(1..m) = m
    BY <2>0, <2>1
  <2>3. IsFiniteSet(named) /\ Cardinality(named) <= Cardinality(1..m)
    BY <1>1, <2>0, <2>1, FS_Subset
  <2> QED  BY <2>0, <2>1, <2>2, <2>3
<1>3. nameOf \in Surjection(named, keys)
  BY DEF CustomHeaders, Surjection
<1>4. IsFiniteSet(keys) /\ Cardinality(keys) <= Cardinality(named)
  BY <1>2, <1>3, FS_Surjection
<1>5. Cardinality(keys) \in Nat /\ Cardinality(named) \in Nat
  BY <1>2, <1>4, FS_CardinalityType
<1> QED  BY <1>1, <1>2, <1>4, <1>5

LEMMA FormKeeps == ScopeInv => FormKeepsLimits
<1> SUFFICES ASSUME ScopeInv, asked # Nothing,
                    DOMAIN CustomHeaders(asked.form) \subseteq Tokens,
                    ~(Cardinality(asked.form.excluded) > MAX_EXCLUDED)
             PROVE  DtoAdmits(asked.form)
  BY DEF FormKeepsLimits
<1> DEFINE f == asked.form
<1>1. f.headers \in Seq(HeaderRows) /\ Len(f.headers) <= MAX_HEADERS /\ FieldsFilled(f)
  BY DEF ScopeInv, RequestFits, FormFits
<1> HIDE DEF f
<1>2. IsFiniteSet(DOMAIN CustomHeaders(f)) /\ Cardinality(DOMAIN CustomHeaders(f)) <= Len(f.headers)
  BY <1>1, NamesOfRows
<1>3. Cardinality(DOMAIN CustomHeaders(f)) <= MAX_HEADERS
  <2>1. /\ Cardinality(DOMAIN CustomHeaders(f)) \in Nat /\ Len(f.headers) \in Nat
        /\ MAX_HEADERS \in Nat
    BY <1>1, <1>2, RunScopeAssumption, FS_CardinalityType
  <2> QED  BY <1>1, <1>2, <2>1
<1>4. f.timeBudget \in TimeBudgets /\ f.enteredTargetUrl # Blank
  BY <1>1 DEF FieldsFilled
<1>5. Cardinality(f.excluded) <= MAX_EXCLUDED
  <2>1. FormFits(f, lastId) /\ lastId \in Nat
    BY DEF f, ScopeInv, RequestFits
  <2>2. IsFiniteSet(1..lastId)
    BY <2>1, FS_Interval
  <2>3. IsFiniteSet(f.excluded)
    BY <2>1, <2>2, FS_Subset DEF FormFits
  <2>4. Cardinality(f.excluded) \in Nat /\ MAX_EXCLUDED \in Nat
    BY <2>3, FS_CardinalityType, RunScopeAssumption
  <2>5. ~(Cardinality(f.excluded) > MAX_EXCLUDED)
    BY DEF f
  <2> QED  BY <2>4, <2>5
<1> QED
  BY <1>3, <1>4, <1>5, Zenon DEF f, DtoAdmits, HeaderMapAdmits

LEMMA HeadersAreEntered == ScopeInv => HeadersAreAsEntered
<1> SUFFICES ASSUME ScopeInv, made # Nothing PROVE HeadersAreAsEntered
  BY DEF HeadersAreAsEntered
<1> DEFINE f == made.asked.form
<1>1. f.headers \in Seq(HeaderRows) /\ made.customHeaders = CustomHeaders(f)
  BY DEF ScopeInv, RunFits, RequestFits, FormFits
<1> HIDE DEF f
<1>2. Cardinality(DOMAIN CustomHeaders(f)) <= Cardinality(ValidHeaders(f))
  BY <1>1, NamesOfRows
<1>3. DOMAIN CustomHeaders(f) = {f.headers[n].key : n \in ValidHeaders(f)}
  BY DEF CustomHeaders
<1>4. ASSUME NEW n \in ValidHeaders(f),
             \A o \in ValidHeaders(f) : o > n => f.headers[o].key # f.headers[n].key
      PROVE  CustomHeaders(f)[f.headers[n].key] = f.headers[n].value
  <2> DEFINE k == f.headers[n].key
             IsLast(m) == /\ f.headers[m].key = k
                          /\ \A o \in ValidHeaders(f) : f.headers[o].key = k => o <= m
  <2>1. ValidHeaders(f) \subseteq Nat
    BY <1>1 DEF ValidHeaders
  <2>2. IsLast(n) /\ \A m \in ValidHeaders(f) : IsLast(m) => m = n
    BY <1>4, <2>1
  <2>3. CustomHeaders(f)[k] = f.headers[CHOOSE m \in ValidHeaders(f) : IsLast(m)].value
    BY <1>4 DEF CustomHeaders
  <2> HIDE DEF IsLast
  <2>4. (CHOOSE m \in ValidHeaders(f) : IsLast(m)) = n
    BY <1>4, <2>2
  <2> QED  BY <2>3, <2>4
<1> QED
  BY <1>1, <1>2, <1>3, <1>4 DEF f, HeadersAreAsEntered

LEMMA ScopeIsTicked == ScopeInv => ScopeIsAsTicked
<1> SUFFICES ASSUME ScopeInv, job # Nothing PROVE ScopeIsAsTicked
  BY DEF ScopeIsAsTicked
<1> DEFINE q == job.made.asked
           out == OpsExcluded(job.made, job.rows)
<1>1. /\ Listing(q.listed, lastId) /\ Agrees(q.listed, q.form.excluded, job.rows)
      /\ job.made.excludedEndpointIds \subseteq q.form.excluded
      /\ q.form.excluded \cap DOMAIN job.rows \subseteq job.made.excludedEndpointIds
      /\ job.tested = {o \in job.spec : ~(o.inline /\ o \in out)}
  BY DEF ScopeInv, JobFits, RunFits, RequestFits, ExcludeOperationsFromSpec
<1>2. \A o \in out : \E i \in q.form.excluded \cap DOMAIN q.listed : q.listed[i].op = o
  BY <1>1 DEF OpsExcluded, Agrees
<1>3. \A i \in q.form.excluded \cap DOMAIN q.listed \cap DOMAIN job.rows : q.listed[i].op \in out
  BY <1>1 DEF OpsExcluded, Agrees
<1> HIDE DEF q, out
<1>4. Ticked(q) \cap out = {}
  BY <1>1, <1>2 DEF Ticked, OpsOf, Listing
<1>5. out \subseteq Unticked(q)
  BY <1>2 DEF Unticked, OpsOf
<1> QED
  BY <1>1, <1>3, <1>4, <1>5 DEF q, ScopeIsAsTicked

LEMMA BadgeCounts ==
  ASSUME NEW q, NEW ids \in Nat, FormFits(q.form, ids), Listing(q.listed, ids)
  PROVE  LET shown == ActiveEndpointCount(q.form, q.listed) IN
         /\ shown <= Cardinality(Ticked(q))
         /\ q.form.excluded \subseteq DOMAIN q.listed => shown = Cardinality(Ticked(q))
<1> DEFINE all == DOMAIN q.listed
           off == q.form.excluded
           on  == all \ off
           nameOf == [i \in on |-> q.listed[i].op]
<1>1. IsFiniteSet(1..ids)
  BY FS_Interval
<1>2. IsFiniteSet(all) /\ IsFiniteSet(off) /\ IsFiniteSet(on)
  BY <1>1, FS_Subset DEF Listing, FormFits
<1>3. Ticked(q) = {q.listed[i].op : i \in on}
  BY DEF Ticked, OpsOf
<1>4. nameOf \in Bijection(on, Ticked(q))
  BY <1>3 DEF Listing, Bijection, Injection, Surjection, IsInjective
<1>5. Cardinality(Ticked(q)) = Cardinality(on)
  BY <1>2, <1>4, FS_Bijection DEF ExistsBijection
<1>6. /\ Cardinality(on) = Cardinality(all) - Cardinality(all \cap off)
      /\ Cardinality(all \cap off) <= Cardinality(off)
      /\ off \subseteq all => all \cap off = off
      /\ Cardinality(all) \in Nat /\ Cardinality(off) \in Nat /\ Cardinality(all \cap off) \in Nat
  BY <1>2, FS_Difference, FS_Subset, FS_CardinalityType
<1>7. ActiveEndpointCount(q.form, q.listed) = Cardinality(all) - Cardinality(off)
  BY DEF ActiveEndpointCount, TotalEndpoints
<1> HIDE DEF all, off, on, nameOf
<1>8. ActiveEndpointCount(q.form, q.listed) <= Cardinality(Ticked(q))
  BY <1>5, <1>6, <1>7
<1>9. off \subseteq all => ActiveEndpointCount(q.form, q.listed) = Cardinality(Ticked(q))
  BY <1>5, <1>6, <1>7
<1> QED
  BY <1>8, <1>9 DEF all, off

LEMMA BadgeRight == ScopeInv => BadgeIsRight
<1> SUFFICES ASSUME ScopeInv, NEW q \in {asked} \cup (IF made = Nothing THEN {} ELSE {made.asked}),
                    q # Nothing
             PROVE  LET shown == ActiveEndpointCount(q.form, q.listed) IN
                    /\ shown <= Cardinality(Ticked(q))
                    /\ q.form.excluded \subseteq DOMAIN q.listed => shown = Cardinality(Ticked(q))
  BY DEF BadgeIsRight
<1>1. FormFits(q.form, lastId) /\ Listing(q.listed, lastId) /\ lastId \in Nat
  BY DEF ScopeInv, RunFits, RequestFits
<1> QED  BY <1>1, BadgeCounts

\* A run tests the operations that were ticked and sends the headers that were
\* entered, within the form's limits, and the badge counts them, however the
\* specification and its rows are replaced between the form, the request and
\* the engine.
THEOREM RunsAreOfTheForm == ScopeSpec => []RunsAreAsAsked
<1>1. ScopeInv => RunsAreAsAsked
  BY FormKeeps, HeadersAreEntered, ScopeIsTicked, BadgeRight DEF RunsAreAsAsked
<1> QED  BY <1>1, ScopeStarts, ScopeStep, PTL DEF ScopeSpec

-----------------------------------------------------------------------------
(* The page of a run's captured requests (RequestPage).                    *)

PageFields == {"open", "canRun", "segment", "filter", "number", "expanded", "error", "loading",
               "confirm", "latest", "choices"}

RowIds == (1..Len(Browsed)) \X (1..MaxRequests)

\* What a list is asked for is a list of the run's requests.
LEMMA AskedIsAList ==
  ASSUME NEW L, NEW logs \in Seq(L), NEW segment, NEW filter
  PROVE  /\ Asked(logs, segment, filter) \in Seq(L)
         /\ Len(logs) = 0 => Len(Asked(logs, segment, filter)) = 0
<1> DEFINE N == Len(logs)
           hit(l) == segment \in {"all", l.endpoint} /\ StatusCodeFilter(filter, l.code)
           more(s, n) == IF hit(logs[n]) THEN Append(s, logs[n]) ELSE s
           Unrolled(f) == f = [n \in 0..N |-> IF n = 0 THEN <<>> ELSE more(f[n - 1], n)]
           step == [p \in Seq(L) \X (1..N) |-> more(p[1], p[2])]
           upTo == CHOOSE f : Unrolled(f)
<1>1. N \in Nat
  OBVIOUS
<1>2. \A s \in Seq(L), n \in 1..N : more(s, n) \in Seq(L)
  BY AppendProperties
<1>3. step \in [Seq(L) \X (1..N) -> Seq(L)] /\ <<>> \in Seq(L)
  BY <1>2
<1> HIDE DEF more
<1>4. \E f : Unrolled(f)
  <2>1. PICK g \in [0..N -> Seq(L)] : g[0] = <<>> /\ \A i \in 1..N : g[i] = step[<<g[i - 1], i>>]
    <3> DEFINE V == Seq(L)
               none == <<>>
    <3>1. none \in V /\ step \in [V \X (1..N) -> V] /\ N \in Nat
      BY <1>1, <1>3
    <3> HIDE DEF step, N, V, none
    <3>2. \E g : Solves(g, V, N, none, step)
      BY <3>1, Unrolls
    <3> QED  BY <3>2 DEF V, none, Solves
  <2>2. ASSUME NEW i \in 1..N PROVE g[i] = more(g[i - 1], i)
    <3>1. g[i - 1] \in Seq(L)
      <4> HIDE DEF N, step
      <4>1. i - 1 \in 0..N
        BY <1>1
      <4> QED  BY <2>1, <4>1
    <3>2. \A x \in Seq(L) : step[<<x, i>>] = more(x, i)
      <4>1. ASSUME NEW x \in Seq(L) PROVE step[<<x, i>>] = more(x, i)
        <5>1. <<x, i>> \in Seq(L) \X (1..N)
          OBVIOUS
        <5> HIDE DEF N
        <5> QED  BY <5>1
      <4> QED  BY <4>1
    <3> QED  BY <2>1, <3>1, <3>2
  <2>3. g = [n \in 0..N |-> IF n = 0 THEN <<>> ELSE more(g[n - 1], n)]
    BY <1>1, <2>1, <2>2
  <2> QED  BY <2>3
<1>5. Unrolled(upTo)
  BY <1>4
<1>6. upTo[0] = <<>> /\ \A n \in 1..N : upTo[n] = more(upTo[n - 1], n)
  <2> HIDE DEF upTo
  <2> QED  BY <1>1, <1>5
<1>7. Asked(logs, segment, filter) = upTo[N]
  BY DEF Asked, more
<1> HIDE DEF upTo, N
<1>8. 0..N \subseteq {n \in 0..N : upTo[n] \in Seq(L)}
  <2> DEFINE T == {n \in 0..N : upTo[n] \in Seq(L)}
  <2>1. 0 \in T
    <3>1. 0 \in 0..N
      BY <1>1
    <3>2. upTo[0] \in Seq(L)
      BY <1>3, <1>6
    <3> QED  BY <3>1, <3>2
  <2>2. ASSUME NEW n \in 1..N, n - 1 \in T PROVE n \in T
    BY <1>1, <1>2, <1>6, <2>2
  <2> HIDE DEF T
  <2>3. 0..N \subseteq T
    BY <1>1, <2>1, <2>2, AllOfThem
  <2> QED  BY <2>3 DEF T
<1> QED
  BY <1>1, <1>6, <1>7, <1>8 DEF N
\* What a run's list says of a segment and a filter: how many requests it has,
\* and a page of them is empty when it begins behind the last.
RowsOfRun(r) == [i \in DOMAIN Browsed[r] |-> [id |-> <<r, i>>, endpoint |-> Browsed[r][i].endpoint,
                                              code |-> Browsed[r][i].code]]
TotalOf(r, segment, filter) == Len(Asked(RowsOfRun(r), segment, filter))

IsAnswer(a, key) ==
    /\ a.run \in DOMAIN Browsed
    /\ a.total \in {0, TotalOf(a.run, key[1], key[2])}
    /\ a.ids = {} <=> a.total <= (key[3] - 1) * PageSize

\* A page but the first was turned to from another, whose answer is kept.
TurnedFrom(key, answers) ==
    \E k \in DOMAIN answers : /\ k[1] = key[1] /\ k[2] = key[2] /\ k[3] # key[3]
                              /\ key[3] <= Pages(answers[k].total)

\* The run the page is open on, the answers of its list, and what they are of.
ListInv ==
    /\ DOMAIN suite = {"runType", "started", "ended", "runs", "status", "tested"}
    /\ DOMAIN list = {"answers", "phase", "last"}
    /\ ~page.open => list.answers = <<>>
    /\ \A k \in DOMAIN list.answers : k[3] \in Nat \ {0} /\ IsAnswer(list.answers[k], k)
    /\ page.open =>
          /\ DOMAIN page = PageFields /\ page.number \in Nat \ {0}
          /\ suite.runs \in DOMAIN Browsed /\ captured \in {<<>>, Browsed[suite.runs]}
          /\ suite.status # "pending"
          /\ list.phase = "settled" => Has(Key)
          /\ list.phase \in {"asking", "settled", "failed"}
          /\ page.number > 1 => TurnedFrom(Key, list.answers)

LEMMA TotalsCount == \A r \in DOMAIN Browsed : \A s, f : TotalOf(r, s, f) \in Nat
<1> SUFFICES ASSUME NEW r \in DOMAIN Browsed, NEW s, NEW f PROVE TotalOf(r, s, f) \in Nat
  OBVIOUS
<1> DEFINE L == {RowsOfRun(r)[i] : i \in DOMAIN Browsed[r]}
<1>1. Browsed[r] \in Seq(Requests)
  BY RequestPageAssumption
<1>2. RowsOfRun(r) \in Seq(L)
  BY <1>1 DEF RowsOfRun
<1> HIDE DEF L
<1>3. Asked(RowsOfRun(r), s, f) \in Seq(L)
  BY <1>2, AskedIsAList
<1> QED  BY <1>3 DEF TotalOf

LEMMA LeastOfTwo == ASSUME NEW a \in Int, NEW b \in Int PROVE Min({a, b}) = IF a <= b THEN a ELSE b
<1> DEFINE m == IF a <= b THEN a ELSE b
<1>1. m \in {a, b} /\ \A y \in {a, b} : m <= y
  OBVIOUS
<1>2. \A x \in {a, b} : (\A y \in {a, b} : x <= y) => x = m
  OBVIOUS
<1> QED  BY <1>1, <1>2 DEF Min

\* The backend's answer to a page of the list.
LEMMA AnswersAreOfTheRun ==
  ASSUME suite.runs \in DOMAIN Browsed, captured \in {<<>>, Browsed[suite.runs]},
         NEW key, key[3] \in Nat \ {0}
  PROVE  IsAnswer(AnswerOf(key), key)
<1> DEFINE r == suite.runs
           L == {WithIds[i] : i \in DOMAIN captured}
           hits == Asked(WithIds, key[1], key[2])
           lo == (key[3] - 1) * PageSize
           hi == Min({key[3] * PageSize, Len(hits)})
           got == ListRequestLogs(WithIds, key[1], key[2], key[3])
<1>1. captured \in Seq(Requests)
  <2>1. Browsed[suite.runs] \in Seq(Requests)
    BY RequestPageAssumption
  <2>2. <<>> \in Seq(Requests)
    OBVIOUS
  <2> QED  BY <2>1, <2>2
<1>2. WithIds \in Seq(L) /\ (captured = <<>> => Len(WithIds) = 0)
  BY <1>1 DEF WithIds
<1> HIDE DEF L
<1>3. hits \in Seq(L) /\ (captured = <<>> => Len(hits) = 0)
  BY <1>2, AskedIsAList
<1>4. captured = Browsed[r] => WithIds = RowsOfRun(r)
  BY DEF WithIds, RowsOfRun
<1>5. Len(hits) \in Nat /\ Len(hits) \in {0, TotalOf(r, key[1], key[2])}
  BY <1>3, <1>4 DEF TotalOf
<1>6. got.total = Len(hits) /\ got.items = SubSeq(hits, lo + 1, hi)
  BY DEF ListRequestLogs
<1> HIDE DEF hits
<1>7. PICK p \in Nat, n \in Nat \ {0} : p = PageSize /\ n = key[3] /\ p > 0
  <2>1. PageSize \in Nat /\ PageSize > 0
    BY RunResultsAssumption
  <2> QED  BY <2>1
<1>8. lo \in Nat /\ n * p = lo + p /\ n * p \in Nat
  <2>1. lo = (n - 1) * p
    BY <1>7
  <2> HIDE DEF lo
  <2>2. n * p = (n - 1) * p + p /\ (n - 1) * p \in Nat
    BY <1>7
  <2> QED  BY <1>7, <2>1, <2>2
<1>9. hi = IF n * p <= Len(hits) THEN n * p ELSE Len(hits)
  <2>1. hi = Min({n * p, Len(hits)})
    BY <1>7
  <2> HIDE DEF hi
  <2>2. n * p \in Int /\ Len(hits) \in Int
    BY <1>5, <1>8
  <2> QED  BY <2>1, <2>2, LeastOfTwo
<1> HIDE DEF lo, hi
<1>10. lo \in Nat /\ hi \in Nat /\ hi <= Len(hits) /\ (hi < lo + 1 <=> Len(hits) <= lo)
  BY <1>5, <1>7, <1>8, <1>9
<1>11. DOMAIN got.items = {} <=> Len(hits) <= lo
  <2>1. got.items = [i \in 1..(hi - (lo + 1) + 1) |-> hits[i + (lo + 1) - 1]]
    BY <1>6, <1>10
  <2>2. DOMAIN got.items = 1..(hi - (lo + 1) + 1)
    BY <2>1
  <2> QED  BY <1>10, <2>2
<1> HIDE DEF got
<1>12. AnswerOf(key) = [ids |-> {got.items[i].id : i \in DOMAIN got.items}, total |-> got.total,
                        run |-> suite.runs]
  BY DEF AnswerOf, got
<1>13. AnswerOf(key).ids = {} <=> DOMAIN got.items = {}
  <2>1. AnswerOf(key).ids = {got.items[i].id : i \in DOMAIN got.items}
    BY <1>12
  <2>2. \A i \in DOMAIN got.items : got.items[i].id \in AnswerOf(key).ids
    BY <2>1
  <2>3. \A x \in AnswerOf(key).ids : \E i \in DOMAIN got.items : TRUE
    BY <2>1
  <2> QED  BY <2>2, <2>3
<1>14. AnswerOf(key).total = Len(hits) /\ AnswerOf(key).run = r
  BY <1>6, <1>12
<1> QED
  BY <1>5, <1>11, <1>13, <1>14 DEF IsAnswer, lo

\* A page within the last one's count begins before its end.
LEMMA PagesHaveRows ==
  ASSUME NEW t \in Nat, NEW n \in Nat, n > 1, n <= Pages(t)
  PROVE  t > (n - 1) * PageSize
<1>1. PICK p \in Nat : p = PageSize /\ p > 0
  BY RunResultsAssumption
<1>2. t # 0
  BY DEF Pages
<1>3. PICK q \in Nat : q = (t + p - 1) \div p
  BY <1>1, <1>2
<1>4. q * p <= t + p - 1
  BY <1>1, <1>2, <1>3
<1>5. n <= q
  BY <1>1, <1>2, <1>3 DEF Pages
<1>6. PICK d \in Nat : q = n + d
  BY <1>5
<1>7. n * p <= q * p
  BY <1>6
<1>8. n * p = (n - 1) * p + p /\ (n - 1) * p \in Nat
  BY <1>1
<1> QED  BY <1>1, <1>4, <1>7, <1>8

LEMMA ListStarts == PageInit => ListInv
BY DEF PageInit, ResultsInit, NewRow, ListInv, NoPage

\* While the list's answers stand and no other page is chosen.
LEMMA ListKeeps ==
  ASSUME ListInv, page.open, page'.open, DOMAIN page' = DOMAIN page,
         page'.segment = page.segment, page'.filter = page.filter, page'.number = page.number,
         UNCHANGED <<suite, captured, list>>
  PROVE  ListInv'
BY DEF ListInv, Key, Has

\* When another page of the list is chosen.
LEMMA ListTurns ==
  ASSUME ListInv, page.open, page'.open, DOMAIN page' = PageFields, NEW key, NEW last,
         Turns(key, last), Key' = key, page'.number \in Nat \ {0},
         page'.number > 1 => TurnedFrom(key, list.answers),
         UNCHANGED <<suite, captured>>
  PROVE  ListInv'
<1>1. PICK fresh \in BOOLEAN :
        list' = [list EXCEPT !.last = last,
                             !.phase = IF fresh /\ Has(key) THEN "settled" ELSE "asking"]
  BY DEF Turns
<1>2. /\ DOMAIN list' = DOMAIN list /\ list'.answers = list.answers
      /\ list'.phase \in {"asking", "settled"} /\ (list'.phase = "settled" => Has(key))
  BY <1>1 DEF ListInv
<1>3. list'.phase = "settled" => Has(Key)'
  BY <1>2 DEF Has
<1> QED
  BY <1>2, <1>3 DEF ListInv

LEMMA TurnsFromShown ==
  ASSUME ListInv, page.open, NEW n, TurnTo(n) PROVE ListInv'
<1>1. /\ n \in {page.number - 1, page.number + 1} /\ n \in 1..Pages(TotalShown)
      /\ RowsShown # {} /\ ~Asking
      /\ page' = [page EXCEPT !.number = n, !.expanded = None, !.choices = page.choices + 1]
      /\ Turns(<<page.segment, page.filter, n>>, IF Has(Key) THEN Key ELSE list.last)
      /\ UNCHANGED <<suite, captured>>
  BY DEF TurnTo, resultVars
<1>2. page.number \in Nat \ {0} /\ DOMAIN page = PageFields
  BY DEF ListInv
<1>3. n \in Nat \ {0} /\ n # page.number
  BY <1>1, <1>2
<1>4. RowsKey = Key /\ Has(Key) /\ TotalShown = list.answers[Key].total
  <2>1. RowsKey # None
    BY <1>1 DEF RowsShown
  <2>2. list.phase = "settled"
    BY <1>1, <2>1 DEF ListInv, RowsKey, Asking
  <2>3. RowsKey = Key /\ Has(Key)
    BY <2>2 DEF ListInv, RowsKey
  <2> QED  BY <2>1, <2>3 DEF TotalShown
<1> DEFINE key == <<page.segment, page.filter, n>>
<1>5. TurnedFrom(key, list.answers)
  <2>1. Key \in DOMAIN list.answers /\ Key[1] = key[1] /\ Key[2] = key[2] /\ Key[3] # key[3]
    BY <1>3, <1>4 DEF Key, Has
  <2>2. key[3] <= Pages(list.answers[Key].total)
    BY <1>1, <1>4
  <2> QED  BY <2>1, <2>2 DEF TurnedFrom
<1>6. /\ page'.open /\ DOMAIN page' = PageFields /\ page'.number = n
      /\ page'.segment = page.segment /\ page'.filter = page.filter
  BY <1>1, <1>2 DEF PageFields
<1>7. Key' = key
  BY <1>6 DEF Key
<1> QED
  <2> HIDE DEF key
  <2>1. Turns(key, IF Has(Key) THEN Key ELSE list.last)
    BY <1>1 DEF key
  <2> QED  BY <1>1, <1>3, <1>5, <1>6, <1>7, <2>1, ListTurns

LEMMA AnswerTakenIn == ASSUME ListInv, page.open, ListAnswered PROVE ListInv'
<1>1. /\ UNCHANGED <<suite, captured, page>> /\ UNCHANGED Key
      /\ list' = [list EXCEPT !.phase = "settled",
                      !.answers = [k \in DOMAIN list.answers \cup {Key} |->
                                       IF k = Key THEN AnswerOf(Key) ELSE list.answers[k]]]
  BY DEF ListAnswered, Key, resultVars
<1>2. /\ DOMAIN list' = DOMAIN list /\ list'.phase = "settled"
      /\ list'.answers = [k \in DOMAIN list.answers \cup {Key} |->
                              IF k = Key THEN AnswerOf(Key) ELSE list.answers[k]]
  BY <1>1 DEF ListInv
<1>3. Key[3] \in Nat \ {0}
  BY DEF ListInv, Key
<1>4. IsAnswer(AnswerOf(Key), Key)
  BY <1>3, AnswersAreOfTheRun DEF ListInv
<1>5. /\ DOMAIN list'.answers = DOMAIN list.answers \cup {Key}
      /\ list'.answers[Key] = AnswerOf(Key)
      /\ \A k \in DOMAIN list.answers : k # Key => list'.answers[k] = list.answers[k]
  BY <1>2
<1>6. \A k \in DOMAIN list'.answers : k[3] \in Nat \ {0} /\ IsAnswer(list'.answers[k], k)
  BY <1>3, <1>4, <1>5 DEF ListInv
<1>7. TurnedFrom(Key, list.answers) => TurnedFrom(Key, list'.answers)
  BY <1>5 DEF TurnedFrom
<1>8. Has(Key)'
  BY <1>1, <1>5 DEF Has
<1> QED
  BY <1>1, <1>2, <1>6, <1>7, <1>8 DEF ListInv, IsAnswer

LEMMA ListStep == ListInv /\ [PageNext]_allPageVars => ListInv'
<1> SUFFICES ASSUME ListInv, [PageNext]_allPageVars PROVE ListInv'
  OBVIOUS
<1>1. CASE UNCHANGED allPageVars
  BY <1>1 DEF allPageVars, ListInv, Key, Has, IsAnswer
<1>2. CASE ~page.open /\ ResultsNext /\ UNCHANGED pageVars
  <2>1. DOMAIN suite' = DOMAIN suite
    BY <1>2 DEF ResultsNext, StartsRun, SendsRequest, StoresRequests, Completes, Fails, ListInv
  <2> QED  BY <1>2, <2>1 DEF pageVars, ListInv, IsAnswer
<1>3. CASE OpenPage
  <2>1. /\ DOMAIN page' = PageFields /\ page'.number = 1 /\ page'.open
        /\ list' = [list EXCEPT !.phase = "asking"]
        /\ suite.runs \in DOMAIN Browsed /\ captured \in {<<>>, Browsed[suite.runs]}
        /\ suite.status = "completed" /\ UNCHANGED <<suite, captured>>
    BY <1>3 DEF OpenPage, NewPage, PageFields, resultVars
  <2>2. DOMAIN list' = DOMAIN list /\ list'.answers = list.answers /\ list'.phase = "asking"
    BY <2>1 DEF ListInv
  <2> QED  BY <2>1, <2>2 DEF ListInv, IsAnswer
<1>4. CASE RunsAgain
  <2>1. /\ DOMAIN suite' = DOMAIN suite /\ suite'.runs = suite.runs + 1
        /\ suite'.status = "running"
        /\ suite.runs < Len(Browsed) /\ captured' = <<>> /\ page.open
        /\ UNCHANGED <<page, list>>
    BY <1>4 DEF RunsAgain, StartsRun, pageVars, ListInv
  <2>2. suite'.runs \in DOMAIN Browsed
    BY <2>1, RequestPageAssumption DEF ListInv
  <2> QED  BY <2>1, <2>2 DEF ListInv, Key, Has, IsAnswer
<1>5. CASE RunEnds
  BY <1>5 DEF RunEnds, pageVars, ListInv, Key, Has, IsAnswer
<1>16. CASE RunIsStored
  <2>1. page.open /\ captured' = Browsed[suite.runs] /\ UNCHANGED <<suite, page, list>>
    BY <1>16 DEF RunIsStored, pageVars
  <2> QED  BY <2>1 DEF ListInv, Key, Has, IsAnswer
<1>6. CASE ListAnswered
  BY <1>6, AnswerTakenIn DEF ListAnswered
<1>7. CASE ListFails \/ ListAgain
  <2>1. \E p \in {"failed", "asking"} :
            list' = [list EXCEPT !.phase = p] /\ UNCHANGED <<suite, captured, page>>
    BY <1>7 DEF ListFails, ListAgain, resultVars
  <2>2. /\ DOMAIN list' = DOMAIN list /\ list'.answers = list.answers
        /\ list'.phase \in {"failed", "asking"} /\ UNCHANGED <<suite, captured, page>>
    BY <2>1 DEF ListInv
  <2> QED  BY <2>2 DEF ListInv, Key, Has, IsAnswer
<1>8. ASSUME NEW f, ChooseStatus(f) PROVE ListInv'
  <2>1. /\ page.open /\ DOMAIN page = PageFields /\ UNCHANGED <<suite, captured>>
        /\ page' = [page EXCEPT !.filter = f, !.number = 1, !.expanded = None,
                                !.choices = page.choices + 1]
        /\ Turns(<<page.segment, f, 1>>, IF Has(Key) THEN Key ELSE list.last)
    BY <1>8 DEF ChooseStatus, Reachable, ListInv, resultVars
  <2>2. /\ DOMAIN page' = PageFields /\ page'.open /\ page'.number = 1
        /\ page'.segment = page.segment /\ page'.filter = f
    BY <2>1 DEF PageFields
  <2>3. Key' = <<page.segment, f, 1>>
    BY <2>2 DEF Key
  <2> QED  BY <2>1, <2>2, <2>3, ListTurns
<1>9. ASSUME NEW n, TurnTo(n) PROVE ListInv'
  BY <1>9, TurnsFromShown DEF TurnTo, Reachable
<1>10. ASSUME NEW s, page.open, ChooseEndpoint(s) PROVE ListInv'
  <2>1. /\ UNCHANGED <<suite, captured>> /\ Turns(<<s, AnyStatus, 1>>, None)
        /\ page' = [NewPage(s, page.canRun) EXCEPT !.choices = NewPage(s, page.canRun).choices + 1]
    BY <1>10 DEF ChooseEndpoint, resultVars
  <2>2. /\ DOMAIN page' = PageFields /\ page'.open /\ page'.number = 1
        /\ page'.segment = s /\ page'.filter = AnyStatus
    BY <2>1 DEF NewPage, PageFields
  <2>3. Key' = <<s, AnyStatus, 1>>
    BY <2>2 DEF Key
  <2> QED  BY <1>10, <2>1, <2>2, <2>3, ListTurns
<1>11. ASSUME NEW id, page.open, Toggle(id) PROVE ListInv'
  <2>1. /\ DOMAIN page = PageFields /\ UNCHANGED <<suite, captured, list>>
        /\ Shut(id) \/ Open(id)
    BY <1>11 DEF Toggle, ListInv, resultVars
  <2>2. CASE Shut(id)
    BY <1>11, <2>1, <2>2, ListKeeps DEF Shut, PageFields
  <2>3. CASE Open(id)
    BY <1>11, <2>1, <2>3, ListKeeps DEF Open, PageFields
  <2> QED  BY <2>1, <2>2, <2>3
<1>12. ASSUME NEW id, page.open, DetailArrives(id) PROVE ListInv'
  BY <1>12, ListKeeps DEF DetailArrives, PageFields, ListInv, resultVars
<1>13. ASSUME NEW id, page.open, PressRun(id) PROVE ListInv'
  BY <1>13, ListKeeps DEF PressRun, StartRun, PageFields, ListInv, resultVars
<1>14. ASSUME NEW id, page.open, RunArrives(id) PROVE ListInv'
  BY <1>14, ListKeeps DEF RunArrives, resultVars
<1>15. CASE Confirm \/ Cancel
  BY <1>15, ListKeeps DEF Confirm, Cancel, PageFields, ListInv, resultVars
<1> QED
  BY <1>1, <1>2, <1>3, <1>4, <1>5, <1>6, <1>7, <1>8, <1>9, <1>10, <1>11, <1>12, <1>13, <1>14,
     <1>15, <1>16 DEF PageNext

\* Rows of another page are on screen only while this one's are asked for, and
\* the page chosen has rows where its list has.
LEMMA ChosenRows == ListInv => RowsAreChosen
<1> SUFFICES ASSUME ListInv, page.open PROVE RowsAreChosen
  BY DEF RowsAreChosen
<1>1. RowsKey \notin {None, Key} => Asking
  BY DEF ListInv, RowsKey, Asking
<1>2. ASSUME Has(Key),
             \A k \in DOMAIN list.answers : list.answers[k].run = list.answers[Key].run
      PROVE  list.answers[Key].ids = {} <=> list.answers[Key].total = 0
  <2> DEFINE a == list.answers[Key]
             n == page.number
             c == TotalOf(a.run, page.segment, page.filter)
  <2>1. /\ IsAnswer(a, Key) /\ Key[1] = page.segment /\ Key[2] = page.filter /\ Key[3] = n
        /\ n \in Nat \ {0}
    BY <1>2 DEF ListInv, Has, Key
  <2>2. a.run \in DOMAIN Browsed /\ a.total \in {0, c} /\ c \in Nat
    BY <2>1, TotalsCount DEF IsAnswer
  <2>3. a.ids = {} <=> a.total <= (n - 1) * PageSize
    BY <2>1 DEF IsAnswer
  <2>4. PICK m \in Nat : m = (n - 1) * PageSize
    BY <2>1, RunResultsAssumption
  <2>5. a.total = 0 => a.ids = {}
    <3> HIDE DEF a
    <3> QED  BY <2>3, <2>4
  <2>6. ASSUME a.total # 0 PROVE a.ids # {}
    <3>1. CASE n = 1
      <4>1. m = 0
        BY <2>4, <3>1, RunResultsAssumption
      <4> HIDE DEF a, c
      <4> QED  BY <2>2, <2>3, <2>4, <2>6, <4>1
    <3>2. CASE n > 1
      <4>1. PICK k \in DOMAIN list.answers : /\ k[1] = page.segment /\ k[2] = page.filter
                                             /\ n <= Pages(list.answers[k].total)
        BY <2>1, <3>2 DEF ListInv, TurnedFrom
      <4>2. list.answers[k].run = a.run /\ list.answers[k].total \in {0, c}
        BY <1>2, <4>1 DEF ListInv, IsAnswer
      <4>3. list.answers[k].total # 0
        BY <2>1, <3>2, <4>1 DEF Pages
      <4>4. list.answers[k].total = a.total
        BY <2>2, <2>6, <4>2, <4>3
      <4> HIDE DEF a, c
      <4>5. n <= Pages(a.total) /\ a.total \in Nat /\ n \in Nat
        BY <2>1, <2>2, <4>1, <4>4
      <4>6. a.total > (n - 1) * PageSize
        BY <3>2, <4>5, PagesHaveRows
      <4> QED  BY <2>3, <2>4, <4>5, <4>6
    <3> QED  BY <2>1, <3>1, <3>2
  <2> QED  BY <2>5, <2>6
<1> QED  BY <1>1, <1>2 DEF RowsAreChosen

\* Rows of another filter or page are on screen only while the right ones are
\* asked for, and no choice leads to an empty page of a list that has rows.
THEOREM PageTurnsSoundly == PageSpec => []RowsAreChosen
BY ListStarts, ListStep, ChosenRows, PTL DEF PageSpec

\* Of an open page: what the open row waits for, and what its spinner does.
PanelInv ==
    /\ DOMAIN detail = {"came", "awaited"}
    /\ page.open =>
          /\ DOMAIN page = PageFields
          /\ page.expanded # None =>
                \/ page.expanded \in detail.awaited \cup detail.came
                \/ ~page.loading /\ page.error
          /\ page.loading => detail.awaited # {}

Sends == [id : RowIds, agreed : BOOLEAN, here : BOOLEAN]

\* The requests on their way, and the rows that say so: a row whose request
\* is asked about in the dialog is not among them, and none speaks of a request
\* sent from a page that was left.
SendsInv ==
    /\ sends \in Seq(Sends)
    /\ ~page.open => sends = <<>> /\ live = <<>>
    /\ page.open => DOMAIN page = PageFields
    /\ page.open /\ page.confirm # None =>
          page.canRun /\ page.confirm \in RowIds /\ PhaseOf(page.confirm) # "loading"
    /\ \A i \in DOMAIN sends : page.canRun /\ (SafeMethod(sends[i].id) \/ sends[i].agreed = TRUE)
    /\ \A i, j \in DOMAIN sends :
          sends[i].here /\ sends[j].here /\ sends[i].id = sends[j].id => i = j
    /\ \A i \in DOMAIN sends : sends[i].here => sends[i].id \in DOMAIN live
    /\ \A id \in DOMAIN live :
          live[id] = "loading" <=> \E i \in DOMAIN sends : sends[i].here /\ sends[i].id = id

LEMMA PanelStarts == PageInit => PanelInv
BY DEF PageInit, PanelInv, NoPage, NoDetail

LEMMA PanelStep == PanelInv /\ [PageNext]_allPageVars => PanelInv'
<1> SUFFICES ASSUME PanelInv, [PageNext]_allPageVars PROVE PanelInv'
  OBVIOUS
<1> USE DEF PanelInv, PageFields
<1>1. CASE \/ UNCHANGED allPageVars
           \/ ~page.open /\ ResultsNext /\ UNCHANGED pageVars
           \/ RunsAgain \/ RunEnds \/ RunIsStored \/ ListAnswered \/ ListFails \/ ListAgain
           \/ \E id \in RowIds : RunArrives(id)
  BY <1>1 DEF allPageVars, pageVars, RunsAgain, RunEnds, RunIsStored, ListAnswered, ListFails,
              ListAgain, RunArrives
<1>2. CASE OpenPage
  BY <1>2 DEF OpenPage, NewPage
<1>3. CASE \E f \in Filters \cap FiltersOffered : ChooseStatus(f)
  BY <1>3 DEF ChooseStatus, Reachable
<1>4. CASE \E n \in 1..(MaxRequests + 1) : TurnTo(n)
  BY <1>4 DEF TurnTo, Reachable
<1>5. CASE \E s \in SegmentsOffered : page.open /\ ChooseEndpoint(s)
  BY <1>5 DEF ChooseEndpoint, NewPage, NoDetail
<1>6. ASSUME NEW id \in RowIds, page.open, Toggle(id) PROVE PanelInv'
  <2>1. CASE Shut(id)
    BY <1>6, <2>1 DEF Shut
  <2>2. CASE Open(id)
    <3>1. page' = [page EXCEPT !.expanded = id, !.error = FALSE,
                               !.loading = page.loading \/ id \notin detail.came]
      BY <2>2 DEF Open
    <3>2. detail' = [detail EXCEPT !.awaited = IF id \in detail.came THEN detail.awaited
                                               ELSE detail.awaited \cup {id}]
      BY <2>2 DEF Open
    <3> QED  BY <1>6, <3>1, <3>2
  <2> QED  BY <1>6, <2>1, <2>2 DEF Toggle
<1>7. ASSUME NEW id \in RowIds, page.open, DetailArrives(id) PROVE PanelInv'
  <2>1. PICK answer \in DetailAnswers(id) :
          /\ detail' = [came |-> IF answer = "found" THEN detail.came \cup {id} ELSE detail.came,
                        awaited |-> detail.awaited \ {id}]
          /\ page' = [page EXCEPT !.loading = FALSE, !.error = page.error \/ answer = "error"]
    BY <1>7 DEF DetailArrives
  <2>2. answer \in {"error", "found"}
    BY DEF DetailAnswers
  <2>3. /\ DOMAIN page' = PageFields /\ page'.expanded = page.expanded /\ ~page'.loading
        /\ page'.error = (page.error \/ answer = "error")
    BY <1>7, <2>1
  <2> QED  BY <1>7, <2>1, <2>2, <2>3
<1>8. ASSUME NEW id \in RowIds, page.open, PressRun(id) PROVE PanelInv'
  BY <1>8 DEF PressRun, StartRun
<1>9. CASE Confirm \/ Cancel
  BY <1>9 DEF Confirm, Cancel
<1> QED
  BY <1>1, <1>2, <1>3, <1>4, <1>5, <1>6, <1>7, <1>8, <1>9 DEF PageNext, RowIds

\* Whatever rows are opened and shut while details are on their way: the open
\* row's is on its way or shown, or an error is, and no spinner turns for nothing.
THEOREM OpenRowsSettle == PageSpec => []DetailSettles
<1>1. PanelInv => DetailSettles
  BY DEF PanelInv, DetailSettles, PanelShown
<1> QED  BY <1>1, PanelStarts, PanelStep, PTL DEF PageSpec

LEMMA SendsStart == PageInit => SendsInv
BY EmptySeq DEF PageInit, SendsInv, NoPage

LEMMA PageKeepsSends ==
  ASSUME SendsInv, UNCHANGED <<live, sends>>, page'.open = page.open,
         page.open => /\ DOMAIN page' = DOMAIN page
                      /\ page'.canRun = page.canRun
                      /\ page'.confirm = page.confirm \/ page'.confirm = None
  PROVE  SendsInv'
<1>1. \A i \in DOMAIN sends : page.open
  BY DEF SendsInv
<1> QED  BY <1>1 DEF SendsInv, PhaseOf

\* A request that is sent from a row that was not waiting.
LEMMA RowSends ==
  ASSUME SendsInv, page.open, NEW id \in RowIds, NEW agreed \in BOOLEAN, Mutate(id, agreed),
         PhaseOf(id) # "loading", page.canRun, SafeMethod(id) \/ agreed = TRUE,
         page'.open, page'.canRun = page.canRun, DOMAIN page' = PageFields, page'.confirm = None
  PROVE  SendsInv'
<1> DEFINE new == [id |-> id, agreed |-> agreed, here |-> TRUE]
<1>1. /\ sends \in Seq(Sends) /\ Len(sends) \in Nat
      /\ sends' = Append(sends, new) /\ new \in Sends
  BY DEF SendsInv, Mutate, Sends
<1>2. /\ sends' \in Seq(Sends) /\ Len(sends') = Len(sends) + 1
      /\ \A i \in 1..Len(sends) : sends'[i] = sends[i]
      /\ sends'[Len(sends) + 1] = new
  BY <1>1, AppendProperties
<1>3. \A i \in DOMAIN sends : sends[i].here => sends[i].id # id
  BY DEF SendsInv, PhaseOf
<1>4. /\ DOMAIN live' = DOMAIN live \cup {id} /\ live'[id] = "loading"
      /\ \A x \in DOMAIN live \ {id} : live'[x] = live[x]
  BY DEF Mutate
<1>5. DOMAIN sends = 1..Len(sends) /\ DOMAIN sends' = 1..(Len(sends) + 1)
  BY <1>1, <1>2
<1>6. \A i \in DOMAIN sends' : i \in DOMAIN sends \/ i = Len(sends) + 1
  BY <1>1, <1>5
<1>7. \A i \in DOMAIN sends : i \in DOMAIN sends' /\ sends'[i] = sends[i]
  BY <1>1, <1>2, <1>5
<1>8. Len(sends) + 1 \in DOMAIN sends' /\ sends'[Len(sends) + 1].id = id
      /\ sends'[Len(sends) + 1].agreed = agreed /\ sends'[Len(sends) + 1].here
  BY <1>1, <1>2, <1>5
<1> HIDE DEF Mutate
<1>9. \A i \in DOMAIN sends' : page'.canRun /\ (SafeMethod(sends'[i].id) \/ sends'[i].agreed = TRUE)
  BY <1>6, <1>7, <1>8 DEF SendsInv
<1>10. \A i, j \in DOMAIN sends' :
          sends'[i].here /\ sends'[j].here /\ sends'[i].id = sends'[j].id => i = j
  BY <1>3, <1>6, <1>7, <1>8 DEF SendsInv
<1>11. \A i \in DOMAIN sends' : sends'[i].here => sends'[i].id \in DOMAIN live'
  BY <1>4, <1>6, <1>7, <1>8 DEF SendsInv
<1> DEFINE on(x) == \E i \in DOMAIN sends : sends[i].here /\ sends[i].id = x
           onNext(x) == \E i \in DOMAIN sends' : sends'[i].here /\ sends'[i].id = x
<1>12. \A x \in DOMAIN live' : live'[x] = "loading" <=> onNext(x)
  <2>1. live'[id] = "loading" /\ onNext(id)
    BY <1>4, <1>8
  <2>2. ASSUME NEW x \in DOMAIN live, x # id
        PROVE  onNext(x) <=> on(x)
    BY <2>2, <1>6, <1>7, <1>8
  <2>3. ASSUME NEW x \in DOMAIN live, x # id
        PROVE  live'[x] = "loading" <=> onNext(x)
    BY <2>2, <2>3, <1>4 DEF SendsInv
  <2> QED  BY <2>1, <2>3, <1>4
<1> QED
  BY <1>2, <1>9, <1>10, <1>11, <1>12 DEF SendsInv

\* The answer of a request takes it, and only it, off those on their way.
LEMMA AnswerTakesOne ==
  ASSUME SendsInv, page.open, NEW id \in RowIds, RunArrives(id) PROVE SendsInv'
<1>1. PICK n \in DOMAIN sends :
         /\ sends[n].id = id
         /\ sends' = RemoveAt(sends, n)
         /\ sends[n].here =>
               \E answer \in RunAnswers(id) : live' = [live EXCEPT ![id] = answer]
         /\ ~sends[n].here => UNCHANGED live
  BY DEF RunArrives
<1>2. sends \in Seq(Sends) /\ Len(sends) \in Nat /\ DOMAIN sends = 1..Len(sends)
  BY DEF SendsInv
<1>3. /\ sends' \in Seq(Sends) /\ DOMAIN sends' = 1..(Len(sends) - 1)
      /\ \A j \in 1..(Len(sends) - 1) : sends'[j] = IF j < n THEN sends[j] ELSE sends[j + 1]
  <2>1. n \in 1..Len(sends)
    BY <1>1, <1>2
  <2>2. /\ RemoveAt(sends, n) \in Seq(Sends)
        /\ Len(RemoveAt(sends, n)) = Len(sends) - 1
        /\ \A j \in 1..(Len(sends) - 1) :
              RemoveAt(sends, n)[j] = IF j < n THEN sends[j] ELSE sends[j + 1]
    BY <1>2, <2>1, OneTakenOut
  <2>3. Len(sends) - 1 \in Nat /\ sends' = RemoveAt(sends, n)
    BY <1>1, <1>2, <2>1
  <2>4. DOMAIN RemoveAt(sends, n) = 1..(Len(sends) - 1)
    BY <2>2, <2>3
  <2> QED  BY <2>2, <2>3, <2>4
<1> DEFINE was(j) == IF j < n THEN j ELSE j + 1
<1>4. \A j \in DOMAIN sends' : was(j) \in DOMAIN sends /\ was(j) # n /\ sends'[j] = sends[was(j)]
  BY <1>1, <1>2, <1>3
<1>5. \A i, j \in DOMAIN sends' : was(i) = was(j) => i = j
  BY <1>1, <1>2, <1>3
<1>6. \A i \in DOMAIN sends : i # n => \E j \in DOMAIN sends' : was(j) = i
  <2> SUFFICES ASSUME NEW i \in DOMAIN sends, i # n PROVE \E j \in DOMAIN sends' : was(j) = i
    OBVIOUS
  <2>1. CASE i < n
    BY <1>1, <1>2, <1>3, <2>1
  <2>2. CASE i > n
    <3>1. i - 1 \in DOMAIN sends' /\ was(i - 1) = i
      BY <1>1, <1>2, <1>3, <2>2
    <3> QED  BY <3>1
  <2> QED  BY <1>1, <1>2, <2>1, <2>2
<1> HIDE DEF was
<1> DEFINE on(x) == \E i \in DOMAIN sends : sends[i].here /\ sends[i].id = x
           onNext(x) == \E i \in DOMAIN sends' : sends'[i].here /\ sends'[i].id = x
<1>7. /\ DOMAIN live' = DOMAIN live
      /\ sends[n].here => live'[id] # "loading"
      /\ ~sends[n].here => live' = live
      /\ \A x \in DOMAIN live \ {id} : live'[x] = live[x]
  <2>1. CASE ~sends[n].here
    BY <1>1, <2>1
  <2>2. CASE sends[n].here
    <3>1. id \in DOMAIN live
      BY <1>1, <2>2 DEF SendsInv
    <3>2. PICK answer \in RunAnswers(id) : live' = [live EXCEPT ![id] = answer]
      BY <1>1, <2>2
    <3>3. answer # "loading"
      BY <3>2 DEF RunAnswers
    <3> QED  BY <2>2, <3>1, <3>2, <3>3
  <2> QED  BY <2>1, <2>2
<1>8. page' = page
  BY DEF RunArrives
<1>9. \A i \in DOMAIN sends' : /\ page'.canRun /\ (SafeMethod(sends'[i].id) \/ sends'[i].agreed = TRUE)
                               /\ sends'[i].here => sends'[i].id \in DOMAIN live'
  BY <1>4, <1>7, <1>8 DEF SendsInv
<1>10. \A i, j \in DOMAIN sends' :
          sends'[i].here /\ sends'[j].here /\ sends'[i].id = sends'[j].id => i = j
  BY <1>4, <1>5 DEF SendsInv
<1>11. \A x \in DOMAIN live' : live'[x] = "loading" <=> onNext(x)
  <2>1. ASSUME NEW x \in DOMAIN live, x # id \/ ~sends[n].here
        PROVE  live'[x] = "loading" <=> onNext(x)
    <3>1. onNext(x) => on(x)
      BY <1>4
    <3>2. ASSUME NEW i \in DOMAIN sends, sends[i].here, sends[i].id = x PROVE onNext(x)
      <4>1. i # n
        BY <2>1, <3>2, <1>1
      <4>2. PICK j \in DOMAIN sends' : was(j) = i
        BY <4>1, <1>6
      <4>3. sends'[j].here /\ sends'[j].id = x
        BY <4>2, <3>2, <1>4
      <4> QED  BY <4>3
    <3>3. live'[x] = live[x]
      BY <2>1, <1>7
    <3>4. live[x] = "loading" <=> on(x)
      BY DEF SendsInv
    <3> QED  BY <3>1, <3>2, <3>3, <3>4
  <2>2. ASSUME sends[n].here, id \in DOMAIN live PROVE live'[id] # "loading" /\ ~onNext(id)
    <3>1. \A i \in DOMAIN sends' : ~(sends'[i].here /\ sends'[i].id = id)
      BY <2>2, <1>1, <1>4 DEF SendsInv
    <3> QED  BY <2>2, <3>1, <1>7
  <2> HIDE DEF on, onNext
  <2> SUFFICES ASSUME NEW x \in DOMAIN live' PROVE live'[x] = "loading" <=> onNext(x)
    OBVIOUS
  <2>3. x \in DOMAIN live
    BY <1>7
  <2>4. CASE x # id \/ ~sends[n].here
    BY <2>1, <2>3, <2>4
  <2>5. CASE x = id /\ sends[n].here
    BY <2>2, <2>3, <2>5
  <2> QED  BY <2>4, <2>5
<1>12. page.confirm # None => PhaseOf(page.confirm)' # "loading"
  <2> SUFFICES ASSUME page.confirm # None, page.confirm \in DOMAIN live
               PROVE  live'[page.confirm] # "loading"
    BY <1>7, <1>8 DEF PhaseOf
  <2>1. live[page.confirm] # "loading"
    BY DEF SendsInv, PhaseOf
  <2>2. CASE ~sends[n].here \/ page.confirm # id
    BY <2>1, <2>2, <1>7
  <2>3. CASE sends[n].here /\ page.confirm = id
    BY <2>3, <1>7
  <2> QED  BY <2>2, <2>3
<1> QED
  BY <1>3, <1>7, <1>8, <1>9, <1>10, <1>11, <1>12 DEF SendsInv

LEMMA SendsStep == SendsInv /\ [PageNext]_allPageVars => SendsInv'
<1> SUFFICES ASSUME SendsInv, [PageNext]_allPageVars PROVE SendsInv'
  OBVIOUS
<1>1. CASE \/ UNCHANGED allPageVars
           \/ ~page.open /\ ResultsNext /\ UNCHANGED pageVars
           \/ RunsAgain \/ RunEnds \/ RunIsStored \/ ListAnswered \/ ListFails \/ ListAgain
  <2>1. UNCHANGED <<page, live, sends>>
    BY <1>1 DEF allPageVars, pageVars, RunsAgain, RunEnds, RunIsStored, ListAnswered, ListFails,
                ListAgain
  <2> QED  BY <2>1, PageKeepsSends
<1>2. CASE OpenPage
  BY <1>2, EmptySeq DEF OpenPage, NewPage, PageFields, SendsInv
<1>3. CASE \/ \E f \in Filters \cap FiltersOffered : ChooseStatus(f)
           \/ \E n \in 1..(MaxRequests + 1) : TurnTo(n)
           \/ \E id \in RowIds : page.open /\ (Toggle(id) \/ DetailArrives(id))
           \/ Cancel
  <2>1. /\ page.open /\ UNCHANGED <<live, sends>>
        /\ page'.open = page.open /\ page'.canRun = page.canRun /\ DOMAIN page' = DOMAIN page
        /\ page'.confirm = page.confirm \/ page'.confirm = None
    <3>1. page.open
      BY <1>3 DEF ChooseStatus, TurnTo, Reachable, Cancel
    <3>2. page.open /\ DOMAIN page = PageFields
      BY <3>1 DEF SendsInv
    <3>3. CASE \/ \E f \in Filters \cap FiltersOffered : ChooseStatus(f)
               \/ \E n \in 1..(MaxRequests + 1) : TurnTo(n)
               \/ Cancel
      BY <3>2, <3>3 DEF ChooseStatus, TurnTo, Cancel, PageFields
    <3>4. ASSUME NEW id \in RowIds, Toggle(id)
          PROVE  /\ UNCHANGED <<live, sends>>
                 /\ page'.open = page.open /\ page'.canRun = page.canRun
                 /\ DOMAIN page' = DOMAIN page /\ page'.confirm = page.confirm
      <4>1. UNCHANGED <<live, sends>> /\ (Shut(id) \/ Open(id))
        BY <3>4 DEF Toggle
      <4>2. CASE Shut(id)
        BY <3>2, <4>1, <4>2 DEF Shut, PageFields
      <4>3. CASE Open(id)
        BY <3>2, <4>1, <4>3 DEF Open, PageFields
      <4> QED  BY <4>1, <4>2, <4>3
    <3>5. ASSUME NEW id \in RowIds, DetailArrives(id)
          PROVE  /\ UNCHANGED <<live, sends>>
                 /\ page'.open = page.open /\ page'.canRun = page.canRun
                 /\ DOMAIN page' = DOMAIN page /\ page'.confirm = page.confirm
      BY <3>2, <3>5 DEF DetailArrives, PageFields
    <3> QED  BY <1>3, <3>1, <3>3, <3>4, <3>5
  <2> QED  BY <2>1, PageKeepsSends
<1>4. CASE \E s \in SegmentsOffered : page.open /\ ChooseEndpoint(s)
  <2>1. /\ page.open /\ page'.open /\ page'.canRun = page.canRun /\ page'.confirm = None
        /\ DOMAIN page' = PageFields /\ live' = <<>> /\ DOMAIN page = PageFields
        /\ sends' = [i \in DOMAIN sends |-> [sends[i] EXCEPT !.here = FALSE]]
    BY <1>4 DEF ChooseEndpoint, NewPage, PageFields, SendsInv
  <2>2. sends \in Seq(Sends)
    BY DEF SendsInv
  <2>3. \A i \in DOMAIN sends : sends[i] \in Sends
    BY <2>2
  <2>4. \A i \in DOMAIN sends : /\ sends'[i] \in Sends
                                /\ sends'[i].id = sends[i].id
                                /\ sends'[i].agreed = sends[i].agreed
                                /\ sends'[i].here = FALSE
    BY <2>1, <2>3 DEF Sends
  <2>5. DOMAIN sends' = DOMAIN sends /\ sends' \in Seq(Sends)
    BY <2>1, <2>2, <2>4
  <2> QED
    BY <2>1, <2>4, <2>5 DEF SendsInv
<1>5. ASSUME NEW id \in RowIds, page.open, PressRun(id) PROVE SendsInv'
  <2>1. page.canRun /\ page.confirm = None /\ PhaseOf(id) # "loading" /\ DOMAIN page = PageFields
    BY <1>5 DEF PressRun, Reachable, SendsInv
  <2>2. CASE SafeMethod(id)
    <3>1. Mutate(id, FALSE) /\ page' = [page EXCEPT !.latest = id]
      BY <1>5, <2>2 DEF PressRun, StartRun
    <3>2. /\ page'.open /\ page'.canRun = page.canRun
          /\ DOMAIN page' = PageFields /\ page'.confirm = None
      BY <1>5, <2>1, <3>1 DEF PageFields
    <3> QED  BY <1>5, <2>1, <2>2, <3>1, <3>2, RowSends
  <2>3. CASE ~SafeMethod(id)
    <3>1. UNCHANGED <<live, sends>> /\ page' = [page EXCEPT !.confirm = id]
      BY <1>5, <2>3 DEF PressRun, StartRun
    <3>2. /\ page'.open = page.open /\ page'.canRun = page.canRun
          /\ DOMAIN page' = PageFields /\ page'.confirm = id
      BY <2>1, <3>1 DEF PageFields
    <3> QED  BY <1>5, <2>1, <3>1, <3>2 DEF SendsInv, PhaseOf
  <2> QED  BY <2>2, <2>3
<1>6. CASE Confirm
  <2>1. /\ page.open /\ page.confirm # None /\ DOMAIN page = PageFields
        /\ page.canRun /\ page.confirm \in RowIds /\ PhaseOf(page.confirm) # "loading"
    BY <1>6 DEF Confirm, SendsInv
  <2>2. Mutate(page.confirm, TRUE) /\ page' = [page EXCEPT !.confirm = None, !.latest = page.confirm]
    BY <1>6 DEF Confirm
  <2>3. /\ page'.open /\ page'.canRun = page.canRun
        /\ DOMAIN page' = PageFields /\ page'.confirm = None
    BY <2>1, <2>2 DEF PageFields
  <2> QED  BY <2>1, <2>2, <2>3, RowSends
<1>7. ASSUME NEW id \in RowIds, page.open, RunArrives(id) PROVE SendsInv'
  BY <1>7, AnswerTakesOne
<1> QED
  BY <1>1, <1>2, <1>3, <1>4, <1>5, <1>6, <1>7 DEF PageNext, RowIds

\* A request that could have side effects is sent again only after a
\* confirmation of its own, whatever pages were left meanwhile; the page as it
\* stands sends none twice over, and its row says so.
THEOREM RequestsAreMeant == PageSpec => []SendsAreMeant
<1>1. SendsInv => SendsAreMeant
  BY DEF SendsInv, SendsAreMeant
<1> QED  BY <1>1, SendsStart, SendsStep, PTL DEF PageSpec

\* The page as a whole, whatever order its three kinds of answer come in and
\* however often the suite is run meanwhile.
THEOREM RequestsAreShownSoundly == PageSpec => []RequestsPageIsSound
BY PageTurnsSoundly, OpenRowsSettle, RequestsAreMeant, PTL DEF RequestsPageIsSound
=============================================================================
