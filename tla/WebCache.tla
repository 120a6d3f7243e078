------------------------------ MODULE WebCache ------------------------------
(* One tab of the web client: the cache of answers its pages show, the reads  *)
(* and the one write it has in flight, its session, and the copy of the cache *)
(* it keeps on disk, against a backend that others change as well.            *)
(*                                                                            *)
(* A behaviour is about one operation of WebOperations on one screen.  The    *)
(* cache follows the answers that matter to it: one of those the operation    *)
(* changes, and the ones the page takes the user's role and the status of     *)
(* what it shows from.  Of an answer the model keeps those two, and whether   *)
(* it was given after the operation took effect.                              *)
(*                                                                            *)
(* The cache itself is TanStack Query, modelled as the client uses it: an     *)
(* answer is fresh for 30 seconds, then stale; a stale one is asked for again *)
(* when its page is opened or the window gets the focus, an invalid one at    *)
(* once where it is shown; removing or leaving cancels a read in flight, and  *)
(* writing an answer does not.                                                *)
EXTENDS WebOperations, Naturals

CONSTANTS
    MaxTurns,     \* bound: changes others make at the backend, requests the
                  \* network loses, and the user's turns away from the page
    MaxSessions,  \* bound: sessions one after the other
    NoAnswer      \* in place of an answer or a read

VARIABLES
    op, screen,   \* the operation and the page it is pressed on
    world,        \* the backend: the user's role, the status, was op obeyed, and
                  \* has it what op works on
    cache,        \* key -> its answer, or NoAnswer
    reading,      \* key -> the read in flight, or NoAnswer
    write,        \* the operation's request
    session,      \* number of the session signed in, 0 for none
    disk,         \* key -> the answer in the persisted copy, or NoAnswer
    past          \* what the properties need to know of the past

\* The statuses of a run, a generation and a graph, and that of none.
Statuses == {"pending", "running", "completed", "failed"} \cup {"ready"} \cup {"none"}

CacheEntries == [answer : [role : Roles \cup {"-"}, status : Statuses \cup {"-"},
                           did : BOOLEAN, of : Nat],
                 age : {"fresh", "stale", "invalid"}]

ASSUME NoAnswerAssumption == NoAnswer \notin CacheEntries

webVars == <<op, screen, world, cache, reading, write, session, disk, past>>

------------------------------------------------------------------------------
(* What the cache follows, and what an answer says. *)

RoleKey(scr) == IF scr = "projects" THEN ProjectsList ELSE Detail

StatusKey(scr) == CASE scr = "run"        -> {Suite("s")}
                    [] scr = "generation" -> {Part("generation")}
                    [] scr = "graph"      -> {Part("graph")}
                    [] OTHER              -> {}

\* The pages about one project take the role from it.
OfProject(scr) == scr \notin {"invitations", "settings", "llm"}

Watched == DOMAIN cache

\* The shell around every page shows three answers of its own.
Shell == {Me, MyInvitations, ProjectsList}

\* What the page shows, and so keeps asking for: the project around it, and the
\* page itself.  The report is asked for of a completed run.
Observes(scr, status) ==
    (IF scr \notin {"projects", "invitations", "settings", "llm"} THEN {Detail} ELSE {})
      \cup CASE scr = "team"      -> {Part("members"), Part("invitations")}
             [] scr = "runs"      -> {SuitesList}
             [] scr = "run"       -> {Suite("s"), PartOfSuite("s", "history")}
                                       \cup (IF status = "completed"
                                             THEN {PartOfSuite("s", "report")} ELSE {})
             [] scr = "endpoints" -> {Part("endpoints"), Part("spec")}
             [] scr \in {"spec", "generation"} -> {Part("spec"), Part("generation")}
             [] scr = "graph"     -> {Part("graph")}
             [] scr = "llm"       -> {LlmSettings}
             [] OTHER             -> {}

\* The answer the backend gives for a key.
AnswerNow(k) == [
    role   |-> IF k = RoleKey(screen) THEN world.role ELSE "-",
    status |-> IF k \in StatusKey(screen) THEN world.status ELSE "-",
    did    |-> world.did /\ k \in Effects[op].changes,
    of     |-> session]

Loaded(k) == cache[k] # NoAnswer
Shown(k)  == cache[k].answer

\* The role and the status the page goes by.
RoleShown == IF OfProject(screen) THEN Shown(RoleKey(screen)).role ELSE "-"
StatusShown ==
    IF StatusKey(screen) = {} THEN "-" ELSE Shown(CHOOSE k \in StatusKey(screen) : TRUE).status
PageLoaded ==
    /\ OfProject(screen) => Loaded(RoleKey(screen))
    /\ \A k \in StatusKey(screen) : Loaded(k)

Observed(k) ==
    /\ session # 0
    /\ \/ k \in Shell
       \/ past.open /\ k \in Observes(screen, IF PageLoaded THEN StatusShown ELSE "-")

\* The window's cache knows an answer is old, or polls for what is running.
Polled(k) == k \in StatusKey(screen) /\ Loaded(k) /\ Shown(k).status = "running"
Due(k) == Observed(k) /\ (Loaded(k) => cache[k].age = "invalid" \/ Polled(k))

------------------------------------------------------------------------------
(* What the cache's operations do to it. *)

\* The user's own row is never fresh: it tells whether the session still holds.
Entry(k, answer) == [answer |-> answer, age |-> IF k = Me THEN "stale" ELSE "fresh"]

SetIn(c, answers) ==
    [k \in DOMAIN c |-> IF k \in DOMAIN answers THEN Entry(k, answers[k]) ELSE c[k]]

InvalidateIn(c, prefixes) ==
    [k \in DOMAIN c |-> IF Covered(prefixes, k) /\ c[k] # NoAnswer
                        THEN [c[k] EXCEPT !.age = "invalid"] ELSE c[k]]

RemoveIn(c, prefixes) == [k \in DOMAIN c |-> IF Covered(prefixes, k) THEN NoAnswer ELSE c[k]]

CancelIn(r, keys) == [k \in DOMAIN r |-> IF k \in keys THEN NoAnswer ELSE r[k]]

EmptyCache == [k \in Watched |-> NoAnswer]

Settled(phase, of) == [phase |-> phase, basis |-> <<>>, before |-> EmptyCache, of |-> of]

EndSession_KeepsDisk(by) ==
    /\ session' = 0
    /\ cache' = EmptyCache
    /\ reading' = EmptyCache
    /\ disk' = disk
    /\ past' = [past EXCEPT !.endedBy = by, !.last = session, !.open = FALSE]

\* Signing out, by the user or because a read said so.
EndSession(by) ==
    /\ session' = 0
    /\ cache' = EmptyCache
    /\ reading' = EmptyCache
    /\ disk' = EmptyCache
    /\ past' = [past EXCEPT !.endedBy = by, !.last = session, !.open = FALSE]

------------------------------------------------------------------------------
(* Reads. *)

SendRead(k) ==
    reading' = [reading EXCEPT ![k] = [reply |-> "none", answer |-> NoAnswer, of |-> session]]

\* One read in flight at a time.
NoRead == \A k \in Watched : reading[k] = NoAnswer

\* Mounting a page, an invalid answer, the poll of something running.
StartRead(k) ==
    /\ NoRead /\ Due(k)
    /\ SendRead(k)
    /\ UNCHANGED <<op, screen, world, cache, write, session, disk, past>>

\* The window gets the focus: whatever is stale on the page is asked for.
FocusRead(k) ==
    /\ NoRead /\ Observed(k) /\ Loaded(k) /\ cache[k].age = "stale"
    /\ past.turns < MaxTurns
    /\ past' = [past EXCEPT !.turns = @ + 1]
    /\ SendRead(k)
    /\ UNCHANGED <<op, screen, world, cache, write, session, disk>>

\* Hovering over a row of a list, which is on another page than the row's.
PrefetchRead(k) ==
    /\ NoRead /\ session # 0 /\ ~past.open
    /\ k \in {Detail, Suite("s")}
    /\ Loaded(k) => cache[k].age # "fresh"
    /\ SendRead(k)
    /\ past' = [past EXCEPT !.prefetched = @ \cup ({k} \cap Effects[op].changes)]
    /\ UNCHANGED <<op, screen, world, cache, write, session, disk>>

\* Whether the user may read the answer: members may, and only managers are
\* told of the project's invitations.
MayRead(k) ==
    \/ k \in {Me, MyInvitations, ProjectsList, LlmSettings}
    \/ AssertAccess(world.role, IF k = Part("invitations") THEN {"admin"} ELSE {})

\* A project that has no generation is an error, which the client takes for an
\* answer; what it finds gone otherwise is an error to it as well.
NotFound_GoneIsError(k) == k \in StatusKey(screen) /\ world.status = "none"
NotFound(k) == k \in StatusKey(screen) /\ world.status = "none" /\ k # Part("generation")

ServeRead(k) ==
    /\ reading[k] # NoAnswer /\ reading[k].reply = "none"
    /\ reading' = [reading EXCEPT ![k] =
         IF @.of \in past.revoked THEN [@ EXCEPT !.reply = "401"]
         ELSE IF ~MayRead(k) \/ NotFound(k) THEN [@ EXCEPT !.reply = "4xx"]
         ELSE [@ EXCEPT !.reply = "200", !.answer = [AnswerNow(k) EXCEPT !.of = reading[k].of]]]
    /\ UNCHANGED <<op, screen, world, cache, write, session, disk, past>>

ReadArrives(k) ==
    /\ reading[k] # NoAnswer /\ reading[k].reply = "200"
    /\ cache' = SetIn(cache, [x \in {k} |-> reading[x].answer])
    /\ reading' = CancelIn(reading, {k})
    /\ past' = [past EXCEPT
         !.overtaken = IF /\ write.phase = "done" /\ ~reading[k].answer.did
                          /\ k \in Effects[op].changes
                          /\ Loaded(k) => k \in Effects[op].sets \cup past.prefetched
                       THEN @ \cup {k} ELSE @ \ {k}]
    /\ UNCHANGED <<op, screen, world, write, session, disk>>

\* An error leaves the old answer where it is, though the project's and the
\* run's pages show the error instead.
ReadFails(k) ==
    /\ reading[k] # NoAnswer /\ reading[k].reply = "4xx"
    /\ cache' = [cache EXCEPT ![k] = IF @ = NoAnswer THEN @ ELSE [@ EXCEPT !.age = "stale"]]
    /\ reading' = CancelIn(reading, {k})
    /\ past' = [past EXCEPT !.open = @ /\ k \notin {Detail, Suite("s")}]
    /\ UNCHANGED <<op, screen, world, write, session, disk>>

\* Only a read's 401 is taken for the end of the session.
ReadUnauthorized(k) ==
    /\ reading[k] # NoAnswer /\ reading[k].reply = "401"
    /\ EndSession("401")
    /\ UNCHANGED <<op, screen, world, write>>

\* A read lost on the way is asked for again.
ReadLost(k) ==
    /\ reading[k] # NoAnswer /\ past.turns < MaxTurns
    /\ reading' = CancelIn(reading, {k})
    /\ past' = [past EXCEPT !.turns = @ + 1]
    /\ UNCHANGED <<op, screen, world, cache, write, session, disk>>

------------------------------------------------------------------------------
(* The write. *)

\* Pressing the button: the guesses are written at once, in place of answers
\* and of reads on their way.  One press a behaviour, in the first session.
Press ==
    /\ past.open /\ session = 1 /\ write.phase = "none" /\ op # "browse"
    /\ PageLoaded /\ op \in Offers(RoleShown, StatusShown)[screen]
    /\ \A k \in RowsOf(op) \cap Watched : Loaded(k)
    /\ LET guesses == Effects[op].guesses \cap {k \in Watched : Loaded(k)} IN
       /\ cache' = SetIn(cache, [k \in guesses |-> [Shown(k) EXCEPT !.did = TRUE]])
       /\ reading' = CancelIn(reading, Effects[op].guesses)
       /\ write' = [phase |-> "sent", basis |-> <<RoleShown, StatusShown>>,
                    before |-> CancelIn(cache, Watched \ guesses), of |-> session]
    /\ UNCHANGED <<op, screen, world, session, disk, past>>

\* What the operation makes of the status of what the page shows.
StatusAfter ==
    CASE op \in {"startRun", "startGeneration", "buildGraph"} -> "running"
      [] op \in {"applyGeneration", "discardGeneration"}      -> "none"
      [] OTHER                                                -> world.status

Obey ==
    /\ world' = [world EXCEPT !.did = TRUE, !.status = StatusAfter,
                              !.role = IF op \in {"leaveProject", "deleteProject"}
                                       THEN "none" ELSE @]
    /\ past' = [past EXCEPT !.revoked = @ \cup
         (IF op \in {"changePassword", "deleteAccount"} THEN {write.of} ELSE {})]

ServeWrite ==
    /\ write.phase = "sent" /\ write.of \notin past.revoked
    /\ Admits(op, world.role, world.status, world.has)
    /\ Obey
    /\ write' = [write EXCEPT !.phase = "obeyed"]
    /\ UNCHANGED <<op, screen, cache, reading, session, disk>>

\* A refusal for the role, the status, or what is not there.
RefuseWrite ==
    /\ write.phase = "sent" /\ write.of \notin past.revoked
    /\ ~Admits(op, world.role, world.status, world.has)
    /\ write' = [write EXCEPT !.phase = "refused"]
    /\ UNCHANGED <<op, screen, world, cache, reading, session, disk, past>>

\* 401: the session is revoked, or the password asked for is wrong.
WriteUnauthorized ==
    /\ write.phase = "sent"
    /\ \/ write.of \in past.revoked
       \/ op \in {"deleteProject", "changePassword", "deleteAccount"}
    /\ write' = [write EXCEPT !.phase = "unauthorized"]
    /\ UNCHANGED <<op, screen, world, cache, reading, session, disk, past>>

\* The reply: what the page's success handler does to the cache, in its order.
\* It runs whatever page, or session, is there by now.
Reply == [k \in Effects[op].sets \cap Watched |-> [AnswerNow(k) EXCEPT !.of = write.of]]

Succeeded ==
    LET e == Effects[op] IN
    RemoveIn(InvalidateIn(SetIn(cache, Reply), e.invalidates \cup e.afterwards \cup e.refetches),
             e.removes)

\* A read on its way is given up for one sent again, unless it is the first.
Restarted(e) ==
    {k \in Watched : \/ /\ Observed(k) /\ Loaded(k)
                        /\ Covered(e.invalidates \cup e.afterwards \cup e.refetches, k)
                     \/ Covered(e.removes, k)}

WriteSucceeds ==
    /\ write.phase = "obeyed" /\ ~Effects[op].ends
    /\ cache' = Succeeded
    /\ reading' = CancelIn(reading, Restarted(Effects[op]))
    /\ write' = Settled("done", write.of)
    /\ past' = [past EXCEPT
         !.late = IF session = write.of THEN @ ELSE @ \cup Effects[op].sets,
         !.open = @ /\ op \notin {"deleteProject", "leaveProject", "replayRun",
                                 "acceptInvitation", "createRun", "createProject"}]
    /\ UNCHANGED <<op, screen, world, session, disk>>

\* Changing the password and deleting the account end with signing out.
WriteEndsSession ==
    /\ write.phase = "obeyed" /\ Effects[op].ends
    /\ EndSession("user")
    /\ write' = Settled("done", write.of)
    /\ UNCHANGED <<op, screen, world>>

\* The error handler: a guess is taken back, to what was there before it.
WriteFails ==
    /\ \/ write.phase \in {"refused", "unauthorized"}
       \/ write.phase \in {"sent", "obeyed"} /\ past.turns < MaxTurns
    /\ LET e == Effects[op]
           back == [k \in Watched |-> IF k \in e.guesses /\ write.before[k] # NoAnswer
                                      THEN Entry(k, write.before[k].answer) ELSE cache[k]]
       IN /\ cache' = InvalidateIn(back, e.afterwards)
          /\ reading' = CancelIn(reading, {k \in Watched : Observed(k) /\ Loaded(k)
                                                        /\ Covered(e.afterwards, k)})
          /\ past' = [past EXCEPT
               !.turns = IF write.phase \in {"refused", "unauthorized"} THEN @ ELSE @ + 1,
               !.late = IF session = write.of THEN @ ELSE @ \cup e.guesses]
    /\ write' = Settled("failed", write.of)
    /\ UNCHANGED <<op, screen, world, session, disk>>

------------------------------------------------------------------------------
(* The user, time, and others. *)

\* Leaving the page cancels what it asked for; a prefetch goes on.
LeavePage ==
    /\ past.open /\ past.turns < MaxTurns
    /\ past' = [past EXCEPT !.open = FALSE, !.turns = @ + 1]
    /\ reading' = CancelIn(reading, {k \in Watched \ Shell : Observed(k)})
    /\ UNCHANGED <<op, screen, world, cache, write, session, disk>>

\* Opening it again asks for what is stale or missing.
ReopenPage ==
    /\ ~past.open /\ session # 0
    /\ past' = [past EXCEPT !.open = TRUE]
    /\ cache' = [k \in Watched |-> IF cache[k] # NoAnswer /\ cache[k].age = "stale"
                                   THEN [cache[k] EXCEPT !.age = "invalid"] ELSE cache[k]]
    /\ UNCHANGED <<op, screen, world, reading, write, session, disk>>

\* Half a minute in which nothing happens here: what was fresh is stale.
Age(entry) == IF entry = NoAnswer \/ entry.age = "invalid" THEN entry
              ELSE [entry EXCEPT !.age = "stale"]
Ages ==
    /\ cache' = [k \in Watched |-> Age(cache[k])]
    /\ cache' # cache
    /\ UNCHANGED <<op, screen, world, reading, write, session, disk, past>>

\* What runs ends by itself; other members press the same buttons.
Follows(scr, status) ==
    CASE scr = "run"        -> IF status = "running" THEN {"completed", "failed"}
                               ELSE IF status \in {"pending", "failed"} THEN {"running"} ELSE {}
      [] scr = "generation" -> CASE status = "running" -> {"completed", "failed", "none"}
                                 [] status = "none"    -> {"running"}
                                 [] OTHER              -> {"none"}
      [] scr = "graph"      -> IF status = "running" THEN {"ready", "failed", "pending"}
                               ELSE {"running"}
      [] OTHER              -> {}

StatusMoves ==
    /\ past.turns < MaxTurns
    /\ \E status \in Follows(screen, world.status) : world' = [world EXCEPT !.status = status]
    /\ past' = [past EXCEPT !.turns = @ + 1]
    /\ UNCHANGED <<op, screen, cache, reading, write, session, disk>>

\* Someone who manages the project gives the user another role, or none.
RoleMoves ==
    /\ past.turns < MaxTurns /\ OfProject(screen) /\ world.role \notin {"owner", "none"}
    /\ \E role \in Roles \ {"owner", world.role} : world' = [world EXCEPT !.role = role]
    /\ past' = [past EXCEPT !.turns = @ + 1]
    /\ UNCHANGED <<op, screen, cache, reading, write, session, disk>>

\* The password is changed somewhere else: this session's token is refused.
Revoke ==
    /\ session # 0 /\ past.turns < MaxTurns
    /\ past' = [past EXCEPT !.turns = @ + 1, !.revoked = @ \cup {session}]
    /\ UNCHANGED <<op, screen, world, cache, reading, write, session, disk>>

SignOut ==
    /\ session # 0 /\ past.turns < MaxTurns
    /\ EndSession("user")
    /\ UNCHANGED <<op, screen, world, write>>

\* Signing in, or finishing a sign-up, keeps the cache and puts the user in it.
SignIn ==
    /\ session = 0 /\ past.sessions < MaxSessions
    /\ session' = past.sessions + 1
    /\ past' = [past EXCEPT !.sessions = @ + 1]
    /\ cache' = SetIn(cache, [k \in {Me} |-> [AnswerNow(k) EXCEPT !.of = past.sessions + 1]])
    /\ UNCHANGED <<op, screen, world, reading, write, disk>>

\* The copy on disk follows the cache within a second; a reload starts from it.
\* It is followed where the operation, if any, is about the user alone.
Persists == op = "saveProfile" \/ (op = "browse" /\ screen = "projects")

Flush ==
    /\ Persists /\ disk # cache
    /\ disk' = cache
    /\ UNCHANGED <<op, screen, world, cache, reading, write, session, past>>

Reload ==
    /\ Persists /\ past.turns < MaxTurns
    /\ cache' = disk
    /\ reading' = EmptyCache
    /\ write' = IF write.phase = "none" THEN write ELSE Settled("failed", write.of)
    /\ past' = [past EXCEPT !.turns = @ + 1]
    /\ UNCHANGED <<op, screen, world, session, disk>>

------------------------------------------------------------------------------

\* Statuses a page may show at first.  A behaviour starts with its operation on
\* offer; one without an operation is about the start page, or about a page that
\* shows something running.  On the page of a run, the one with the most
\* answers, whoever may run starts as a tester.  What other pages asked for before
\* may be held, but for the run that is yet to be created.
StatusesOn(scr) ==
    CASE scr = "run"        -> {"pending", "running", "completed"}
      [] scr = "generation" -> {"none", "running", "completed"}
      [] scr = "graph"      -> {"pending", "running"}
      [] OTHER              -> {"none"}

StartsWith(role, status) ==
    /\ op # "browse" => op \in Offers(role, status)[screen]
    /\ op = "browse" => status = "running" \/ StatusKey(screen) = {}
    /\ screen = "run" => role \notin {"owner", "admin"}

WebInit ==
    /\ op \in DOMAIN Effects
    /\ screen \in (IF op = "browse" THEN {"projects", "run", "generation", "graph"}
                  ELSE ScreensOf(op))
    /\ \E role \in Roles \ {"none"}, status \in StatusesOn(screen) :
         /\ StartsWith(role, status)
         /\ \E has \in BOOLEAN :
              /\ has \/ op \in OfferedBlindly
              /\ world = [role |-> role, status |-> status, did |-> FALSE, has |-> has]
    /\ session = 1
    /\ \E k \in IF Effects[op].changes = {} THEN {Me} ELSE Effects[op].changes :
         LET page == StatusKey(screen) \cup (IF OfProject(screen) THEN {RoleKey(screen)} ELSE {})
         IN reading = [x \in {k} \cup page |-> NoAnswer]
    /\ \E held \in SUBSET (DOMAIN reading \ {Suite("r")}) :
         cache = [k \in DOMAIN reading |->
                    IF k \in held \cup StatusKey(screen) \cup RowsOf(op) \cup {RoleKey(screen), Me}
                    THEN Entry(k, AnswerNow(k)) ELSE NoAnswer]
    /\ disk = [k \in Watched |-> NoAnswer]
    /\ write = Settled("none", 0)
    /\ past = [open |-> TRUE, turns |-> 0, sessions |-> 1,
               revoked |-> {}, endedBy |-> "none", last |-> 0,
               prefetched |-> {}, overtaken |-> {}, late |-> {}]

WebNext ==
    \/ \E k \in Watched :
         \/ StartRead(k) \/ FocusRead(k) \/ PrefetchRead(k) \/ ServeRead(k)
         \/ ReadArrives(k) \/ ReadFails(k) \/ ReadUnauthorized(k) \/ ReadLost(k)
    \/ Ages \/ Press \/ ServeWrite \/ RefuseWrite \/ WriteUnauthorized
    \/ WriteSucceeds \/ WriteEndsSession \/ WriteFails
    \/ LeavePage \/ ReopenPage \/ StatusMoves \/ RoleMoves \/ Revoke
    \/ SignOut \/ SignIn \/ Flush \/ Reload

\* The pages ask again by themselves, and the backend answers.
WebSpec ==
    /\ WebInit /\ [][WebNext]_webVars
    /\ WF_webVars(\E k \in StatusKey(screen) : StartRead(k))
    /\ WF_webVars(\E k \in Watched : \/ ServeRead(k) \/ ReadArrives(k)
                                     \/ ReadFails(k) \/ ReadUnauthorized(k))

------------------------------------------------------------------------------
(* Properties. *)

\* What the user has just done shows.  Once an operation is reported done, no
\* answer that passes for fresh leaves it out, and once it is reported failed
\* none that passes for fresh claims a change that never happened.  Excepted
\* are the answers the pages leave to age, and a read sent before the write
\* whose answer comes after it, where nothing cancels it: one that the reply
\* itself filled in, or one that no page was showing.
OwnWritesShow ==
    session = write.of =>
      \A k \in Watched \cap Effects[op].changes :
        Loaded(k) /\ cache[k].age = "fresh" =>
          /\ write.phase = "done" =>
               \/ Shown(k).did \/ <<op, k>> \in LeftToAge
               \/ k \in past.overtaken
          /\ write.phase = "failed" /\ Shown(k).did => world.did

\* Nothing of a session outlives it.  With nobody signed in, neither the cache
\* nor the copy on disk holds an answer, and nobody is shown one given to the
\* session before, except what a write still in flight filled in after its
\* session had ended.  And a session that was not ended by its user was
\* refused by the backend.
SessionsAreSound ==
    /\ \A k \in Watched \ past.late :
         /\ Loaded(k) => session # 0 /\ Shown(k).of = session
         /\ disk[k] # NoAnswer => session # 0 /\ disk[k].answer.of = session
    /\ past.endedBy = "401" => past.last \in past.revoked

\* A press that is refused has a cause: it went by a role or a status that had
\* changed since, or it is one of those the pages offer without looking at what
\* they work on, and that is not there.
Differs(shown, now) == shown # "-" /\ shown # now
RefusalsHaveCause ==
    [][write.phase = "sent" /\ write'.phase = "refused" =>
         \/ Differs(write.basis[1], world.role)
         \/ Differs(write.basis[2], world.status)
         \/ op \in OfferedBlindly /\ ~world.has]_webVars

\* What the page shows as running it keeps asking for: once the run, the
\* generation or the graph has ended, the page comes to show that, or is left,
\* or its user is no longer let in.
Watching ==
    /\ past.open /\ session # 0 /\ session \notin past.revoked /\ world.role # "none"
    /\ StatusKey(screen) # {} /\ PageLoaded
RunsAreWatched ==
    (Watching /\ StatusShown = "running" /\ world.status # "running")
      ~> (~Watching \/ StatusShown # "running" \/ world.status = "running")
=============================================================================
