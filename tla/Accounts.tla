------------------------------ MODULE Accounts ------------------------------
(***************************************************************************)
(* Accounts: signing up by a mailed code, signing in, resetting and        *)
(* changing the password, deleting the account                             *)
(* (backend/src/auth, backend/src/users).                                  *)
(*                                                                         *)
(* A handler is a sequence of database calls with awaits between them.     *)
(* Each caller runs one handler at a time; a call record holds what the    *)
(* handler read so far and the step it is about to take.  A request that   *)
(* is refused at its first read changes nothing and is not a step.  Codes  *)
(* and reset links are random and hashed: here they are numbers that never *)
(* repeat, and 0 is a code nobody was sent.                                *)
(***************************************************************************)
EXTENDS Naturals, FiniteSets

CONSTANTS
    Emails, Usernames, Passwords,
    Callers,            \* requests in progress at one time
    Settings,           \* values REQUIRE_EMAIL_VERIFICATION takes
    MaxVerifyAttempts,  \* MAX_VERIFY_ATTEMPTS
    SignupTTL,          \* SIGNUP_TTL_MINUTES, in ticks of the clock
    ResetTTL,           \* RESET_TTL_MINUTES, in ticks of the clock
    TicksPerSecond,     \* a session's iat is in whole seconds
    MaxTime,            \* bound: ticks
    MaxRequests,        \* bound: requests made
    MaxSecrets,         \* bound: codes and links issued
    MaxUsers            \* bound: accounts created

ASSUME AccountsAssumption ==
    /\ Settings \subseteq BOOLEAN
    /\ MaxVerifyAttempts \in Nat \ {0}
    /\ SignupTTL \in Nat /\ ResetTTL \in Nat
    /\ TicksPerSecond \in Nat \ {0}
    /\ MaxTime \in Nat /\ MaxRequests \in Nat
    /\ MaxSecrets \in Nat /\ MaxUsers \in Nat

VARIABLES
    now,       \* the clock
    users,     \* the rows of users
    pending,   \* pending_signups, unique by email
    tokens,    \* auth_tokens of type password_reset
    sessions,  \* the access tokens handed out
    call,      \* the handler each caller is in
    asked,     \* how many requests were made
    secrets,   \* how many codes and links were issued
    mailed,    \* the secrets that reached an inbox
    stands,    \* history: the sign-up each code was issued for
    born,      \* history: the accounts ever created, and by which code
    resets     \* history: each password a link set: the link, the number of the
               \* request, and how many had been made by the time it was set

vars == <<now, users, pending, tokens, sessions, call, asked, secrets, mailed,
          stands, born, resets>>

Never == 0            \* passwordChangedAt is null; the clock starts at 1
Time  == 0..MaxTime
Secret == 1..MaxSecrets
UserId == 1..MaxUsers

NoRow == [code |-> 0]
SignupRow == [username : Usernames, password : Passwords, code : Secret,
              attempts : 0..(MaxVerifyAttempts - 1), expires : Nat]
UserRow == [id : UserId, email : Emails, username : Usernames,
            password : Passwords, changedAt : Time, code : 0..MaxSecrets]
TokenRow == [id : Secret, user : UserId, expires : Nat, consumed : BOOLEAN,
             saw : SUBSET Secret]
Session == [user : UserId, iat : Nat, proved : Passwords, readAt : Time]

Idle == [at |-> "idle"]
Call ==
    {Idle}
    \cup [at : {"upsert", "create"}, email : Emails, username : Usernames,
          password : Passwords]
    \cup [at : {"discard", "rewrite"}, email : Emails]
    \cup [at : {"count"}, email : Emails, attempts : 0..(MaxVerifyAttempts - 1)]
    \cup [at : {"promote"}, email : Emails, row : SignupRow]
    \cup [at : {"sign"}, user : UserId, proved : Passwords, readAt : Time]
    \cup [at : {"issue"}, user : UserId, to : Emails, live : SUBSET Secret,
          saw : SUBSET Secret]
    \cup [at : {"burn"}, user : UserId, link : Secret, password : Passwords,
          no : 1..MaxRequests]
    \cup [at : {"setPassword"}, user : UserId, link : 0..MaxSecrets,
          password : Passwords, no : 0..MaxRequests]
    \cup [at : {"delete"}, user : UserId]

Init ==
    /\ now = 1
    /\ users = {}
    /\ pending = [e \in Emails |-> NoRow]
    /\ tokens = {}
    /\ sessions = {}
    /\ call = [c \in Callers |-> Idle]
    /\ asked = 0
    /\ secrets = 0
    /\ mailed = {}
    /\ stands = {}
    /\ born = {}
    /\ resets = {}

-----------------------------------------------------------------------------
\* The caller's handler goes on to another step, or ends.
At(c, step) == call[c].at = step
Becomes(c, next) == call' = [call EXCEPT ![c] = next]
Goes(c, next) == Becomes(c, next) /\ UNCHANGED asked
Ends(c) == Goes(c, Idle)

\* A request arrives: the first step of its handler.
Begins(c, next) ==
    /\ At(c, "idle")
    /\ asked < MaxRequests
    /\ asked' = asked + 1
    /\ Becomes(c, next)

\* A step that only reads the database.
ReadsOnly == UNCHANGED <<now, users, pending, tokens, sessions, secrets,
                         mailed, stands, born, resets>>

\* EmailService.send never throws and may fail: best effort.
Mail(to, secret) ==
    \/ mailed' = mailed \cup {[to |-> to, secret |-> secret]}
    \/ UNCHANGED mailed

Delivered(secret) == \E m \in mailed : m.secret = secret

Second(t) == t \div TicksPerSecond

\* username and email are unique columns of users.
Taken(username, email) ==
    \E u \in users : u.username = username \/ u.email = email

Exists(id) == \E u \in users : u.id = id

\* The row users.create inserts.
CreateUser(email, username, password, code) ==
    /\ Cardinality(born) < MaxUsers
    /\ LET id == Cardinality(born) + 1 IN
       /\ users' = users \cup
            {[id |-> id, email |-> email, username |-> username,
              password |-> password, changedAt |-> Never, code |-> code]}
       /\ born' = born \cup {[id |-> id, code |-> code]}

-----------------------------------------------------------------------------
(* Signing up.                                                             *)

\* register: with the verification on, SignupService.start; with it off, the
\* account is created outright.  Both first look for an account in the way.
Register(c, email, username, password) ==
    /\ ~Taken(username, email)
    /\ \E required \in Settings :
          Begins(c, [at |-> IF required THEN "upsert" ELSE "create",
                   email |-> email, username |-> username, password |-> password])
    /\ ReadsOnly

CreateVerified(c) ==
    /\ At(c, "create")
    /\ LET r == call[c] IN
       /\ ~Taken(r.username, r.email)
       /\ CreateUser(r.email, r.username, r.password, 0)
    /\ Ends(c)
    /\ UNCHANGED <<now, pending, tokens, sessions, secrets, mailed, stands,
                   resets>>

\* A code is issued for what the pending row holds from now on.
IssueCode(email, username, password) ==
    /\ secrets < MaxSecrets
    /\ secrets' = secrets + 1
    /\ pending' = [pending EXCEPT ![email] =
         [username |-> username, password |-> password, code |-> secrets + 1,
          attempts |-> 0, expires |-> now + SignupTTL]]
    /\ stands' = stands \cup
         {[code |-> secrets + 1, email |-> email, username |-> username,
           password |-> password]}
    /\ Mail(email, secrets + 1)

\* Wrong: an existing row takes the new name and password but keeps its code.
StartUpserts_KeepsCode(c) ==
    /\ At(c, "upsert")
    /\ LET r == call[c] IN
          IF pending[r.email] = NoRow
          THEN IssueCode(r.email, r.username, r.password)
          ELSE /\ pending' = [pending EXCEPT ![r.email].username = r.username,
                                             ![r.email].password = r.password]
               /\ UNCHANGED <<secrets, stands, mailed>>
    /\ Ends(c)
    /\ UNCHANGED <<now, users, tokens, sessions, born, resets>>

\* "Upsert, not create": a second attempt at an address replaces the first.
StartUpserts(c) ==
    /\ At(c, "upsert")
    /\ LET r == call[c] IN IssueCode(r.email, r.username, r.password)
    /\ Ends(c)
    /\ UNCHANGED <<now, users, tokens, sessions, born, resets>>

CompleteDecides(c, email, code, limit) ==
    /\ pending[email] # NoRow
    /\ LET row == pending[email] IN
       \/ /\ \/ row.expires <= now
             \/ row.code # code /\ row.attempts + 1 >= limit
          /\ Begins(c, [at |-> "discard", email |-> email])
       \/ /\ row.expires > now
          /\ row.code # code /\ row.attempts + 1 < limit
          /\ Begins(c, [at |-> "count", email |-> email,
                        attempts |-> row.attempts + 1])
       \/ /\ row.expires > now
          /\ row.code = code
          /\ Begins(c, [at |-> "promote", email |-> email, row |-> row])
    /\ ReadsOnly

\* complete reads the pending row and decides before it writes anything: the
\* code has expired, is wrong once too often, is wrong, or is right.
CompleteReads(c, email, code) ==
    CompleteDecides(c, email, code, MaxVerifyAttempts)

\* deleteMany: no error when the row is already gone.
Discard(c) ==
    /\ At(c, "discard")
    /\ pending' = [pending EXCEPT ![call[c].email] = NoRow]
    /\ Ends(c)
    /\ UNCHANGED <<now, users, tokens, sessions, secrets, mailed, stands, born,
                   resets>>

\* The counter is written from the row as it was read.
CountMiss(c) ==
    /\ At(c, "count")
    /\ pending[call[c].email] # NoRow
    /\ pending' = [pending EXCEPT ![call[c].email].attempts = call[c].attempts]
    /\ Ends(c)
    /\ UNCHANGED <<now, users, tokens, sessions, secrets, mailed, stands, born,
                   resets>>

\* promote: one transaction.  A clash, or a pending row that is already gone
\* (delete raises), rolls it back.
Promote(c) ==
    /\ At(c, "promote")
    /\ LET e == call[c].email  row == call[c].row IN
       /\ ~Taken(row.username, e)
       /\ pending[e] # NoRow
       /\ CreateUser(e, row.username, row.password, row.code)
       /\ pending' = [pending EXCEPT ![e] = NoRow]
       /\ Goes(c, [at |-> "sign", user |-> Cardinality(born) + 1,
                   proved |-> row.password, readAt |-> now])
    /\ UNCHANGED <<now, tokens, sessions, secrets, mailed, stands, resets>>

\* resend reads the row, then updates whatever row is there by then.
ResendReads(c, email) ==
    /\ pending[email] # NoRow
    /\ Begins(c, [at |-> "rewrite", email |-> email])
    /\ ReadsOnly

Resend(c) ==
    /\ At(c, "rewrite")
    /\ LET e == call[c].email  row == pending[e] IN
       /\ row # NoRow
       /\ IssueCode(e, row.username, row.password)
    /\ Ends(c)
    /\ UNCHANGED <<now, users, tokens, sessions, born, resets>>

-----------------------------------------------------------------------------
(* Sessions.                                                               *)

\* JwtStrategy.validate: the user exists, and the session was not minted in a
\* second before that of the last password change.
Accepted(s) ==
    \E u \in users :
       /\ u.id = s.user
       /\ u.changedAt # Never => s.iat >= Second(u.changedAt)

\* login finds the user and compares the password with the hash it read.
LoginReads(c, u) ==
    /\ Begins(c, [at |-> "sign", user |-> u.id, proved |-> u.password,
                readAt |-> now])
    /\ ReadsOnly

SignAccessToken(c) ==
    /\ At(c, "sign")
    /\ sessions' = sessions \cup
         {[user |-> call[c].user, iat |-> Second(now),
           proved |-> call[c].proved, readAt |-> call[c].readAt]}
    /\ Ends(c)
    /\ UNCHANGED <<now, users, pending, tokens, secrets, mailed, stands, born,
                   resets>>

-----------------------------------------------------------------------------
(* Resetting a forgotten password.                                         *)

Live(id) == {t.id : t \in {x \in tokens : x.user = id /\ ~x.consumed}}
Of(id)   == {t.id : t \in {x \in tokens : x.user = id}}

\* issue begins: the statement that retires the user's live links sees the
\* links that are committed by now.
ForgotPassword(c, u) ==
    /\ Begins(c, [at |-> "issue", user |-> u.id, to |-> u.email,
                live |-> Live(u.id), saw |-> Of(u.id)])
    /\ ReadsOnly

\* The transaction of issue commits: those links retired, the new one made.
\* Its user may be gone by now, and then it is rolled back.
IssueWith(c, retired) ==
    /\ At(c, "issue")
    /\ Exists(call[c].user)
    /\ secrets < MaxSecrets
    /\ secrets' = secrets + 1
    /\ tokens' =
         {[t EXCEPT !.consumed = @ \/ t.id \in retired] : t \in tokens}
         \cup {[id |-> secrets + 1, user |-> call[c].user,
                expires |-> now + ResetTTL, consumed |-> FALSE,
                saw |-> call[c].saw]}
    /\ Mail(call[c].to, secrets + 1)
    /\ Ends(c)
    /\ UNCHANGED <<now, users, pending, sessions, stands, born, resets>>

Issue(c) == IssueWith(c, call[c].live)

\* consumeResetToken: looked up and checked here, burnt in the next step.
ResetReads(c, t, password) ==
    /\ Delivered(t.id)
    /\ ~t.consumed
    /\ t.expires > now
    /\ Begins(c, [at |-> "burn", user |-> t.user, link |-> t.id,
                password |-> password, no |-> asked + 1])
    /\ ReadsOnly

\* Wrong: the link is not burnt.
Burn_Forgotten(c) ==
    /\ At(c, "burn")
    /\ Goes(c, [at |-> "setPassword", user |-> call[c].user,
                link |-> call[c].link, password |-> call[c].password,
                no |-> call[c].no])
    /\ ReadsOnly

Burn(c) ==
    /\ At(c, "burn")
    /\ call[c].link \in {t.id : t \in tokens}
    /\ tokens' =
         {[t EXCEPT !.consumed = @ \/ t.id = call[c].link] : t \in tokens}
    /\ Goes(c, [at |-> "setPassword", user |-> call[c].user,
                link |-> call[c].link, password |-> call[c].password,
                no |-> call[c].no])
    /\ UNCHANGED <<now, users, pending, sessions, secrets, mailed, stands, born,
                   resets>>

-----------------------------------------------------------------------------
(* A signed-in user's own account.                                         *)

\* changePassword compares with the hash it read, long before it writes.
ChangeReads(c, s, password) ==
    /\ Accepted(s)
    /\ \E u \in users : u.id = s.user /\ u.password # password
    /\ Begins(c, [at |-> "setPassword", user |-> s.user, link |-> 0,
                password |-> password, no |-> 0])
    /\ ReadsOnly

\* What the history keeps of a password set, when a link set it.
Reset(r) == IF r.link = 0 THEN {} ELSE {[link |-> r.link, no |-> r.no, by |-> asked]}

\* Wrong: the sessions minted before stay valid.
SetPassword_KeepsSessions(c) ==
    /\ At(c, "setPassword")
    /\ Exists(call[c].user)
    /\ users' = {IF u.id = call[c].user THEN [u EXCEPT !.password = call[c].password]
                 ELSE u : u \in users}
    /\ resets' = resets \cup Reset(call[c])
    /\ Ends(c)
    /\ UNCHANGED <<now, pending, tokens, sessions, secrets, mailed, stands, born>>

\* The update of resetPassword and of changePassword.
SetPassword(c) ==
    /\ At(c, "setPassword")
    /\ Exists(call[c].user)
    /\ users' = {IF u.id = call[c].user
                 THEN [u EXCEPT !.password = call[c].password, !.changedAt = now]
                 ELSE u : u \in users}
    /\ resets' = resets \cup Reset(call[c])
    /\ Ends(c)
    /\ UNCHANGED <<now, pending, tokens, sessions, secrets, mailed, stands, born>>

DeleteReads(c, s) ==
    /\ Accepted(s)
    /\ Begins(c, [at |-> "delete", user |-> s.user])
    /\ ReadsOnly

\* The transaction of deleteAccount; auth_tokens cascade.  (The projects and
\* the memberships it also removes are in module Memberships.)
DeleteAccount(c) ==
    /\ At(c, "delete")
    /\ Exists(call[c].user)
    /\ users' = {u \in users : u.id # call[c].user}
    /\ tokens' = {t \in tokens : t.user # call[c].user}
    /\ Ends(c)
    /\ UNCHANGED <<now, pending, sessions, secrets, mailed, stands, born,
                   resets>>

\* A handler ends early: a later check or the database refuses (409, P2002,
\* P2025), or the server dies.
Fails(c) ==
    /\ ~At(c, "idle")
    /\ Ends(c)
    /\ ReadsOnly

Tick ==
    /\ now < MaxTime
    /\ now' = now + 1
    /\ UNCHANGED <<users, pending, tokens, sessions, call, asked, secrets,
                   mailed, stands, born, resets>>

-----------------------------------------------------------------------------
Typed == {0} \cup {m.secret : m \in mailed}   \* codes a person may type

Request(c) ==
    \/ \E e \in Emails, n \in Usernames, p \in Passwords : Register(c, e, n, p)
    \/ \E e \in Emails, code \in Typed : CompleteReads(c, e, code)
    \/ \E e \in Emails : ResendReads(c, e)
    \/ \E u \in users : LoginReads(c, u) \/ ForgotPassword(c, u)
    \/ \E t \in tokens, p \in Passwords : ResetReads(c, t, p)
    \/ \E s \in sessions, p \in Passwords : ChangeReads(c, s, p)
    \/ \E s \in sessions : DeleteReads(c, s)

Continue(c) ==
    \/ CreateVerified(c) \/ StartUpserts(c) \/ Discard(c) \/ CountMiss(c)
    \/ Promote(c) \/ Resend(c) \/ SignAccessToken(c) \/ Issue(c) \/ Burn(c)
    \/ SetPassword(c) \/ DeleteAccount(c) \/ Fails(c)

Next == (\E c \in Callers : Request(c) \/ Continue(c)) \/ Tick

Spec == Init /\ [][Next]_vars

-----------------------------------------------------------------------------
TypeOK ==
    /\ now \in Time
    /\ users \subseteq UserRow
    /\ pending \in [Emails -> SignupRow \cup {NoRow}]
    /\ tokens \subseteq TokenRow
    /\ sessions \subseteq Session
    /\ call \in [Callers -> Call]
    /\ asked \in 0..MaxRequests
    /\ secrets \in 0..MaxSecrets
    /\ mailed \subseteq [to : Emails, secret : Secret]
    /\ stands \subseteq [code : Secret, email : Emails, username : Usernames,
                         password : Passwords]
    /\ born \subseteq [id : UserId, code : 0..MaxSecrets]
    /\ resets \subseteq [link : Secret, no : 1..MaxRequests, by : 1..MaxRequests]

\* "Every User row is verified": an account made by a code was made by a code
\* mailed to that very address, and holds the name and, until it is changed,
\* the password of the sign-up the code was issued for, however sign-ups,
\* resends and verifications of the address overlap.
AccountsAreProven ==
    \A u \in users : u.code # 0 =>
       /\ [to |-> u.email, secret |-> u.code] \in mailed
       /\ \E s \in stands :
             /\ s.code = u.code /\ s.email = u.email
             /\ s.username = u.username
             /\ u.changedAt = Never => s.password = u.password

\* A code that made an account opens no pending sign-up any more, even after
\* the account was deleted.
SpentCodeIsGone ==
    \A e \in Emails, b \in born :
       pending[e] # NoRow => pending[e].code # b.code

\* A reset link is spent by its use: whoever else sets a password with it had
\* asked to before the first did.  It is looked up and burnt in two steps, so two
\* requests that overlap may both have read it unburnt.
OnlyOverlappingResetsShare ==
    \A a, b \in resets : a.link = b.link => a.no <= b.by

\* "The newest email always wins": of two live links of a user neither was
\* there when the other was asked for.
NewestLinkWins ==
    \A t1, t2 \in tokens :
       t1.user = t2.user /\ ~t1.consumed /\ ~t2.consumed => t1.id \notin t2.saw

\* Changing a password ends the sessions opened with the one before it: an
\* accepted session proved the current password, or its login had read the
\* old one before the change and was signed in that second or later.
AcceptedSessionsAreCurrent ==
    \A s \in sessions, u \in users :
       s.user = u.id /\ Accepted(s) =>
          \/ s.proved = u.password
          \/ s.readAt <= u.changedAt /\ Second(u.changedAt) <= s.iat

\* Only a code proves an address, and a code proves it once.
CodesProveAddresses == AccountsAreProven /\ SpentCodeIsGone

\* Of the links mailed to a person the newest works, and none for a request made
\* after it set a password.
LinksEndWithUse == OnlyOverlappingResetsShare /\ NewestLinkWins
=============================================================================
