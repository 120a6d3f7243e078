--------------------------- MODULE Accounts_proofs ---------------------------
(***************************************************************************)
(* Theorems about Accounts, for any number of addresses, people, handlers  *)
(* at one time, requests, codes and accounts, and for any expiry times.    *)
(***************************************************************************)
EXTENDS Accounts, FiniteSetTheorems, TLAPS

\* The part of the type invariant the proofs rest on.
UserR == [id : Nat, email : Emails, username : Usernames, password : Passwords,
          changedAt : Nat, code : Nat]
TokenR == [id : Nat, user : Nat, expires : Nat, consumed : BOOLEAN, saw : SUBSET Nat]
SignupR == [username : Usernames, password : Passwords, code : Nat, attempts : Nat,
            expires : Nat]
SessionR == [user : Nat, iat : Nat, proved : Passwords, readAt : Nat]

InHand(r) ==
    /\ r.at \in {"upsert", "create"} =>
          r.email \in Emails /\ r.username \in Usernames /\ r.password \in Passwords
    /\ r.at \in {"discard", "rewrite", "count", "promote"} => r.email \in Emails
    /\ r.at = "count" => r.attempts \in Nat
    /\ r.at = "promote" => r.row \in SignupR
    /\ r.at = "sign" => r.user \in Nat /\ r.readAt \in Nat /\ r.proved \in Passwords
    /\ r.at = "issue" => r.user \in Nat /\ r.saw \in SUBSET Nat
    /\ r.at \in {"burn", "setPassword"} => r.link \in Nat /\ r.password \in Passwords

Rows ==
    /\ now \in Nat /\ now >= 1
    /\ users \subseteq UserR
    /\ pending \in [Emails -> SignupR \cup {NoRow}]
    /\ tokens \subseteq TokenR
    /\ sessions \subseteq SessionR
    /\ secrets \in Nat
    /\ IsFiniteSet(born)

Handlers ==
    /\ call = [c \in Callers |-> call[c]]
    /\ \A c \in Callers : InHand(call[c])

LEMMA NoRowIsNoRow == NoRow \notin SignupR
BY DEF NoRow, SignupR

LEMMA Moves ==
    ASSUME Handlers, NEW c \in Callers, NEW n, Becomes(c, n)
    PROVE  call'[c] = n /\ \A d \in Callers \ {c} : call'[d] = call[d]
BY DEF Handlers, Becomes

LEMMA MovesWell ==
    ASSUME Handlers, NEW c \in Callers, NEW n, Becomes(c, n), InHand(n)
    PROVE  Handlers'
BY DEF Handlers, Becomes

LEMMA IdleIsIdle == InHand(Idle)
BY DEF InHand, Idle

\* An account is created with the next number.
LEMMA Created ==
    ASSUME Rows, NEW e, NEW n, NEW p, NEW code, CreateUser(e, n, p, code)
    PROVE  LET id == Cardinality(born) + 1 IN
           /\ Cardinality(born) \in Nat
           /\ users' = users \cup {[id |-> id, email |-> e, username |-> n, password |-> p,
                                    changedAt |-> 0, code |-> code]}
           /\ born' = born \cup {[id |-> id, code |-> code]}
           /\ IsFiniteSet(born')
<1>1. Cardinality(born) \in Nat /\ IsFiniteSet(born)
  BY FS_CardinalityType DEF Rows
<1>2. QED
  BY <1>1, FS_AddElement DEF CreateUser, Never

LEMMA RequestIs ==
    ASSUME Rows, Handlers, AccountsAssumption, NEW c \in Callers, Request(c)
    PROVE  /\ ReadsOnly
           /\ \E n : Becomes(c, n) /\ InHand(n)
<1>1. ASSUME NEW e \in Emails, NEW u \in Usernames, NEW p \in Passwords, Register(c, e, u, p)
      PROVE  ReadsOnly /\ \E n : Becomes(c, n) /\ InHand(n)
  BY <1>1 DEF Register, Begins, InHand
<1>2. ASSUME NEW e \in Emails, NEW code, CompleteReads(c, e, code)
      PROVE  ReadsOnly /\ \E n : Becomes(c, n) /\ InHand(n)
  <2>1. pending[e] \in SignupR
    BY <1>2, NoRowIsNoRow DEF CompleteReads, CompleteDecides, Rows
  <2>2. QED
    BY <2>1, <1>2 DEF CompleteReads, CompleteDecides, Begins, InHand, SignupR
<1>3. ASSUME NEW e \in Emails, ResendReads(c, e)
      PROVE  ReadsOnly /\ \E n : Becomes(c, n) /\ InHand(n)
  BY <1>3 DEF ResendReads, Begins, InHand
<1>4. ASSUME NEW u \in users, LoginReads(c, u)
      PROVE  ReadsOnly /\ \E n : Becomes(c, n) /\ InHand(n)
  BY <1>4 DEF LoginReads, Begins, InHand, Rows, UserR
<1>5. ASSUME NEW u \in users, ForgotPassword(c, u)
      PROVE  ReadsOnly /\ \E n : Becomes(c, n) /\ InHand(n)
  <2>1. Of(u.id) \in SUBSET Nat /\ u.id \in Nat
    BY DEF Of, Rows, TokenR, UserR
  <2>2. QED
    BY <1>5, <2>1 DEF ForgotPassword, Begins, InHand
<1>6. ASSUME NEW t \in tokens, NEW p \in Passwords, ResetReads(c, t, p)
      PROVE  ReadsOnly /\ \E n : Becomes(c, n) /\ InHand(n)
  BY <1>6 DEF ResetReads, Begins, InHand, Rows, TokenR
<1>7. ASSUME NEW s \in sessions, NEW p \in Passwords, ChangeReads(c, s, p)
      PROVE  ReadsOnly /\ \E n : Becomes(c, n) /\ InHand(n)
  BY <1>7 DEF ChangeReads, Begins, InHand
<1>8. ASSUME NEW s \in sessions, DeleteReads(c, s)
      PROVE  ReadsOnly /\ \E n : Becomes(c, n) /\ InHand(n)
  BY <1>8 DEF DeleteReads, Begins, InHand
<1>9. QED
  BY <1>1, <1>2, <1>3, <1>4, <1>5, <1>6, <1>7, <1>8 DEF Request

LEMMA Types == Spec => [](Rows /\ Handlers)
<1> USE AccountsAssumption
<1>1. Init => Rows /\ Handlers
  <2> SUFFICES ASSUME Init PROVE Rows /\ Handlers
    OBVIOUS
  <2>1. Rows
    BY FS_EmptySet DEF Init, Rows
  <2>2. Handlers
    BY IdleIsIdle DEF Init, Handlers
  <2>3. QED
    BY <2>1, <2>2
<1>2. Rows /\ Handlers /\ [Next]_vars => (Rows /\ Handlers)'
  <2> SUFFICES ASSUME Rows, Handlers, [Next]_vars PROVE Rows' /\ Handlers'
    OBVIOUS
  <2>1. ASSUME NEW c \in Callers, Request(c) PROVE Rows' /\ Handlers'
    BY <2>1, RequestIs, MovesWell DEF ReadsOnly, Rows
  <2>2. ASSUME NEW c \in Callers, Continue(c) PROVE Rows' /\ Handlers'
    <3> DEFINE r == call[c]
    <3>0. InHand(r)
      BY DEF Handlers
    <3>i. Ends(c) => Handlers'
      BY IdleIsIdle, MovesWell DEF Ends, Goes
    <3>s. ASSUME NEW e \in Emails, NEW n \in Usernames, NEW p \in Passwords, IssueCode(e, n, p)
          PROVE  /\ secrets' = secrets + 1
                 /\ pending' \in [Emails -> SignupR \cup {NoRow}]
      <4>1. [username |-> n, password |-> p, code |-> secrets + 1, attempts |-> 0,
             expires |-> now + SignupTTL] \in SignupR
        BY DEF SignupR, Rows, AccountsAssumption
      <4>2. QED
        BY <3>s, <4>1 DEF IssueCode, Rows
    <3>1. CASE CreateVerified(c)
      <4>1. Handlers' /\ UNCHANGED <<now, pending, tokens, sessions, secrets>>
        BY <3>1, <3>i DEF CreateVerified
      <4>2. CreateUser(r.email, r.username, r.password, 0)
            /\ r.email \in Emails /\ r.username \in Usernames /\ r.password \in Passwords
        BY <3>1, <3>0 DEF CreateVerified, At, InHand
      <4>3. users' \subseteq UserR /\ IsFiniteSet(born')
        BY <4>2, Created DEF Rows, UserR
      <4>4. QED
        BY <4>1, <4>3 DEF Rows
    <3>2. CASE StartUpserts(c)
      <4>1. /\ Handlers' /\ UNCHANGED <<now, users, tokens, sessions, born>>
            /\ IssueCode(r.email, r.username, r.password)
            /\ r.email \in Emails /\ r.username \in Usernames /\ r.password \in Passwords
        BY <3>2, <3>0, <3>i DEF StartUpserts, At, InHand
      <4>2. QED
        BY <4>1, <3>s DEF Rows
    <3>3. CASE Discard(c)
      BY <3>3, <3>0, <3>i DEF Discard, At, InHand, Rows
    <3>4. CASE CountMiss(c)
      <4>1. /\ Handlers' /\ UNCHANGED <<now, users, tokens, sessions, secrets, born>>
            /\ r.email \in Emails /\ r.attempts \in Nat /\ pending[r.email] \in SignupR
            /\ pending' = [pending EXCEPT ![r.email].attempts = r.attempts]
        BY <3>4, <3>0, <3>i DEF CountMiss, At, InHand, Rows
      <4>2. [pending[r.email] EXCEPT !.attempts = r.attempts] \in SignupR
        BY <4>1 DEF SignupR
      <4>3. QED
        BY <4>1, <4>2 DEF Rows
    <3>5. CASE Promote(c)
      <4>1. /\ CreateUser(r.email, r.row.username, r.row.password, r.row.code)
            /\ r.email \in Emails /\ r.row \in SignupR
            /\ pending' = [pending EXCEPT ![r.email] = NoRow]
            /\ Goes(c, [at |-> "sign", user |-> Cardinality(born) + 1,
                        proved |-> r.row.password, readAt |-> now])
            /\ UNCHANGED <<now, tokens, sessions, secrets>>
        BY <3>5, <3>0 DEF Promote, At, InHand
      <4>2. r.row.username \in Usernames /\ r.row.password \in Passwords /\ r.row.code \in Nat
        BY <4>1 DEF SignupR
      <4>3. users' \subseteq UserR /\ IsFiniteSet(born') /\ Cardinality(born) \in Nat
        BY <4>1, <4>2, Created DEF Rows, UserR
      <4>4. InHand([at |-> "sign", user |-> Cardinality(born) + 1,
                    proved |-> r.row.password, readAt |-> now])
        BY <4>2, <4>3 DEF InHand, Rows
      <4>5. Handlers'
        BY <4>1, <4>4, MovesWell DEF Goes
      <4>6. QED
        BY <4>1, <4>3, <4>5 DEF Rows
    <3>6. CASE Resend(c)
      <4>1. /\ Handlers' /\ UNCHANGED <<now, users, tokens, sessions, born>>
            /\ r.email \in Emails /\ pending[r.email] \in SignupR
            /\ IssueCode(r.email, pending[r.email].username, pending[r.email].password)
        BY <3>6, <3>0, <3>i DEF Resend, At, InHand, Rows
      <4>2. pending[r.email].username \in Usernames /\ pending[r.email].password \in Passwords
        BY <4>1 DEF SignupR
      <4>3. QED
        BY <4>1, <4>2, <3>s DEF Rows
    <3>7. CASE SignAccessToken(c)
      <4>1. Second(now) \in Nat
        BY DEF Second, Rows, AccountsAssumption
      <4>2. [user |-> r.user, iat |-> Second(now), proved |-> r.proved, readAt |-> r.readAt]
               \in SessionR
        BY <3>7, <3>0, <4>1 DEF SignAccessToken, At, InHand, SessionR
      <4>3. QED
        BY <3>7, <3>i, <4>2 DEF SignAccessToken, Rows
    <3>8. CASE Issue(c)
      <4>1. /\ Handlers' /\ UNCHANGED <<now, users, pending, sessions, born>>
            /\ secrets' = secrets + 1 /\ r.user \in Nat /\ r.saw \in SUBSET Nat
            /\ tokens' = {[t EXCEPT !.consumed = @ \/ t.id \in r.live] : t \in tokens}
                 \cup {[id |-> secrets + 1, user |-> r.user, expires |-> now + ResetTTL,
                        consumed |-> FALSE, saw |-> r.saw]}
        BY <3>8, <3>0, <3>i DEF Issue, IssueWith, At, InHand
      <4>2. [id |-> secrets + 1, user |-> r.user, expires |-> now + ResetTTL,
             consumed |-> FALSE, saw |-> r.saw] \in TokenR
        BY <4>1 DEF TokenR, Rows, AccountsAssumption
      <4>3. \A t \in tokens : [t EXCEPT !.consumed = @ \/ t.id \in r.live] \in TokenR
        BY DEF TokenR, Rows
      <4>4. tokens' \subseteq TokenR
        BY <4>1, <4>2, <4>3
      <4>5. QED
        BY <4>1, <4>4 DEF Rows
    <3>9. CASE Burn(c)
      <4>1. /\ Goes(c, [at |-> "setPassword", user |-> r.user, link |-> r.link,
                        password |-> r.password, no |-> r.no])
            /\ UNCHANGED <<now, users, pending, sessions, secrets, born>>
            /\ r.link \in Nat /\ r.password \in Passwords
            /\ tokens' = {[t EXCEPT !.consumed = @ \/ t.id = r.link] : t \in tokens}
        BY <3>9, <3>0 DEF Burn, At, InHand
      <4>2. Handlers'
        BY <4>1, MovesWell DEF Goes, InHand
      <4>3. \A t \in tokens : [t EXCEPT !.consumed = @ \/ t.id = r.link] \in TokenR
        BY DEF TokenR, Rows
      <4>4. QED
        BY <4>1, <4>2, <4>3 DEF Rows
    <3>10. CASE SetPassword(c)
      <4>1. /\ Handlers' /\ UNCHANGED <<now, pending, tokens, sessions, secrets, born>>
            /\ r.password \in Passwords
            /\ users' = {IF u.id = r.user
                         THEN [u EXCEPT !.password = r.password, !.changedAt = now]
                         ELSE u : u \in users}
        BY <3>10, <3>0, <3>i DEF SetPassword, At, InHand
      <4>2. \A u \in users : [u EXCEPT !.password = r.password, !.changedAt = now] \in UserR
        BY <4>1 DEF UserR, Rows
      <4>3. QED
        BY <4>1, <4>2 DEF Rows
    <3>11. CASE DeleteAccount(c)
      BY <3>11, <3>i DEF DeleteAccount, Rows
    <3>12. CASE Fails(c)
      BY <3>12, <3>i DEF Fails, ReadsOnly, Rows
    <3>13. QED
      BY <2>2, <3>1, <3>2, <3>3, <3>4, <3>5, <3>6, <3>7, <3>8, <3>9, <3>10, <3>11, <3>12
         DEF Continue
  <2>3. CASE Tick
    BY <2>3 DEF Tick, Rows, Handlers
  <2>4. CASE UNCHANGED vars
    BY <2>4 DEF vars, Rows, Handlers
  <2>5. QED
    BY <2>1, <2>2, <2>3, <2>4 DEF Next
<1>3. QED
  BY <1>1, <1>2, PTL DEF Spec

-----------------------------------------------------------------------------
(* Links.  A link is burnt in the step before its password is set; a new    *)
(* one retires those its request saw live, and the ones it saw that were    *)
(* not live are burnt for good.  So what a handler has in hand must stay    *)
(* true while others issue and burn: burnt links never come back, and a new *)
(* link has a number nobody has seen.                                       *)

LinkNumbers ==
    /\ \A t \in tokens : t.id <= secrets /\ \A i \in t.saw : i <= secrets
    /\ \A t1, t2 \in tokens : t1.id = t2.id => t1 = t2
    /\ \A a \in resets : a.link \in Nat /\ a.link <= secrets

\* A link that set a password is burnt, whatever fails between the two writes.
UsedLinkIsBurnt == \A t \in tokens, a \in resets : t.id = a.link => t.consumed

\* What a handler has in hand, of the links T and the numbers up to m.
LinkInHand(r, T, m) ==
    /\ r.at \in {"burn", "setPassword"} => r.link <= m
    /\ r.at = "setPassword" /\ r.link # 0 =>
          \A t \in T : t.id = r.link => t.consumed
    /\ r.at = "issue" =>
          /\ \A i \in r.saw : i <= m
          /\ \A t \in T : t.user = r.user /\ t.id \in r.saw => t.consumed \/ t.id \in r.live

LinkInv ==
    /\ LinkNumbers
    /\ \A c \in Callers : LinkInHand(call[c], tokens, secrets)
    /\ UsedLinkIsBurnt
    /\ NewestLinkWins

\* What happens to the links in a step: each is one of before, burnt if it was
\* burnt, or the one new link.
Descends(t) ==
    \/ t.id = secrets + 1 /\ secrets' = secrets + 1
    \/ \E o \in tokens : /\ t.id = o.id /\ t.user = o.user /\ t.saw = o.saw
                         /\ o.consumed => t.consumed

LEMMA HandsKept ==
    ASSUME Rows, secrets' \in Nat, secrets <= secrets', \A t \in tokens' : Descends(t),
           NEW r, InHand(r), LinkInHand(r, tokens, secrets)
    PROVE  LinkInHand(r, tokens', secrets')
<1>1. secrets \in Nat /\ tokens \subseteq TokenR
  BY DEF Rows
<1>2. CASE r.at \in {"burn", "setPassword"}
  <2>1. r.link \in Nat /\ r.link <= secrets
    BY <1>2 DEF InHand, LinkInHand
  <2>2. r.at = "setPassword" /\ r.link # 0 =>
           \A t \in tokens' : t.id = r.link => t.consumed
    BY <1>1, <2>1 DEF LinkInHand, Descends
  <2>3. QED
    BY <1>1, <1>2, <2>1, <2>2 DEF LinkInHand
<1>3. CASE r.at = "issue"
  <2>1. \A i \in r.saw : i \in Nat /\ i <= secrets
    BY <1>3 DEF InHand, LinkInHand
  <2>2. \A t \in tokens' : t.user = r.user /\ t.id \in r.saw => t.consumed \/ t.id \in r.live
    BY <1>1, <1>3, <2>1 DEF LinkInHand, Descends
  <2>3. QED
    BY <1>1, <1>3, <2>1, <2>2 DEF LinkInHand
<1>4. CASE r.at \notin {"burn", "setPassword", "issue"}
  BY <1>4 DEF LinkInHand
<1>5. QED
  BY <1>2, <1>3, <1>4

\* Links that are as they were, whatever codes were issued.
LEMMA LinksKept ==
    ASSUME Rows, LinkInv, UNCHANGED <<tokens, resets>>,
           secrets' \in Nat, secrets <= secrets'
    PROVE  /\ LinkNumbers' /\ UsedLinkIsBurnt' /\ NewestLinkWins'
           /\ \A t \in tokens' : Descends(t)
<1>1. secrets \in Nat /\ tokens \subseteq TokenR
  BY DEF Rows
<1>2. LinkNumbers'
  <2>1. \A t \in tokens : t.id \in Nat /\ t.saw \subseteq Nat
    BY <1>1 DEF TokenR
  <2>2. QED
    BY <1>1, <2>1 DEF LinkInv, LinkNumbers
<1>3. QED
  BY <1>2 DEF LinkInv, UsedLinkIsBurnt, NewestLinkWins, Descends

\* A request that arrives takes what it read.
LEMMA RequestTakesLinks ==
    ASSUME Rows, LinkInv, NEW c \in Callers, Request(c)
    PROVE  \E n : Becomes(c, n) /\ LinkInHand(n, tokens, secrets)
<1>1. ASSUME NEW e \in Emails, NEW u \in Usernames, NEW p \in Passwords, Register(c, e, u, p)
      PROVE  \E n : Becomes(c, n) /\ LinkInHand(n, tokens, secrets)
  BY <1>1 DEF Register, Begins, LinkInHand
<1>2. ASSUME NEW e \in Emails, NEW code, CompleteReads(c, e, code)
      PROVE  \E n : Becomes(c, n) /\ LinkInHand(n, tokens, secrets)
  BY <1>2 DEF CompleteReads, CompleteDecides, Begins, LinkInHand
<1>3. ASSUME NEW e \in Emails, ResendReads(c, e)
      PROVE  \E n : Becomes(c, n) /\ LinkInHand(n, tokens, secrets)
  BY <1>3 DEF ResendReads, Begins, LinkInHand
<1>4. ASSUME NEW u \in users, LoginReads(c, u)
      PROVE  \E n : Becomes(c, n) /\ LinkInHand(n, tokens, secrets)
  BY <1>4 DEF LoginReads, Begins, LinkInHand
<1>5. ASSUME NEW u \in users, ForgotPassword(c, u)
      PROVE  \E n : Becomes(c, n) /\ LinkInHand(n, tokens, secrets)
  <2> DEFINE n == [at |-> "issue", user |-> u.id, to |-> u.email,
                   live |-> Live(u.id), saw |-> Of(u.id)]
  <2>1. \A i \in n.saw : i <= secrets
    BY DEF Of, LinkInv, LinkNumbers
  <2>2. \A t \in tokens : t.user = n.user /\ t.id \in n.saw => t.consumed \/ t.id \in n.live
    BY DEF Live
  <2>3. LinkInHand(n, tokens, secrets)
    BY <2>1, <2>2 DEF LinkInHand
  <2>4. QED
    BY <1>5, <2>3 DEF ForgotPassword, Begins
<1>6. ASSUME NEW t \in tokens, NEW p \in Passwords, ResetReads(c, t, p)
      PROVE  \E n : Becomes(c, n) /\ LinkInHand(n, tokens, secrets)
  BY <1>6 DEF ResetReads, Begins, LinkInHand, LinkInv, LinkNumbers
<1>7. ASSUME NEW s \in sessions, NEW p \in Passwords, ChangeReads(c, s, p)
      PROVE  \E n : Becomes(c, n) /\ LinkInHand(n, tokens, secrets)
  BY <1>7 DEF ChangeReads, Begins, LinkInHand, Rows
<1>8. ASSUME NEW s \in sessions, DeleteReads(c, s)
      PROVE  \E n : Becomes(c, n) /\ LinkInHand(n, tokens, secrets)
  BY <1>8 DEF DeleteReads, Begins, LinkInHand
<1>9. QED
  BY <1>1, <1>2, <1>3, <1>4, <1>5, <1>6, <1>7, <1>8 DEF Request

\* A handler that goes on, issuing, burning and setting passwords apart.
LEMMA OthersLeaveLinks ==
    ASSUME Rows, Handlers, NEW c \in Callers, Continue(c),
           ~Issue(c), ~Burn(c), ~SetPassword(c), ~DeleteAccount(c)
    PROVE  /\ UNCHANGED <<tokens, resets>>
           /\ secrets' \in {secrets, secrets + 1}
           /\ \E n : Becomes(c, n) /\ n.at \in {"idle", "sign"}
<1>1. CASE CreateVerified(c) \/ StartUpserts(c) \/ Discard(c) \/ CountMiss(c)
  BY <1>1 DEF CreateVerified, StartUpserts, Discard, CountMiss, IssueCode, Ends, Goes, Idle
<1>2. CASE Promote(c)
  BY <1>2 DEF Promote, Goes
<1>3. CASE Resend(c) \/ SignAccessToken(c) \/ Fails(c)
  BY <1>3 DEF Resend, SignAccessToken, Fails, IssueCode, ReadsOnly, Ends, Goes, Idle
<1>4. QED
  BY <1>1, <1>2, <1>3 DEF Continue

LEMMA LinksAreOrdered == Spec => []LinkInv
<1> USE AccountsAssumption
<1>1. Init => LinkInv
  BY DEF Init, LinkInv, LinkNumbers, LinkInHand, UsedLinkIsBurnt, NewestLinkWins, Idle
<1>2. Rows /\ Handlers /\ Rows' /\ LinkInv /\ [Next]_vars => LinkInv'
  <2> SUFFICES ASSUME Rows, Handlers, Rows', LinkInv, [Next]_vars PROVE LinkInv'
    OBVIOUS
  <2>s. secrets \in Nat /\ secrets' \in Nat /\ tokens \subseteq TokenR
    BY DEF Rows
  <2>h. ASSUME NEW c \in Callers, NEW n, Becomes(c, n), LinkInHand(n, tokens', secrets'), secrets <= secrets',
               \A t \in tokens' : Descends(t)
        PROVE  \A d \in Callers : LinkInHand(call'[d], tokens', secrets')
    <3>1. \A d \in Callers : InHand(call[d]) /\ LinkInHand(call[d], tokens, secrets)
      BY DEF Handlers, LinkInv
    <3>2. ASSUME NEW d \in Callers \ {c} PROVE LinkInHand(call'[d], tokens', secrets')
      <4> DEFINE r == call[d]
      <4>1. call'[d] = r
        BY <2>h, Moves
      <4>2. InHand(r) /\ LinkInHand(r, tokens, secrets)
        BY <3>1
      <4> HIDE DEF r
      <4>3. LinkInHand(r, tokens', secrets')
        BY <2>s, <2>h, <4>2, HandsKept
      <4>4. QED
        BY <4>1, <4>3
    <3>3. LinkInHand(call'[c], tokens', secrets')
      BY <2>h, Moves
    <3>4. QED
      BY <3>2, <3>3
  <2>1. ASSUME NEW c \in Callers, Request(c) PROVE LinkInv'
    <3>1. UNCHANGED <<tokens, resets, secrets>>
      BY <2>1, RequestIs DEF ReadsOnly
    <3>2. PICK n : Becomes(c, n) /\ LinkInHand(n, tokens, secrets)
      BY <2>1, RequestTakesLinks
    <3>3. LinkInHand(n, tokens', secrets')
      BY <3>1, <3>2 DEF LinkInHand
    <3>4. QED
      BY <2>s, <3>1, <3>2, <3>3, <2>h, LinksKept DEF LinkInv
  <2>2. ASSUME NEW c \in Callers, Continue(c) PROVE LinkInv'
    <3> DEFINE r == call[c]
    <3>0. InHand(r) /\ LinkInHand(r, tokens, secrets)
      BY DEF Handlers, LinkInv
    <3>i. LinkInHand(Idle, tokens', secrets')
      BY DEF LinkInHand, Idle
    <3>1. CASE ~Issue(c) /\ ~Burn(c) /\ ~SetPassword(c) /\ ~DeleteAccount(c)
      <4>1. PICK n : Becomes(c, n) /\ n.at \in {"idle", "sign"}
        BY <2>2, <3>1, OthersLeaveLinks
      <4>2. LinkInHand(n, tokens', secrets')
        BY <4>1 DEF LinkInHand
      <4>3. UNCHANGED <<tokens, resets>> /\ secrets <= secrets'
        BY <2>s, <2>2, <3>1, OthersLeaveLinks
      <4>4. QED
        BY <2>s, <4>1, <4>2, <4>3, <2>h, LinksKept DEF LinkInv
    <3>2. CASE Issue(c)
      <4> DEFINE new == [id |-> secrets + 1, user |-> r.user, expires |-> now + ResetTTL,
                         consumed |-> FALSE, saw |-> r.saw]
                 kept(t) == [t EXCEPT !.consumed = @ \/ t.id \in r.live]
      <4>1. /\ r.at = "issue" /\ secrets' = secrets + 1 /\ resets' = resets
            /\ tokens' = {kept(t) : t \in tokens} \cup {new}
            /\ Becomes(c, Idle)
        BY <3>2 DEF Issue, IssueWith, At, Ends, Goes
      <4>2. \A t \in tokens : /\ kept(t).id = t.id /\ kept(t).user = t.user
                              /\ kept(t).saw = t.saw /\ kept(t).id \in Nat
                              /\ kept(t).consumed <=> t.consumed \/ t.id \in r.live
        BY <2>s DEF TokenR
      <4>3. /\ new.id = secrets + 1 /\ new.user = r.user /\ new.saw = r.saw
            /\ ~new.consumed
        OBVIOUS
      <4> HIDE DEF new, kept
      <4>4. \A t \in tokens' : Descends(t)
        BY <4>1, <4>2, <4>3 DEF Descends
      <4>5. \A d \in Callers : LinkInHand(call'[d], tokens', secrets')
        <5>1. Becomes(c, Idle) /\ secrets <= secrets'
          BY <2>s, <4>1
        <5>2. QED
          BY <5>1, <4>4, <3>i, <2>h
      <4>6. r.saw \in SUBSET Nat /\ \A i \in r.saw : i <= secrets
        BY <3>0, <4>1 DEF InHand, LinkInHand
      <4>7. LinkNumbers'
        <5>1. \A t \in tokens' : t.id <= secrets' /\ \A i \in t.saw : i <= secrets'
          BY <2>s, <4>1, <4>2, <4>3, <4>6 DEF LinkInv, LinkNumbers, TokenR
        <5>2. \A t1, t2 \in tokens' : t1.id = t2.id => t1 = t2
          BY <2>s, <4>1, <4>2, <4>3 DEF LinkInv, LinkNumbers
        <5>3. \A a \in resets' : a.link \in Nat /\ a.link <= secrets'
          BY <2>s, <4>1 DEF LinkInv, LinkNumbers
        <5>4. QED
          BY <5>1, <5>2, <5>3 DEF LinkNumbers
      <4>8. UsedLinkIsBurnt'
        BY <2>s, <4>1, <4>2, <4>3 DEF LinkInv, LinkNumbers, UsedLinkIsBurnt
      <4>9. NewestLinkWins'
        <5> SUFFICES ASSUME NEW t1 \in tokens', NEW t2 \in tokens', t1.user = t2.user,
                            ~t1.consumed, ~t2.consumed
                     PROVE  t1.id \notin t2.saw
          BY DEF NewestLinkWins
        <5>1. CASE t1 = new /\ t2 = new
          BY <2>s, <4>3, <4>6, <5>1
        <5>2. ASSUME NEW o \in tokens, t1 = kept(o), t2 = new PROVE t1.id \notin t2.saw
          BY <3>0, <4>1, <4>2, <4>3, <5>2 DEF LinkInHand
        <5>3. ASSUME NEW o \in tokens, t1 = new, t2 = kept(o) PROVE t1.id \notin t2.saw
          <6>1. o.saw \subseteq Nat /\ \A i \in o.saw : i <= secrets
            BY <2>s DEF TokenR, LinkInv, LinkNumbers
          <6>2. QED
            BY <2>s, <4>2, <4>3, <5>3, <6>1
        <5>4. ASSUME NEW o1 \in tokens, NEW o2 \in tokens, t1 = kept(o1), t2 = kept(o2)
              PROVE  t1.id \notin t2.saw
          BY <4>2, <5>4 DEF LinkInv, NewestLinkWins
        <5>5. QED
          BY <4>1, <5>1, <5>2, <5>3, <5>4
      <4>10. QED
        BY <4>5, <4>7, <4>8, <4>9 DEF LinkInv
    <3>3. CASE Burn(c)
      <4> DEFINE kept(t) == [t EXCEPT !.consumed = @ \/ t.id = r.link]
                 n == [at |-> "setPassword", user |-> r.user, link |-> r.link,
                       password |-> r.password, no |-> r.no]
      <4>1. /\ r.at = "burn" /\ secrets' = secrets /\ resets' = resets
            /\ tokens' = {kept(t) : t \in tokens}
            /\ Becomes(c, n)
        BY <3>3 DEF Burn, At, Goes
      <4>2. \A t \in tokens : /\ kept(t).id = t.id /\ kept(t).user = t.user
                              /\ kept(t).saw = t.saw
                              /\ kept(t).consumed <=> t.consumed \/ t.id = r.link
        BY <2>s DEF TokenR
      <4>3. n.at = "setPassword" /\ n.link = r.link
        OBVIOUS
      <4> HIDE DEF kept, n
      <4>4. \A t \in tokens' : Descends(t)
        BY <4>1, <4>2 DEF Descends
      <4>5. LinkInHand(n, tokens', secrets')
        BY <3>0, <4>1, <4>2, <4>3 DEF LinkInHand
      <4>6. \A d \in Callers : LinkInHand(call'[d], tokens', secrets')
        BY <2>s, <4>1, <4>4, <4>5, <2>h
      <4>7. LinkNumbers'
        BY <4>1, <4>2 DEF LinkInv, LinkNumbers
      <4>8. UsedLinkIsBurnt' /\ NewestLinkWins'
        BY <4>1, <4>2 DEF LinkInv, UsedLinkIsBurnt, NewestLinkWins
      <4>9. QED
        BY <4>6, <4>7, <4>8 DEF LinkInv
    <3>4. CASE SetPassword(c)
      <4>1. /\ r.at = "setPassword" /\ secrets' = secrets /\ tokens' = tokens
            /\ resets' = resets \cup Reset(r)
            /\ Becomes(c, Idle)
        BY <3>4 DEF SetPassword, At, Ends, Goes
      <4>2. r.link \in Nat /\ r.link <= secrets
            /\ (r.link # 0 => \A t \in tokens : t.id = r.link => t.consumed)
        BY <3>0, <4>1 DEF InHand, LinkInHand
      <4>3. \A t \in tokens' : Descends(t)
        BY <4>1 DEF Descends
      <4>4. \A d \in Callers : LinkInHand(call'[d], tokens', secrets')
        BY <2>s, <4>1, <4>3, <3>i, <2>h
      <4>5. \A a \in resets' : a \in resets \/ (a.link = r.link /\ r.link # 0)
        BY <4>1 DEF Reset
      <4>6. LinkNumbers' /\ UsedLinkIsBurnt' /\ NewestLinkWins'
        BY <4>1, <4>2, <4>5 DEF LinkInv, LinkNumbers, UsedLinkIsBurnt, NewestLinkWins
      <4>7. QED
        BY <4>4, <4>6 DEF LinkInv
    <3>5. CASE DeleteAccount(c)
      <4>1. /\ secrets' = secrets /\ tokens' \subseteq tokens /\ resets' = resets
            /\ Becomes(c, Idle)
        BY <3>5 DEF DeleteAccount, Ends, Goes
      <4>2. \A t \in tokens' : Descends(t)
        BY <4>1 DEF Descends
      <4>3. \A d \in Callers : LinkInHand(call'[d], tokens', secrets')
        BY <2>s, <4>1, <4>2, <3>i, <2>h
      <4>4. LinkNumbers' /\ UsedLinkIsBurnt' /\ NewestLinkWins'
        BY <4>1 DEF LinkInv, LinkNumbers, UsedLinkIsBurnt, NewestLinkWins
      <4>5. QED
        BY <4>3, <4>4 DEF LinkInv
    <3>6. QED
      BY <3>1, <3>2, <3>3, <3>4, <3>5
  <2>3. CASE Tick \/ UNCHANGED vars
    <3>1. UNCHANGED <<tokens, resets, secrets, call>>
      BY <2>3 DEF Tick, vars
    <3>2. QED
      BY <3>1 DEF LinkInv, LinkNumbers, LinkInHand, UsedLinkIsBurnt, NewestLinkWins
  <2>4. QED
    BY <2>1, <2>2, <2>3 DEF Next
<1>3. QED
  BY <1>1, <1>2, Types, PTL DEF Spec

\* A handler that resets a password read its link before the link was burnt, so
\* before anyone set a password with it: its number is at most that of the last
\* request made by then.
ResetInHand(r, U, n) ==
    r.at \in {"burn", "setPassword"} /\ r.link # 0 =>
       /\ r.no \in Nat /\ r.no <= n
       /\ \A a \in U : a.link = r.link => r.no <= a.by

ResetInv ==
    /\ asked \in Nat
    /\ \A a \in resets : a.no \in Nat /\ a.by \in Nat /\ a.no <= asked /\ a.by <= asked
    /\ \A c \in Callers : ResetInHand(call[c], resets, asked)
    /\ OnlyOverlappingResetsShare

\* A request is counted, and one that resets a password has a link nobody used.
LEMMA RequestIsCounted ==
    ASSUME Rows, LinkInv, ResetInv, NEW c \in Callers, Request(c)
    PROVE  asked' = asked + 1 /\ \E n : Becomes(c, n) /\ ResetInHand(n, resets, asked + 1)
<1> USE DEF Begins, ResetInHand, ResetInv
<1>1. ASSUME NEW t \in tokens, NEW p \in Passwords, ResetReads(c, t, p)
      PROVE  asked' = asked + 1 /\ \E n : Becomes(c, n) /\ ResetInHand(n, resets, asked + 1)
  <2>1. \A a \in resets : a.link # t.id
    BY <1>1 DEF ResetReads, LinkInv, UsedLinkIsBurnt
  <2>2. QED
    BY <1>1, <2>1 DEF ResetReads
<1>2. ASSUME NEW e \in Emails, NEW u \in Usernames, NEW p \in Passwords, Register(c, e, u, p)
      PROVE  asked' = asked + 1 /\ \E n : Becomes(c, n) /\ ResetInHand(n, resets, asked + 1)
  BY <1>2 DEF Register
<1>3. ASSUME NEW e \in Emails, NEW code, CompleteReads(c, e, code)
      PROVE  asked' = asked + 1 /\ \E n : Becomes(c, n) /\ ResetInHand(n, resets, asked + 1)
  BY <1>3 DEF CompleteReads, CompleteDecides
<1>4. ASSUME NEW e \in Emails, ResendReads(c, e)
      PROVE  asked' = asked + 1 /\ \E n : Becomes(c, n) /\ ResetInHand(n, resets, asked + 1)
  BY <1>4 DEF ResendReads
<1>5. ASSUME NEW u \in users, LoginReads(c, u) \/ ForgotPassword(c, u)
      PROVE  asked' = asked + 1 /\ \E n : Becomes(c, n) /\ ResetInHand(n, resets, asked + 1)
  BY <1>5 DEF LoginReads, ForgotPassword
<1>6. ASSUME NEW s \in sessions, NEW p \in Passwords, ChangeReads(c, s, p)
      PROVE  asked' = asked + 1 /\ \E n : Becomes(c, n) /\ ResetInHand(n, resets, asked + 1)
  BY <1>6 DEF ChangeReads
<1>7. ASSUME NEW s \in sessions, DeleteReads(c, s)
      PROVE  asked' = asked + 1 /\ \E n : Becomes(c, n) /\ ResetInHand(n, resets, asked + 1)
  BY <1>7 DEF DeleteReads
<1>8. QED
  BY <1>1, <1>2, <1>3, <1>4, <1>5, <1>6, <1>7 DEF Request

\* Going on with a handler is no new request.
LEMMA GoingOnIsNotCounted ==
    ASSUME Rows, Handlers, NEW c \in Callers, Continue(c)
    PROVE  asked' = asked
<1>1. CASE CreateVerified(c) \/ StartUpserts(c) \/ Discard(c) \/ CountMiss(c)
  BY <1>1 DEF CreateVerified, StartUpserts, Discard, CountMiss, Ends, Goes
<1>2. CASE Promote(c) \/ Resend(c) \/ SignAccessToken(c) \/ Issue(c)
  BY <1>2 DEF Promote, Resend, SignAccessToken, Issue, IssueWith, Ends, Goes
<1>3. CASE Burn(c) \/ SetPassword(c) \/ DeleteAccount(c) \/ Fails(c)
  BY <1>3 DEF Burn, SetPassword, DeleteAccount, Fails, Ends, Goes
<1>4. QED
  BY <1>1, <1>2, <1>3 DEF Continue

\* Of the links mailed to a person the newest works, and one that set a password
\* sets another only for a request made before it did: one link sets one password,
\* unless requests with it overlap.
THEOREM NoLinkWorksAfterItsUse == Spec => []LinksEndWithUse
<1> USE AccountsAssumption
<1>1. Init => ResetInv
  BY DEF Init, ResetInv, ResetInHand, OnlyOverlappingResetsShare, Idle
<1>2. Rows /\ Handlers /\ LinkInv /\ ResetInv /\ [Next]_vars => ResetInv'
  <2> SUFFICES ASSUME Rows, Handlers, LinkInv, ResetInv, [Next]_vars PROVE ResetInv'
    OBVIOUS
  <2>h. ASSUME NEW c \in Callers, NEW n, Becomes(c, n), asked' \in {asked, asked + 1},
               resets' = resets, ResetInHand(n, resets, asked')
        PROVE  ResetInv'
    <3>1. ASSUME NEW d \in Callers PROVE ResetInHand(call'[d], resets', asked')
      <4>1. CASE d = c
        BY <2>h, <4>1, Moves
      <4>2. CASE d # c
        <5>1. call'[d] = call[d] /\ ResetInHand(call[d], resets, asked) /\ asked \in Nat
          BY <2>h, <4>2, Moves DEF ResetInv
        <5>2. QED
          BY <2>h, <5>1 DEF ResetInHand
      <4>3. QED
        BY <4>1, <4>2
    <3>2. QED
      BY <2>h, <3>1 DEF ResetInv, OnlyOverlappingResetsShare
  <2>1. ASSUME NEW c \in Callers, Request(c) PROVE ResetInv'
    BY <2>1, <2>h, RequestIs, RequestIsCounted DEF ReadsOnly
  <2>2. ASSUME NEW c \in Callers, Continue(c) PROVE ResetInv'
    <3> DEFINE r == call[c]
    <3>0. asked' = asked /\ asked \in Nat /\ ResetInHand(r, resets, asked)
      BY <2>2, GoingOnIsNotCounted DEF ResetInv
    <3>1. CASE ~Issue(c) /\ ~Burn(c) /\ ~SetPassword(c) /\ ~DeleteAccount(c)
      <4>1. PICK n : Becomes(c, n) /\ n.at \in {"idle", "sign"}
        BY <2>2, <3>1, OthersLeaveLinks
      <4>2. ResetInHand(n, resets, asked') /\ resets' = resets
        BY <2>2, <3>1, <4>1, OthersLeaveLinks DEF ResetInHand
      <4>3. QED
        BY <3>0, <4>1, <4>2, <2>h
    <3>2. CASE Issue(c) \/ DeleteAccount(c)
      <4>1. Becomes(c, Idle) /\ resets' = resets
        BY <3>2 DEF Issue, IssueWith, DeleteAccount, Ends, Goes
      <4>2. ResetInHand(Idle, resets, asked')
        BY DEF ResetInHand, Idle
      <4>3. QED
        BY <3>0, <4>1, <4>2, <2>h
    <3>3. CASE Burn(c)
      <4> DEFINE n == [at |-> "setPassword", user |-> r.user, link |-> r.link,
                       password |-> r.password, no |-> r.no]
      <4>1. r.at = "burn" /\ Becomes(c, n) /\ resets' = resets
        BY <3>3 DEF Burn, At, Goes
      <4>2. ResetInHand(n, resets, asked')
        BY <3>0, <4>1 DEF ResetInHand
      <4>3. QED
        BY <3>0, <4>1, <4>2, <2>h
    <3>4. CASE SetPassword(c)
      <4>1. /\ r.at = "setPassword" /\ Becomes(c, Idle)
            /\ resets' = resets \cup Reset(r)
        BY <3>4 DEF SetPassword, At, Ends, Goes
      <4>2. CASE r.link = 0
        <5>1. resets' = resets /\ ResetInHand(Idle, resets, asked')
          BY <4>1, <4>2 DEF Reset, ResetInHand, Idle
        <5>2. QED
          BY <3>0, <4>1, <5>1, <2>h
      <4>3. CASE r.link # 0
        <5> DEFINE new == [link |-> r.link, no |-> r.no, by |-> asked]
        <5>1. /\ resets' = resets \cup {new}
              /\ new.link = r.link /\ new.no = r.no /\ new.by = asked
          BY <4>1, <4>3 DEF Reset
        <5>2. /\ r.no \in Nat /\ r.no <= asked
              /\ \A a \in resets : a.link = r.link => r.no <= a.by
          BY <3>0, <4>1, <4>3 DEF ResetInHand
        <5> HIDE DEF new
        <5>3. ASSUME NEW d \in Callers PROVE ResetInHand(call'[d], resets', asked')
          <6>1. CASE d = c
            BY <4>1, <6>1, Moves DEF ResetInHand, Idle
          <6>2. CASE d # c
            <7>1. call'[d] = call[d] /\ ResetInHand(call[d], resets, asked)
              BY <4>1, <6>2, Moves DEF ResetInv
            <7>2. QED
              BY <3>0, <5>1, <7>1 DEF ResetInHand
          <6>3. QED
            BY <6>1, <6>2
        <5>4. \A a \in resets' : /\ a.no \in Nat /\ a.by \in Nat
                                 /\ a.no <= asked /\ a.by <= asked
          BY <3>0, <5>1, <5>2 DEF ResetInv
        <5>5. OnlyOverlappingResetsShare'
          BY <3>0, <5>1, <5>2, <5>4 DEF ResetInv, OnlyOverlappingResetsShare
        <5>6. QED
          BY <3>0, <5>3, <5>4, <5>5 DEF ResetInv
      <4>4. QED
        BY <4>2, <4>3
    <3>5. QED
      BY <3>1, <3>2, <3>3, <3>4
  <2>3. CASE Tick \/ UNCHANGED vars
    BY <2>3 DEF Tick, vars, ResetInv, ResetInHand, OnlyOverlappingResetsShare
  <2>4. QED
    BY <2>1, <2>2, <2>3 DEF Next
<1>3. LinkInv /\ ResetInv => LinksEndWithUse
  BY DEF LinkInv, ResetInv, LinksEndWithUse
<1>4. QED
  BY <1>1, <1>2, <1>3, Types, LinksAreOrdered, PTL DEF Spec

-----------------------------------------------------------------------------
(* Sessions.  A handler that signs in holds the password it compared and    *)
(* when; the password may be changed before it signs.  Then the change was  *)
(* made after the reading, and that is what the property allows.  The       *)
(* numbers of accounts are never used twice, so nothing that was proved for *)
(* one account holds for a later one.                                       *)

Holds(s, U, n, time) ==
    /\ s.user <= n
    /\ s.readAt <= time
    /\ \A u \in U : u.id = s.user =>
          s.proved = u.password \/ (u.changedAt # Never /\ s.readAt <= u.changedAt)

AccountNumbers ==
    /\ \A b \in born : b.id \in Nat /\ b.id <= Cardinality(born)
    /\ \A u \in users : u.id <= Cardinality(born)
    /\ \A u1, u2 \in users : u1.id = u2.id => u1 = u2

SessionInv ==
    /\ AccountNumbers
    /\ \A s \in sessions : Holds(s, users, Cardinality(born), now)
    /\ \A c \in Callers : call[c].at = "sign" => Holds(call[c], users, Cardinality(born), now)

\* What happens to the accounts in a step: each is one of before, its password
\* changed now if at all, or a new one with the next number.
Continues(u) ==
    \/ u.id = Cardinality(born) + 1
    \/ \E o \in users : /\ u.id = o.id
                        /\ \/ u.password = o.password /\ u.changedAt = o.changedAt
                           \/ u.changedAt = now

LEMMA BornCount == Rows => Cardinality(born) \in Nat
BY FS_CardinalityType DEF Rows

LEMMA HoldsOn ==
    ASSUME Rows, Rows', Cardinality(born) <= Cardinality(born'), now <= now',
           \A u \in users' : Continues(u),
           NEW s, s.user \in Nat, s.readAt \in Nat, Holds(s, users, Cardinality(born), now)
    PROVE  Holds(s, users', Cardinality(born'), now')
<1>1. Cardinality(born) \in Nat /\ Cardinality(born') \in Nat
  BY BornCount, FS_CardinalityType DEF Rows
<1>2. now \in Nat /\ now >= 1 /\ now' \in Nat
  BY DEF Rows
<1>3. ASSUME NEW u \in users', u.id = s.user
      PROVE  s.proved = u.password \/ (u.changedAt # Never /\ s.readAt <= u.changedAt)
  <2>1. PICK o \in users : /\ u.id = o.id
                           /\ \/ u.password = o.password /\ u.changedAt = o.changedAt
                              \/ u.changedAt = now
    BY <1>1, <1>3 DEF Continues, Holds
  <2>2. QED
    BY <1>2, <1>3, <2>1 DEF Holds, Never
<1>4. QED
  BY <1>1, <1>2, <1>3 DEF Holds

\* A step that leaves the accounts alone.
LEMMA AccountsKept ==
    ASSUME Rows, UNCHANGED <<users, born>>, AccountNumbers
    PROVE  /\ AccountNumbers' /\ \A u \in users' : Continues(u)
           /\ Cardinality(born) <= Cardinality(born')
BY BornCount DEF AccountNumbers, Continues

\* An account that is made.
LEMMA AccountMade ==
    ASSUME Rows, Rows', AccountNumbers, NEW e, NEW n, NEW p, NEW code,
           CreateUser(e, n, p, code)
    PROVE  /\ AccountNumbers' /\ \A u \in users' : Continues(u)
           /\ Cardinality(born') = Cardinality(born) + 1
           /\ \A u \in users' : u.id = Cardinality(born) + 1 => u.password = p
<1> DEFINE N == Cardinality(born)
           u0 == [id |-> N + 1, email |-> e, username |-> n, password |-> p,
                  changedAt |-> 0, code |-> code]
           b0 == [id |-> N + 1, code |-> code]
<1>1. N \in Nat /\ users' = users \cup {u0} /\ born' = born \cup {b0}
  BY Created
<1>2. u0.id = N + 1 /\ u0.password = p /\ b0.id = N + 1
  OBVIOUS
<1> HIDE DEF u0, b0
<1>3. b0 \notin born
  BY <1>1, <1>2 DEF AccountNumbers
<1>4. Cardinality(born') = N + 1
  BY <1>1, <1>3, FS_AddElement DEF Rows
<1> HIDE DEF N
<1>5. \A u \in users : u.id \in Nat /\ u.id <= N
  BY DEF Rows, UserR, AccountNumbers, N
<1>6. AccountNumbers'
  <2>1. \A b \in born' : b.id \in Nat /\ b.id <= Cardinality(born')
    BY <1>1, <1>2, <1>4 DEF AccountNumbers, N
  <2>2. \A u \in users' : u.id <= Cardinality(born')
    BY <1>1, <1>2, <1>4, <1>5
  <2>3. \A u1, u2 \in users' : u1.id = u2.id => u1 = u2
    BY <1>1, <1>2, <1>5 DEF AccountNumbers
  <2>4. QED
    BY <2>1, <2>2, <2>3 DEF AccountNumbers
<1>7. \A u \in users' : Continues(u)
  BY <1>1, <1>2 DEF Continues, N
<1>8. \A u \in users' : u.id = N + 1 => u.password = p
  BY <1>1, <1>2, <1>5
<1>9. QED
  BY <1>4, <1>6, <1>7, <1>8 DEF N

\* Of the requests only a sign-in has a password in hand.
LEMMA RequestSigns ==
    ASSUME Rows, SessionInv, NEW c \in Callers, Request(c)
    PROVE  \E n : Becomes(c, n)
                  /\ (n.at = "sign" => Holds(n, users, Cardinality(born), now))
<1>1. ASSUME NEW e \in Emails, NEW u \in Usernames, NEW p \in Passwords, Register(c, e, u, p)
      PROVE  \E n : Becomes(c, n) /\ n.at # "sign"
  BY <1>1 DEF Register, Begins
<1>2. ASSUME NEW e \in Emails, NEW code, CompleteReads(c, e, code)
      PROVE  \E n : Becomes(c, n) /\ n.at # "sign"
  BY <1>2 DEF CompleteReads, CompleteDecides, Begins
<1>3. ASSUME NEW e \in Emails, ResendReads(c, e)
      PROVE  \E n : Becomes(c, n) /\ n.at # "sign"
  BY <1>3 DEF ResendReads, Begins
<1>4. ASSUME NEW u \in users, LoginReads(c, u)
      PROVE  \E n : Becomes(c, n) /\ Holds(n, users, Cardinality(born), now)
  <2> DEFINE n == [at |-> "sign", user |-> u.id, proved |-> u.password, readAt |-> now]
  <2>1. Holds(n, users, Cardinality(born), now)
    <3>1. n.user = u.id /\ n.proved = u.password /\ n.readAt = now
      OBVIOUS
    <3>2. now <= now
      BY DEF Rows
    <3> HIDE DEF n
    <3>3. QED
      BY <3>1, <3>2 DEF Holds, SessionInv, AccountNumbers
  <2>2. QED
    BY <1>4, <2>1 DEF LoginReads, Begins
<1>5. ASSUME NEW u \in users, ForgotPassword(c, u)
      PROVE  \E n : Becomes(c, n) /\ n.at # "sign"
  BY <1>5 DEF ForgotPassword, Begins
<1>6. ASSUME NEW t \in tokens, NEW p \in Passwords, ResetReads(c, t, p)
      PROVE  \E n : Becomes(c, n) /\ n.at # "sign"
  BY <1>6 DEF ResetReads, Begins
<1>7. ASSUME NEW s \in sessions, NEW p \in Passwords, ChangeReads(c, s, p)
      PROVE  \E n : Becomes(c, n) /\ n.at # "sign"
  BY <1>7 DEF ChangeReads, Begins
<1>8. ASSUME NEW s \in sessions, DeleteReads(c, s)
      PROVE  \E n : Becomes(c, n) /\ n.at # "sign"
  BY <1>8 DEF DeleteReads, Begins
<1>9. QED
  BY <1>1, <1>2, <1>3, <1>4, <1>5, <1>6, <1>7, <1>8 DEF Request

\* The other steps of handlers.
LEMMA OthersLeaveAccounts ==
    ASSUME Handlers, NEW c \in Callers, Continue(c), ~CreateVerified(c), ~Promote(c),
           ~SignAccessToken(c), ~SetPassword(c), ~DeleteAccount(c)
    PROVE  /\ UNCHANGED <<users, born, sessions, now>>
           /\ \E n : Becomes(c, n) /\ n.at # "sign"
<1>1. CASE StartUpserts(c) \/ Discard(c) \/ CountMiss(c) \/ Resend(c) \/ Fails(c)
  BY <1>1 DEF StartUpserts, Discard, CountMiss, Resend, Fails, ReadsOnly, Ends, Goes, Idle
<1>2. CASE Issue(c) \/ Burn(c)
  BY <1>2 DEF Issue, IssueWith, Burn, Ends, Goes, Idle
<1>3. QED
  BY <1>1, <1>2 DEF Continue

\* A session that is accepted proved the current password, or its sign-in had
\* read the old one before the change and was signed in that second or later.
THEOREM SessionsAreCurrent == Spec => []AcceptedSessionsAreCurrent
<1> USE AccountsAssumption
<1>1. Init => SessionInv
  <2> SUFFICES ASSUME Init PROVE SessionInv
    OBVIOUS
  <2>1. \A c \in Callers : call[c].at # "sign"
    BY DEF Init, Idle
  <2>2. users = {} /\ born = {} /\ sessions = {}
    BY DEF Init
  <2>3. QED
    BY <2>1, <2>2 DEF SessionInv, AccountNumbers
<1>2. Rows /\ Handlers /\ (Rows /\ Handlers)' /\ SessionInv /\ [Next]_vars => SessionInv'
  <2> SUFFICES ASSUME Rows, Handlers, Rows', Handlers', SessionInv, [Next]_vars
               PROVE  SessionInv'
    OBVIOUS
  <2>t. /\ \A s \in sessions : s.user \in Nat /\ s.readAt \in Nat
        /\ \A c \in Callers : call[c].at = "sign" =>
              call[c].user \in Nat /\ call[c].readAt \in Nat
    BY DEF Rows, SessionR, Handlers, InHand
  <2>n. now \in Nat /\ Cardinality(born) \in Nat
    BY BornCount DEF Rows
  <2>h. ASSUME NEW c \in Callers, NEW n, Becomes(c, n),
               n.at = "sign" => Holds(n, users', Cardinality(born'), now'),
               Cardinality(born) <= Cardinality(born'), now <= now',
               \A u \in users' : Continues(u)
        PROVE  \A d \in Callers :
                  call'[d].at = "sign" => Holds(call'[d], users', Cardinality(born'), now')
    <3>1. ASSUME NEW d \in Callers \ {c}, call[d].at = "sign"
          PROVE  Holds(call[d], users', Cardinality(born'), now')
      BY <3>1, <2>h, <2>t, HoldsOn DEF SessionInv
    <3>2. QED
      BY <2>h, <3>1, Moves
  <2>s. ASSUME Cardinality(born) <= Cardinality(born'), now <= now',
               \A u \in users' : Continues(u)
        PROVE  \A s \in sessions : Holds(s, users', Cardinality(born'), now')
    BY <2>s, <2>t, HoldsOn DEF SessionInv
  <2>1. ASSUME NEW c \in Callers, Request(c) PROVE SessionInv'
    <3>1. UNCHANGED <<users, born, sessions, now>>
      BY <2>1, RequestIs DEF ReadsOnly
    <3>2. PICK n : /\ Becomes(c, n)
                   /\ n.at = "sign" => Holds(n, users, Cardinality(born), now)
      BY <2>1, RequestSigns
    <3>3. AccountNumbers' /\ (\A u \in users' : Continues(u))
          /\ Cardinality(born) <= Cardinality(born')
      BY <3>1, AccountsKept DEF SessionInv
    <3>4. \A d \in Callers :
             call'[d].at = "sign" => Holds(call'[d], users', Cardinality(born'), now')
      BY <2>n, <3>1, <3>2, <3>3, <2>h
    <3>5. QED
      BY <2>n, <3>1, <3>3, <3>4, <2>s DEF SessionInv
  <2>2. ASSUME NEW c \in Callers, Continue(c) PROVE SessionInv'
    <3> DEFINE r == call[c]
    <3>0. InHand(r)
      BY DEF Handlers
    <3>i. Idle.at # "sign"
      BY DEF Idle
    <3>1. CASE CreateVerified(c)
      <4>1. /\ CreateUser(r.email, r.username, r.password, 0)
            /\ Becomes(c, Idle) /\ UNCHANGED <<sessions, now>>
        BY <3>1 DEF CreateVerified, Ends, Goes
      <4>2. /\ AccountNumbers' /\ (\A u \in users' : Continues(u))
            /\ Cardinality(born') = Cardinality(born) + 1
        BY <4>1, AccountMade DEF SessionInv
      <4>3. \A d \in Callers :
               call'[d].at = "sign" => Holds(call'[d], users', Cardinality(born'), now')
        BY <2>n, <3>i, <4>1, <4>2, <2>h
      <4>4. QED
        BY <2>n, <4>1, <4>2, <4>3, <2>s DEF SessionInv
    <3>2. CASE Promote(c)
      <4> DEFINE n == [at |-> "sign", user |-> Cardinality(born) + 1,
                       proved |-> r.row.password, readAt |-> now]
      <4>1. /\ CreateUser(r.email, r.row.username, r.row.password, r.row.code)
            /\ Becomes(c, n) /\ UNCHANGED <<sessions, now>>
        BY <3>2 DEF Promote, Goes
      <4>2. /\ AccountNumbers' /\ (\A u \in users' : Continues(u))
            /\ Cardinality(born') = Cardinality(born) + 1
            /\ \A u \in users' : u.id = Cardinality(born) + 1 => u.password = r.row.password
        BY <4>1, AccountMade DEF SessionInv
      <4>3. n.user = Cardinality(born) + 1 /\ n.proved = r.row.password /\ n.readAt = now
        OBVIOUS
      <4> HIDE DEF n
      <4>4. Holds(n, users', Cardinality(born'), now')
        BY <2>n, <4>1, <4>2, <4>3 DEF Holds
      <4>5. \A d \in Callers :
               call'[d].at = "sign" => Holds(call'[d], users', Cardinality(born'), now')
        BY <2>n, <4>1, <4>2, <4>4, <2>h
      <4>6. QED
        BY <2>n, <4>1, <4>2, <4>5, <2>s DEF SessionInv
    <3>3. CASE SignAccessToken(c)
      <4> DEFINE s0 == [user |-> r.user, iat |-> Second(now), proved |-> r.proved,
                        readAt |-> r.readAt]
      <4>1. /\ r.at = "sign" /\ sessions' = sessions \cup {s0}
            /\ Becomes(c, Idle) /\ UNCHANGED <<users, born, now>>
        BY <3>3 DEF SignAccessToken, At, Ends, Goes
      <4>2. s0.user = r.user /\ s0.proved = r.proved /\ s0.readAt = r.readAt
        OBVIOUS
      <4> HIDE DEF s0
      <4>3. AccountNumbers' /\ (\A u \in users' : Continues(u))
            /\ Cardinality(born) <= Cardinality(born')
        BY <4>1, AccountsKept DEF SessionInv
      <4>4. Holds(s0, users', Cardinality(born'), now')
        BY <4>1, <4>2 DEF SessionInv, Holds
      <4>5. \A d \in Callers :
               call'[d].at = "sign" => Holds(call'[d], users', Cardinality(born'), now')
        BY <2>n, <3>i, <4>1, <4>3, <2>h
      <4>6. \A s \in sessions' : Holds(s, users', Cardinality(born'), now')
        <5>1. \A s \in sessions : Holds(s, users', Cardinality(born'), now')
          BY <2>n, <4>1, <4>3, <2>s
        <5>2. QED
          BY <4>1, <4>4, <5>1
      <4>7. QED
        BY <4>3, <4>5, <4>6 DEF SessionInv
    <3>4. CASE SetPassword(c)
      <4> DEFINE set(u) == IF u.id = r.user
                           THEN [u EXCEPT !.password = r.password, !.changedAt = now]
                           ELSE u
      <4>1. /\ users' = {set(u) : u \in users} /\ UNCHANGED <<born, sessions, now>>
            /\ Becomes(c, Idle)
        BY <3>4 DEF SetPassword, Ends, Goes
      <4>2. \A u \in users : /\ set(u).id = u.id
                             /\ set(u) = u \/ set(u).changedAt = now
        BY DEF Rows, UserR
      <4> HIDE DEF set
      <4>3. \A u \in users' : Continues(u)
        BY <4>1, <4>2 DEF Continues
      <4>4. AccountNumbers'
        BY <4>1, <4>2 DEF SessionInv, AccountNumbers
      <4>5. \A d \in Callers :
               call'[d].at = "sign" => Holds(call'[d], users', Cardinality(born'), now')
        BY <2>n, <3>i, <4>1, <4>3, <2>h
      <4>6. \A s \in sessions' : Holds(s, users', Cardinality(born'), now')
        BY <2>n, <4>1, <4>3, <2>s
      <4>7. QED
        BY <4>4, <4>5, <4>6 DEF SessionInv
    <3>5. CASE DeleteAccount(c)
      <4>1. /\ users' \subseteq users /\ UNCHANGED <<born, sessions, now>>
            /\ Becomes(c, Idle)
        BY <3>5 DEF DeleteAccount, Ends, Goes
      <4>2. (\A u \in users' : Continues(u)) /\ AccountNumbers'
        BY <4>1 DEF Continues, SessionInv, AccountNumbers
      <4>3. \A d \in Callers :
               call'[d].at = "sign" => Holds(call'[d], users', Cardinality(born'), now')
        BY <2>n, <3>i, <4>1, <4>2, <2>h
      <4>4. QED
        BY <2>n, <4>1, <4>2, <4>3, <2>s DEF SessionInv
    <3>6. CASE /\ ~CreateVerified(c) /\ ~Promote(c) /\ ~SignAccessToken(c)
               /\ ~SetPassword(c) /\ ~DeleteAccount(c)
      <4>1. UNCHANGED <<users, born, sessions, now>>
        BY <2>2, <3>6, OthersLeaveAccounts
      <4>2. PICK n : Becomes(c, n) /\ n.at # "sign"
        BY <2>2, <3>6, OthersLeaveAccounts
      <4>3. AccountNumbers' /\ (\A u \in users' : Continues(u))
            /\ Cardinality(born) <= Cardinality(born')
        BY <4>1, AccountsKept DEF SessionInv
      <4>4. \A d \in Callers :
               call'[d].at = "sign" => Holds(call'[d], users', Cardinality(born'), now')
        BY <2>n, <4>1, <4>2, <4>3, <2>h
      <4>5. QED
        BY <2>n, <4>1, <4>3, <4>4, <2>s DEF SessionInv
    <3>7. QED
      BY <3>1, <3>2, <3>3, <3>4, <3>5, <3>6
  <2>3. CASE Tick \/ UNCHANGED vars
    <3>1. UNCHANGED <<users, born, sessions, call>> /\ now <= now'
      BY <2>n, <2>3 DEF Tick, vars
    <3>2. AccountNumbers' /\ (\A u \in users' : Continues(u))
          /\ Cardinality(born) <= Cardinality(born')
      BY <3>1, AccountsKept DEF SessionInv
    <3>3. \A c \in Callers :
             call'[c].at = "sign" => Holds(call'[c], users', Cardinality(born'), now')
      <4>1. ASSUME NEW c \in Callers, call[c].at = "sign"
            PROVE  Holds(call[c], users', Cardinality(born'), now')
        BY <4>1, <3>1, <3>2, <2>t, HoldsOn DEF SessionInv
      <4>2. QED
        BY <3>1, <4>1
    <3>4. QED
      BY <3>1, <3>2, <3>3, <2>s DEF SessionInv
  <2>4. QED
    BY <2>1, <2>2, <2>3 DEF Next
<1>3. Rows /\ SessionInv => AcceptedSessionsAreCurrent
  <2> SUFFICES ASSUME Rows, SessionInv, NEW s \in sessions, NEW u \in users,
                      s.user = u.id, Accepted(s)
               PROVE  \/ s.proved = u.password
                      \/ s.readAt <= u.changedAt /\ Second(u.changedAt) <= s.iat
    BY DEF AcceptedSessionsAreCurrent
  <2>1. u.changedAt # Never => s.iat >= Second(u.changedAt)
    BY DEF Accepted, SessionInv, AccountNumbers
  <2>2. s.iat \in Nat /\ u.changedAt \in Nat
    BY DEF Rows, SessionR, UserR
  <2>3. Second(u.changedAt) \in Nat
    BY <2>2 DEF Second, AccountsAssumption
  <2>4. QED
    BY <2>1, <2>2, <2>3 DEF SessionInv, Holds
<1>4. QED
  BY <1>1, <1>2, <1>3, Types, PTL DEF Spec

-----------------------------------------------------------------------------
(* Codes.  A pending row always carries the code of the sign-up it holds,   *)
(* no code is issued for two sign-ups, and only the address it was issued   *)
(* for is mailed it.  A handler that promotes read a row whose code somebody *)
(* typed, so it was mailed; that stays so when the row is replaced.         *)

Stand(e, row) == [code |-> row.code, email |-> e, username |-> row.username,
                  password |-> row.password]

CodeNumbers ==
    /\ \A s \in stands : s.code \in Nat /\ 1 <= s.code /\ s.code <= secrets
    /\ \A s1, s2 \in stands : s1.code = s2.code => s1 = s2
    /\ \A b \in born : b.code \in Nat /\ b.code <= secrets
    /\ \A m \in mailed : m.secret \in Nat /\ m.secret <= secrets
    /\ \A m \in mailed : m = [to |-> m.to, secret |-> m.secret]

MailedRight == \A m \in mailed, s \in stands : m.secret = s.code => m.to = s.email

PendingStands ==
    \A e \in Emails : pending[e] # NoRow => Stand(e, pending[e]) \in stands

PromotesMailed(r) ==
    r.at = "promote" =>
       /\ Stand(r.email, r.row) \in stands
       /\ [to |-> r.email, secret |-> r.row.code] \in mailed

CodeInv ==
    /\ CodeNumbers /\ MailedRight /\ PendingStands
    /\ \A c \in Callers : PromotesMailed(call[c])
    /\ AccountsAreProven
    /\ SpentCodeIsGone

\* Every mail that was sent and every code that was issued is remembered.
Remembers == mailed \subseteq mailed' /\ stands \subseteq stands'

LEMMA PromotesOn ==
    ASSUME Handlers, CodeInv, Remembers, NEW c \in Callers, NEW n, Becomes(c, n),
           n.at = "promote" => Stand(n.email, n.row) \in stands'
                               /\ [to |-> n.email, secret |-> n.row.code] \in mailed'
    PROVE  \A d \in Callers : PromotesMailed(call[d])'
BY Moves DEF CodeInv, PromotesMailed, Remembers

\* The accounts that are not touched stay proven.
LEMMA ProvenOn ==
    ASSUME AccountsAreProven, Remembers, users' \subseteq users
    PROVE  AccountsAreProven'
BY DEF AccountsAreProven, Remembers

\* A mail with a number nobody has seen says nothing about codes.
LEMMA MailedOn ==
    ASSUME Rows, CodeNumbers, MailedRight, NEW to, Mail(to, secrets + 1),
           secrets' = secrets + 1, UNCHANGED stands
    PROVE  /\ MailedRight' /\ Remembers
           /\ \A m \in mailed' : /\ m.secret \in Nat /\ m.secret <= secrets'
                                /\ m = [to |-> m.to, secret |-> m.secret]
<1>1. secrets \in Nat
  BY DEF Rows
<1>2. \A m \in mailed' : \/ m \in mailed
                         \/ m.secret = secrets + 1 /\ m = [to |-> m.to, secret |-> m.secret]
  BY DEF Mail
<1>3. \A s \in stands : s.code # secrets + 1
  BY <1>1 DEF CodeNumbers
<1>4. MailedRight'
  BY <1>2, <1>3 DEF MailedRight
<1>5. QED
  BY <1>1, <1>2, <1>4 DEF CodeNumbers, Remembers, Mail

\* A code is issued for the pending row that is written with it.
LEMMA CodeIssued ==
    ASSUME Rows, CodeInv, NEW e \in Emails, NEW u \in Usernames, NEW p \in Passwords,
           IssueCode(e, u, p), UNCHANGED born
    PROVE  /\ Remembers
           /\ CodeNumbers' /\ MailedRight' /\ PendingStands' /\ SpentCodeIsGone'
<1> USE DEF CodeInv
<1> DEFINE s0 == [code |-> secrets + 1, email |-> e, username |-> u, password |-> p]
           row == [username |-> u, password |-> p, code |-> secrets + 1,
                   attempts |-> 0, expires |-> now + SignupTTL]
<1>1. /\ secrets \in Nat /\ secrets' = secrets + 1
      /\ pending' = [pending EXCEPT ![e] = row]
      /\ stands' = stands \cup {s0}
      /\ Mail(e, secrets + 1)
  BY DEF IssueCode, Rows
<1>2. s0.code = secrets + 1 /\ s0.email = e /\ row.code = secrets + 1 /\ Stand(e, row) = s0
  BY DEF Stand
<1>3. pending'[e] = row /\ \A d \in Emails \ {e} : pending'[d] = pending[d]
  BY <1>1 DEF Rows
<1> HIDE DEF s0, row
<1>4. \A m \in mailed' : \/ m \in mailed
                         \/ /\ m.secret = secrets + 1 /\ m.to = e
                            /\ m = [to |-> m.to, secret |-> m.secret]
  BY <1>1 DEF Mail
<1>5. Remembers
  BY <1>1 DEF Remembers, Mail
<1>6. CodeNumbers'
  <2>1. \A s \in stands' : s.code \in Nat /\ 1 <= s.code /\ s.code <= secrets'
    BY <1>1, <1>2 DEF CodeNumbers
  <2>2. \A s1, s2 \in stands' : s1.code = s2.code => s1 = s2
    BY <1>1, <1>2 DEF CodeNumbers
  <2>3. \A b \in born' : b.code \in Nat /\ b.code <= secrets'
    BY <1>1 DEF CodeNumbers
  <2>4. \A m \in mailed' : /\ m.secret \in Nat /\ m.secret <= secrets'
                           /\ m = [to |-> m.to, secret |-> m.secret]
    BY <1>1, <1>4 DEF CodeNumbers
  <2>5. QED
    BY <2>1, <2>2, <2>3, <2>4 DEF CodeNumbers
<1>7. MailedRight'
  <2>1. \A s \in stands : s.code # secrets + 1
    BY <1>1 DEF CodeNumbers
  <2>2. \A m \in mailed : m.secret # secrets + 1
    BY <1>1 DEF CodeNumbers
  <2>3. QED
    BY <1>1, <1>2, <1>4, <2>1, <2>2 DEF MailedRight
<1>8. PendingStands'
  BY <1>1, <1>2, <1>3 DEF PendingStands
<1>9. SpentCodeIsGone'
  <2>1. \A b \in born : b.code # secrets + 1
    BY <1>1 DEF CodeNumbers
  <2>2. QED
    BY <1>2, <1>3, <2>1 DEF SpentCodeIsGone
<1>10. QED
  BY <1>5, <1>6, <1>7, <1>8, <1>9

\* Of the requests only a verification takes a row in hand, with its code.
LEMMA RequestPromotes ==
    ASSUME Rows, CodeInv, NEW c \in Callers, Request(c)
    PROVE  \E n : Becomes(c, n) /\ PromotesMailed(n)
<1>1. ASSUME NEW e \in Emails, NEW u \in Usernames, NEW p \in Passwords, Register(c, e, u, p)
      PROVE  \E n : Becomes(c, n) /\ PromotesMailed(n)
  BY <1>1 DEF Register, Begins, PromotesMailed
<1>2. ASSUME NEW e \in Emails, NEW code \in Typed, CompleteReads(c, e, code)
      PROVE  \E n : Becomes(c, n) /\ PromotesMailed(n)
  <2> DEFINE row == pending[e]
             n == [at |-> "promote", email |-> e, row |-> row]
  <2>1. Stand(e, row) \in stands
    BY <1>2 DEF CompleteReads, CompleteDecides, CodeInv, PendingStands
  <2>2. CASE row.code = code /\ Becomes(c, n)
    <3>1. Stand(e, row).code = row.code /\ Stand(e, row).email = e
      BY DEF Stand
    <3>2. row.code \in Nat /\ 1 <= row.code
      BY <2>1, <3>1 DEF CodeInv, CodeNumbers
    <3>3. PICK m \in mailed : m.secret = row.code
      BY <2>2, <3>2 DEF Typed
    <3>4. m.to = e
      BY <2>1, <3>1, <3>3 DEF CodeInv, MailedRight
    <3>5. m = [to |-> e, secret |-> row.code]
      BY <3>3, <3>4 DEF CodeInv, CodeNumbers
    <3>6. PromotesMailed(n)
      BY <2>1, <3>3, <3>5 DEF PromotesMailed
    <3>7. QED
      BY <2>2, <3>6
  <2>3. CASE ~(row.code = code /\ Becomes(c, n))
    BY <1>2, <2>3 DEF CompleteReads, CompleteDecides, Begins, PromotesMailed
  <2>4. QED
    BY <2>2, <2>3
<1>3. ASSUME NEW e \in Emails, ResendReads(c, e)
      PROVE  \E n : Becomes(c, n) /\ PromotesMailed(n)
  BY <1>3 DEF ResendReads, Begins, PromotesMailed
<1>4. ASSUME NEW u \in users, LoginReads(c, u) \/ ForgotPassword(c, u)
      PROVE  \E n : Becomes(c, n) /\ PromotesMailed(n)
  BY <1>4 DEF LoginReads, ForgotPassword, Begins, PromotesMailed
<1>5. ASSUME NEW t \in tokens, NEW p \in Passwords, ResetReads(c, t, p)
      PROVE  \E n : Becomes(c, n) /\ PromotesMailed(n)
  BY <1>5 DEF ResetReads, Begins, PromotesMailed
<1>6. ASSUME NEW s \in sessions, NEW p \in Passwords, ChangeReads(c, s, p)
      PROVE  \E n : Becomes(c, n) /\ PromotesMailed(n)
  BY <1>6 DEF ChangeReads, Begins, PromotesMailed
<1>7. ASSUME NEW s \in sessions, DeleteReads(c, s)
      PROVE  \E n : Becomes(c, n) /\ PromotesMailed(n)
  BY <1>7 DEF DeleteReads, Begins, PromotesMailed
<1>8. QED
  BY <1>1, <1>2, <1>3, <1>4, <1>5, <1>6, <1>7 DEF Request

\* An account is made by a code that was mailed to its address and issued for
\* its name and password, and a code that made one opens no sign-up any more,
\* however sign-ups, resends, verifications and deletions overlap.
THEOREM CodesAreProofs == Spec => []CodesProveAddresses
<1> USE AccountsAssumption
<1>1. Init => CodeInv
  <2> SUFFICES ASSUME Init PROVE CodeInv
    OBVIOUS
  <2>1. \A c \in Callers : call[c].at # "promote"
    BY DEF Init, Idle
  <2>2. /\ users = {} /\ born = {} /\ stands = {} /\ mailed = {}
        /\ \A e \in Emails : pending[e] = NoRow
    BY DEF Init
  <2>3. QED
    BY <2>1, <2>2 DEF CodeInv, CodeNumbers, MailedRight, PendingStands, PromotesMailed,
                      AccountsAreProven, SpentCodeIsGone
<1>2. Rows /\ Handlers /\ Rows' /\ CodeInv /\ [Next]_vars => CodeInv'
  <2> SUFFICES ASSUME Rows, Handlers, Rows', CodeInv, [Next]_vars PROVE CodeInv'
    OBVIOUS
  <2>m. UNCHANGED <<stands, mailed>> => Remembers /\ MailedRight'
    BY DEF Remembers, MailedRight, CodeInv
  <2>p. UNCHANGED <<stands, pending>> => PendingStands'
    BY DEF PendingStands, CodeInv
  <2>n. UNCHANGED <<stands, born, mailed, secrets>> => CodeNumbers'
    BY DEF CodeNumbers, CodeInv
  <2>g. UNCHANGED <<pending, born>> => SpentCodeIsGone'
    BY DEF SpentCodeIsGone, CodeInv
  <2>i. Idle.at # "promote"
    BY DEF Idle
  <2>1. ASSUME NEW c \in Callers, Request(c) PROVE CodeInv'
    <3>1. UNCHANGED <<users, pending, born, stands, mailed, secrets>>
      BY <2>1, RequestIs DEF ReadsOnly
    <3>2. PICK n : Becomes(c, n) /\ PromotesMailed(n)
      BY <2>1, RequestPromotes
    <3>3. Remembers /\ MailedRight' /\ PendingStands' /\ CodeNumbers' /\ SpentCodeIsGone'
      BY <3>1, <2>m, <2>p, <2>n, <2>g
    <3>4. \A d \in Callers : PromotesMailed(call[d])'
      BY <3>1, <3>2, <3>3, PromotesOn DEF PromotesMailed
    <3>5. AccountsAreProven'
      BY <3>1, <3>3, ProvenOn DEF CodeInv
    <3>6. QED
      BY <3>3, <3>4, <3>5 DEF CodeInv
  <2>2. ASSUME NEW c \in Callers, Continue(c) PROVE CodeInv'
    <3> DEFINE r == call[c]
    <3>0. InHand(r) /\ PromotesMailed(r)
      BY DEF Handlers, CodeInv
    <3>e. Remembers /\ Becomes(c, Idle) => \A d \in Callers : PromotesMailed(call[d])'
      BY <2>i, PromotesOn
    <3>1. CASE CreateVerified(c)
      <4>1. /\ CreateUser(r.email, r.username, r.password, 0)
            /\ Becomes(c, Idle) /\ UNCHANGED <<pending, stands, mailed, secrets>>
        BY <3>1 DEF CreateVerified, Ends, Goes
      <4>2. /\ \A b \in born' : b \in born \/ b.code = 0
            /\ \A u \in users' : u \in users \/ u.code = 0
        BY <4>1, Created
      <4>3. Remembers /\ MailedRight' /\ PendingStands'
        BY <4>1, <2>m, <2>p
      <4>4. CodeNumbers'
        BY <4>1, <4>2 DEF CodeInv, CodeNumbers, Rows
      <4>5. SpentCodeIsGone'
        <5>1. ASSUME NEW e \in Emails, pending[e] # NoRow PROVE pending[e].code # 0
          <6>1. Stand(e, pending[e]) \in stands
            BY <5>1 DEF CodeInv, PendingStands
          <6>2. Stand(e, pending[e]).code = pending[e].code
            BY DEF Stand
          <6>3. QED
            BY <6>1, <6>2 DEF CodeInv, CodeNumbers
        <5>2. QED
          BY <4>1, <4>2, <5>1 DEF CodeInv, SpentCodeIsGone
      <4>6. AccountsAreProven'
        BY <4>2, <4>3 DEF CodeInv, AccountsAreProven, Remembers
      <4>7. QED
        BY <4>1, <4>3, <4>4, <4>5, <4>6, <3>e DEF CodeInv
    <3>2. CASE StartUpserts(c) \/ Resend(c)
      <4>1. PICK e \in Emails, u \in Usernames, p \in Passwords : IssueCode(e, u, p)
        <5>1. CASE StartUpserts(c)
          BY <3>0, <5>1 DEF StartUpserts, At, InHand
        <5>2. CASE Resend(c)
          <6>1. /\ r.email \in Emails /\ pending[r.email] \in SignupR
                /\ IssueCode(r.email, pending[r.email].username, pending[r.email].password)
            BY <3>0, <5>2 DEF Resend, At, InHand, Rows
          <6>2. QED
            BY <6>1 DEF SignupR
        <5>3. QED
          BY <3>2, <5>1, <5>2
      <4>2. Becomes(c, Idle) /\ UNCHANGED <<users, born>>
        BY <3>2 DEF StartUpserts, Resend, Ends, Goes
      <4>3. /\ Remembers
            /\ CodeNumbers' /\ MailedRight' /\ PendingStands' /\ SpentCodeIsGone'
        BY <4>1, <4>2, CodeIssued
      <4>4. AccountsAreProven'
        BY <4>2, <4>3, ProvenOn DEF CodeInv
      <4>5. QED
        BY <4>2, <4>3, <4>4, <3>e DEF CodeInv
    <3>3. CASE Discard(c)
      <4>1. /\ pending' = [pending EXCEPT ![r.email] = NoRow]
            /\ Becomes(c, Idle) /\ UNCHANGED <<users, born, stands, mailed, secrets>>
        BY <3>3 DEF Discard, Ends, Goes
      <4>2. \A e \in Emails : pending'[e] \in {pending[e], NoRow}
        BY <4>1 DEF Rows
      <4>3. PendingStands' /\ SpentCodeIsGone'
        BY <4>1, <4>2 DEF CodeInv, PendingStands, SpentCodeIsGone
      <4>4. Remembers /\ MailedRight' /\ CodeNumbers'
        BY <4>1, <2>m, <2>n
      <4>5. AccountsAreProven'
        BY <4>1, <4>4, ProvenOn DEF CodeInv
      <4>6. QED
        BY <4>1, <4>3, <4>4, <4>5, <3>e DEF CodeInv
    <3>4. CASE CountMiss(c)
      <4>1. /\ r.email \in Emails /\ pending[r.email] \in SignupR
            /\ pending' = [pending EXCEPT ![r.email].attempts = r.attempts]
            /\ Becomes(c, Idle) /\ UNCHANGED <<users, born, stands, mailed, secrets>>
            /\ pending[r.email] # NoRow
        BY <3>4, <3>0 DEF CountMiss, At, InHand, Ends, Goes, Rows
      <4>2. \A e \in Emails : \/ pending'[e] = pending[e]
                              \/ /\ pending[e] # NoRow
                                 /\ Stand(e, pending'[e]) = Stand(e, pending[e])
        BY <4>1 DEF Rows, Stand, SignupR
      <4>3. \A e \in Emails : pending'[e] # NoRow =>
               pending[e] # NoRow /\ Stand(e, pending'[e]) = Stand(e, pending[e])
        BY <4>2
      <4>4. PendingStands' /\ SpentCodeIsGone'
        BY <4>1, <4>3 DEF CodeInv, PendingStands, SpentCodeIsGone, Stand
      <4>5. Remembers /\ MailedRight' /\ CodeNumbers'
        BY <4>1, <2>m, <2>n
      <4>6. AccountsAreProven'
        BY <4>1, <4>5, ProvenOn DEF CodeInv
      <4>7. QED
        BY <4>1, <4>4, <4>5, <4>6, <3>e DEF CodeInv
    <3>5. CASE Promote(c)
      <4> DEFINE row == r.row
                 n == [at |-> "sign", user |-> Cardinality(born) + 1,
                       proved |-> row.password, readAt |-> now]
                 u0 == [id |-> Cardinality(born) + 1, email |-> r.email,
                        username |-> row.username, password |-> row.password,
                        changedAt |-> 0, code |-> row.code]
                 b0 == [id |-> Cardinality(born) + 1, code |-> row.code]
      <4>1. /\ r.at = "promote" /\ r.email \in Emails
            /\ CreateUser(r.email, row.username, row.password, row.code)
            /\ pending' = [pending EXCEPT ![r.email] = NoRow]
            /\ Becomes(c, n) /\ UNCHANGED <<stands, mailed, secrets>>
        BY <3>5, <3>0 DEF Promote, At, Goes, InHand
      <4>2. born' = born \cup {b0} /\ users' = users \cup {u0}
        BY <4>1, Created
      <4>3. /\ b0.code = row.code /\ n.at # "promote"
            /\ u0.code = row.code /\ u0.email = r.email /\ u0.username = row.username
            /\ u0.password = row.password
        OBVIOUS
      <4> HIDE DEF n, u0, b0
      <4>4. /\ Stand(r.email, row) \in stands
            /\ [to |-> r.email, secret |-> row.code] \in mailed
        BY <3>0, <4>1 DEF PromotesMailed
      <4>s. /\ Stand(r.email, row).code = row.code /\ Stand(r.email, row).email = r.email
            /\ Stand(r.email, row).username = row.username
            /\ Stand(r.email, row).password = row.password
        BY DEF Stand
      <4>5. Remembers /\ MailedRight'
        BY <4>1, <2>m
      <4>6. CodeNumbers'
        BY <4>1, <4>2, <4>3, <4>4, <4>s DEF CodeInv, CodeNumbers
      <4>7. /\ pending'[r.email] = NoRow
            /\ \A e \in Emails \ {r.email} : pending'[e] = pending[e]
        BY <4>1 DEF Rows
      <4>8. PendingStands'
        BY <4>1, <4>7 DEF CodeInv, PendingStands
      <4>9. SpentCodeIsGone'
        <5>1. ASSUME NEW e \in Emails \ {r.email}, pending[e] # NoRow
              PROVE  pending[e].code # row.code
          <6>1. Stand(e, pending[e]) \in stands
            BY <5>1 DEF CodeInv, PendingStands
          <6>2. Stand(e, pending[e]).code = pending[e].code /\ Stand(e, pending[e]).email = e
            BY DEF Stand
          <6>3. QED
            BY <4>4, <4>s, <5>1, <6>1, <6>2 DEF CodeInv, CodeNumbers
        <5>2. QED
          BY <4>2, <4>3, <4>7, <5>1 DEF CodeInv, SpentCodeIsGone
      <4>10. AccountsAreProven'
        <5>1. /\ [to |-> u0.email, secret |-> u0.code] \in mailed
              /\ \E s \in stands : /\ s.code = u0.code /\ s.email = u0.email
                                   /\ s.username = u0.username /\ s.password = u0.password
          BY <4>3, <4>4, <4>s
        <5>2. QED
          BY <4>1, <4>2, <5>1 DEF CodeInv, AccountsAreProven
      <4>11. \A d \in Callers : PromotesMailed(call[d])'
        BY <4>1, <4>3, <4>5, PromotesOn
      <4>12. QED
        BY <4>5, <4>6, <4>8, <4>9, <4>10, <4>11 DEF CodeInv
    <3>6. CASE Issue(c)
      <4>1. /\ secrets' = secrets + 1 /\ Mail(r.to, secrets + 1) /\ Becomes(c, Idle)
            /\ UNCHANGED <<users, pending, stands, born>>
        BY <3>6 DEF Issue, IssueWith, Ends, Goes
      <4>2. /\ MailedRight' /\ Remembers
            /\ \A m \in mailed' : /\ m.secret \in Nat /\ m.secret <= secrets'
                                 /\ m = [to |-> m.to, secret |-> m.secret]
        BY <4>1, MailedOn DEF CodeInv
      <4>3. CodeNumbers'
        BY <4>1, <4>2 DEF CodeInv, CodeNumbers, Rows
      <4>4. AccountsAreProven'
        BY <4>1, <4>2, ProvenOn DEF CodeInv
      <4>5. QED
        BY <4>1, <4>2, <4>3, <4>4, <2>p, <2>g, <3>e DEF CodeInv
    <3>7. CASE SetPassword(c)
      <4> DEFINE set(u) == IF u.id = r.user
                           THEN [u EXCEPT !.password = r.password, !.changedAt = now]
                           ELSE u
      <4>1. /\ users' = {set(u) : u \in users} /\ Becomes(c, Idle)
            /\ UNCHANGED <<pending, stands, born, mailed, secrets>>
        BY <3>7 DEF SetPassword, Ends, Goes
      <4>2. \A u \in users : /\ set(u).email = u.email /\ set(u).code = u.code
                             /\ set(u).username = u.username
                             /\ set(u) = u \/ set(u).changedAt # Never
        BY DEF Rows, UserR, Never
      <4> HIDE DEF set
      <4>3. AccountsAreProven'
        BY <4>1, <4>2 DEF CodeInv, AccountsAreProven
      <4>4. QED
        BY <4>1, <4>3, <2>m, <2>p, <2>n, <2>g, <3>e DEF CodeInv
    <3>8. CASE Burn(c) \/ SignAccessToken(c) \/ DeleteAccount(c) \/ Fails(c)
      <4>1. /\ users' \subseteq users
            /\ UNCHANGED <<pending, stands, born, mailed, secrets>>
            /\ \E n : Becomes(c, n) /\ n.at # "promote"
        BY <3>8, <2>i DEF Burn, SignAccessToken, DeleteAccount, Fails, ReadsOnly, Ends, Goes
      <4>2. Remembers /\ MailedRight' /\ PendingStands' /\ CodeNumbers' /\ SpentCodeIsGone'
        BY <4>1, <2>m, <2>p, <2>n, <2>g
      <4>3. AccountsAreProven'
        BY <4>1, <4>2, ProvenOn DEF CodeInv
      <4>4. \A d \in Callers : PromotesMailed(call[d])'
        BY <4>1, <4>2, PromotesOn
      <4>5. QED
        BY <4>2, <4>3, <4>4 DEF CodeInv
    <3>9. QED
      BY <2>2, <3>1, <3>2, <3>3, <3>4, <3>5, <3>6, <3>7, <3>8 DEF Continue
  <2>3. CASE Tick \/ UNCHANGED vars
    <3>1. UNCHANGED <<users, pending, stands, born, mailed, secrets, call>>
      BY <2>3 DEF Tick, vars
    <3>2. AccountsAreProven' /\ \A c \in Callers : PromotesMailed(call[c])'
      BY <3>1 DEF CodeInv, AccountsAreProven, PromotesMailed
    <3>3. QED
      BY <3>1, <3>2, <2>m, <2>p, <2>n, <2>g DEF CodeInv
  <2>4. QED
    BY <2>1, <2>2, <2>3 DEF Next
<1>3. QED
  BY <1>1, <1>2, Types, PTL DEF Spec, CodeInv, CodesProveAddresses
=============================================================================
