------------------------- MODULE Memberships_proofs -------------------------
(***************************************************************************)
(* Theorems about Memberships, for any number of people, projects,         *)
(* handlers at one time and requests.                                      *)
(***************************************************************************)
EXTENDS Memberships, TLAPS

Drafting == {"inviteMembers", "inviteExisting", "inviteWrite"}

\* The part of the type invariant the proofs rest on: the tables, and what a
\* handler has in hand at each step that writes.
Row == [id : Nat, token : Nat, role : Roles, status : Status, by : People,
        lapsed : BOOLEAN]

InHand(r) ==
    /\ r.at \in Drafting =>
          /\ r.by \in People /\ r.project \in Projects /\ r.to \in People
          /\ r.role \in Roles /\ r.token \in Nat
    /\ r.at = "inviteWrite" => r.existing \in Nat
    /\ r.at = "revoke" => r.project \in Projects /\ r.to \in People
    /\ r.at = "accept" => r.project \in Projects /\ r.user \in People /\ r.row \in Row
    /\ r.at \in {"decline", "lapse", "remove"} => r.project \in Projects /\ r.user \in People
    /\ r.at = "setRole" =>
          r.project \in Projects /\ r.user \in People /\ r.role \in Roles
    /\ r.at = "drop" => r.project \in Projects

Tables ==
    /\ accounts \subseteq People
    /\ owner \in [Projects -> People \cup {Nobody}]
    /\ members \in [Projects -> [People -> Roles \cup {NoRole}]]
    /\ invites \in [Projects -> [People -> Row \cup {NoInvite}]]
    /\ asked \in Nat

Handlers ==
    /\ call = [c \in Callers |-> call[c]]
    /\ \A c \in Callers : InHand(call[c])

\* What a step of a handler does to the handlers.
LEMMA Moves ==
    ASSUME Handlers, NEW c \in Callers, NEW n, Becomes(c, n), InHand(n)
    PROVE  Handlers' /\ call'[c] = n /\ \A d \in Callers \ {c} : call'[d] = call[d]
BY DEF Handlers, Becomes

\* What writing a status does to the invitations.
LEMMA Answers ==
    ASSUME Tables, NEW p \in Projects, NEW u \in People, invites[p][u] \in Row,
           NEW s \in Status, invites' = [invites EXCEPT ![p][u].status = s]
    PROVE  /\ invites' \in [Projects -> [People -> Row \cup {NoInvite}]]
           /\ invites'[p][u] = [invites[p][u] EXCEPT !.status = s]
           /\ \A q \in Projects, v \in People :
                 q # p \/ v # u => invites'[q][v] = invites[q][v]
<1>1. [invites[p][u] EXCEPT !.status = s] \in Row
  BY DEF Row
<1>2. invites[p] \in [People -> Row \cup {NoInvite}]
  BY DEF Tables
<1>3. invites' = [invites EXCEPT ![p] = [invites[p] EXCEPT ![u] = [invites[p][u] EXCEPT !.status = s]]]
  OBVIOUS
<1>4. QED
  BY <1>1, <1>2, <1>3 DEF Tables

LEMMA IsRow ==
    ASSUME Tables, NEW p \in Projects, NEW u \in People, NEW i, HasRow(p, u, i)
    PROVE  invites[p][u] \in Row /\ invites[p][u].id = i
BY DEF Tables, HasRow

\* A request that arrives only reads.
LEMMA BeginsKeepsRows ==
    ASSUME NEW c \in Callers, Request(c)
    PROVE  /\ UNCHANGED <<accounts, owner, made, members, invites>>
           /\ UNCHANGED <<mailed, offered, joined, revoked, roleSets>>
<1> PICK u \in People, p \in Projects :
      \/ RemoveProjectBegins(c, u, p)
      \/ AcceptLoads(c, u, p)
      \/ DeclineLoads(c, u, p)
      \/ LeaveBegins(c, u, p)
      \/ \E v \in People :
            \/ RevokeBegins(c, u, p, v)
            \/ ResendBegins(c, u, p, v)
            \/ RemoveBegins(c, u, p, v)
            \/ \E role \in Roles : \/ InviteBegins(c, u, p, v, role)
                                   \/ UpdateRoleBegins(c, u, p, v, role)
  BY DEF Request
<1>1. \E n : Begins(c, n)
  <2>1. CASE RemoveProjectBegins(c, u, p)
    BY <2>1 DEF RemoveProjectBegins
  <2>2. CASE AcceptLoads(c, u, p)
    BY <2>2 DEF AcceptLoads
  <2>3. CASE DeclineLoads(c, u, p)
    BY <2>3 DEF DeclineLoads
  <2>4. CASE LeaveBegins(c, u, p)
    BY <2>4 DEF LeaveBegins
  <2>5. ASSUME NEW v \in People, RevokeBegins(c, u, p, v) PROVE \E n : Begins(c, n)
    BY <2>5 DEF RevokeBegins
  <2>6. ASSUME NEW v \in People, ResendBegins(c, u, p, v) PROVE \E n : Begins(c, n)
    BY <2>6 DEF ResendBegins
  <2>7. ASSUME NEW v \in People, RemoveBegins(c, u, p, v) PROVE \E n : Begins(c, n)
    BY <2>7 DEF RemoveBegins
  <2>8. ASSUME NEW v \in People, NEW role \in Roles, InviteBegins(c, u, p, v, role)
        PROVE  \E n : Begins(c, n)
    BY <2>8 DEF InviteBegins
  <2>9. ASSUME NEW v \in People, NEW role \in Roles, UpdateRoleBegins(c, u, p, v, role)
        PROVE  \E n : Begins(c, n)
    BY <2>9 DEF UpdateRoleBegins
  <2>10. QED
    BY <2>1, <2>2, <2>3, <2>4, <2>5, <2>6, <2>7, <2>8, <2>9
<1>2. QED
  BY <1>1 DEF Begins, rows, told

LEMMA Types == Spec => [](Tables /\ Handlers)
<1> USE MembershipsAssumption DEF Tables
<1>1. Init => Tables /\ Handlers
  <2> SUFFICES ASSUME Init PROVE Tables /\ Handlers
    OBVIOUS
  <2>1. Tables
    BY DEF Init
  <2>2. Handlers
    BY DEF Init, Handlers, InHand, Idle, Drafting
  <2>3. QED
    BY <2>1, <2>2
<1>2. Tables /\ Handlers /\ [Next]_vars => (Tables /\ Handlers)'
  <2> SUFFICES ASSUME Tables, Handlers, [Next]_vars PROVE Tables' /\ Handlers'
    OBVIOUS
  <2>a. InHand(Idle)
    BY DEF InHand, Idle, Drafting
  <2>b. NoInvite \notin Row
    BY DEF NoInvite, Row, Status
  <2> USE DEF rows, told, Goes, Ends, Begins, Counts
  <2>1. ASSUME NEW c \in Callers, Request(c) PROVE Tables' /\ Handlers'
    <3> PICK u \in People, p \in Projects :
          \/ RemoveProjectBegins(c, u, p)
          \/ AcceptLoads(c, u, p)
          \/ DeclineLoads(c, u, p)
          \/ LeaveBegins(c, u, p)
          \/ \E v \in People :
                \/ RevokeBegins(c, u, p, v)
                \/ ResendBegins(c, u, p, v)
                \/ RemoveBegins(c, u, p, v)
                \/ \E role \in Roles : \/ InviteBegins(c, u, p, v, role)
                                       \/ UpdateRoleBegins(c, u, p, v, role)
      BY <2>1 DEF Request
    <3>1. CASE RemoveProjectBegins(c, u, p)
      BY <3>1, Moves DEF RemoveProjectBegins, InHand, Drafting
    <3>2. CASE AcceptLoads(c, u, p)
      <4>1. invites[p][u] \in Row
        BY <3>2 DEF AcceptLoads, Loads
      <4>2. QED
        BY <4>1, <3>2, Moves DEF AcceptLoads, InHand, Drafting
    <3>3. CASE DeclineLoads(c, u, p)
      BY <3>3, Moves DEF DeclineLoads, InHand, Drafting
    <3>4. CASE LeaveBegins(c, u, p)
      BY <3>4, Moves DEF LeaveBegins, InHand, Drafting
    <3>5. ASSUME NEW v \in People, RevokeBegins(c, u, p, v) PROVE Tables' /\ Handlers'
      BY <3>5, Moves DEF RevokeBegins, InHand, Drafting
    <3>6. ASSUME NEW v \in People, ResendBegins(c, u, p, v) PROVE Tables' /\ Handlers'
      BY <3>6, Moves DEF ResendBegins, InHand, Drafting
    <3>7. ASSUME NEW v \in People, RemoveBegins(c, u, p, v) PROVE Tables' /\ Handlers'
      BY <3>7, Moves DEF RemoveBegins, InHand, Drafting
    <3>8. ASSUME NEW v \in People, NEW role \in Roles, InviteBegins(c, u, p, v, role)
          PROVE  Tables' /\ Handlers'
      BY <3>8, Moves DEF InviteBegins, InHand, Drafting
    <3>9. ASSUME NEW v \in People, NEW role \in Roles, UpdateRoleBegins(c, u, p, v, role)
          PROVE  Tables' /\ Handlers'
      BY <3>9, Moves DEF UpdateRoleBegins, InHand, Drafting
    <3>10. QED
      BY <3>1, <3>2, <3>3, <3>4, <3>5, <3>6, <3>7, <3>8, <3>9
  <2>2. ASSUME NEW c \in Callers, Continue(c) PROVE Tables' /\ Handlers'
    <3> DEFINE r == call[c]
    <3>0. InHand(r)
      BY DEF Handlers
    <3>1. CASE RemoveProject(c)
      BY <3>1, <3>0, <2>a, Moves DEF RemoveProject, Cascade, InHand, At
    <3>2. CASE InviteReadsMembers(c)
      <4>1. InHand([r EXCEPT !.at = "inviteExisting"])
        BY <3>2, <3>0 DEF InviteReadsMembers, InHand, At, Drafting
      <4>2. QED
        BY <4>1, <3>2, Moves DEF InviteReadsMembers
    <3>3. CASE InviteReadsExisting(c)
      <4>1. PICK n \in Nat :
              Becomes(c, [at |-> "inviteWrite", by |-> r.by, project |-> r.project,
                          to |-> r.to, role |-> r.role, token |-> r.token, existing |-> n])
        BY <3>3, <3>0 DEF InviteReadsExisting, InHand, At, Drafting, Row
      <4>2. QED
        BY <4>1, <3>3, <3>0, Moves DEF InviteReadsExisting, InHand, At, Drafting
    <3>4. CASE InviteWrites(c)
      BY <3>4, <3>0, Moves DEF InviteWrites, WritesInvite, SetInvite, InHand, At, Drafting, Row, Status
    <3>5. CASE SendInvitationEmail(c) \/ Fails(c)
      BY <3>5, <2>a, Moves DEF SendInvitationEmail, Fails
    <3>6. CASE Revoke(c)
      BY <3>6, <3>0, <2>a, Moves DEF Revoke, SetInvite, InHand, At
    <3>7. CASE Resend(c)
      BY <3>7, Moves DEF Resend, InHand, Drafting
    <3>8. CASE Accept(c)
      <4>1. /\ r.project \in Projects /\ r.user \in People /\ r.row.role \in Roles
            /\ HasRow(r.project, r.user, r.row.id)
            /\ invites' = [invites EXCEPT ![r.project][r.user].status = "accepted"]
            /\ members' = [members EXCEPT ![r.project][r.user] = UpsertedRole(r)]
        BY <3>8, <3>0 DEF Accept, Joins, SetRole, InHand, At, Row
      <4>2. UpsertedRole(r) \in Roles
        BY <4>1 DEF UpsertedRole, IsMember
      <4>3. invites' \in [Projects -> [People -> Row \cup {NoInvite}]]
        BY ZenonT(60), <4>1, IsRow, Answers DEF Status
      <4>4. QED
        BY <3>8, <4>1, <4>2, <4>3, <2>a, Moves DEF Accept
    <3>9. CASE Decline(c) \/ MarkExpired(c)
      <4>1. PICK s \in {"declined", "expired"} :
              /\ r.project \in Projects /\ r.user \in People
              /\ HasRow(r.project, r.user, r.id)
              /\ invites' = [invites EXCEPT ![r.project][r.user].status = s]
        BY <3>9, <3>0 DEF Decline, MarkExpired, AnswerAs, InHand, At
      <4>2. invites' \in [Projects -> [People -> Row \cup {NoInvite}]]
        BY ZenonT(60), <4>1, IsRow, Answers DEF Status
      <4>3. QED
        BY <3>9, <4>2, <2>a, Moves DEF Decline, MarkExpired, AnswerAs
    <3>10. CASE UpdateRole(c)
      BY <3>10, <3>0, <2>a, Moves DEF UpdateRole, SetRole, InHand, At
    <3>11. CASE RemoveMember(c)
      BY <3>11, <3>0, <2>a, Moves DEF RemoveMember, SetRole, InHand, At
    <3>12. QED
      BY <2>2, <3>1, <3>2, <3>3, <3>4, <3>5, <3>6, <3>7, <3>8, <3>9, <3>10, <3>11 DEF Continue
  <2>3. ASSUME NEW u \in People, DeleteAccount(u) PROVE Tables' /\ Handlers'
    BY <2>3 DEF DeleteAccount, Handlers
  <2>4. ASSUME NEW u \in People, NEW p \in Projects, CreateProject(u, p)
        PROVE  Tables' /\ Handlers'
    BY <2>4 DEF CreateProject, SetRole, Handlers
  <2>5. ASSUME NEW u \in People, NEW p \in Projects, Lapse(p, u)
        PROVE  Tables' /\ Handlers'
    <3>1. invites[p][u] \in Row
      BY <2>5 DEF Lapse, FindMine
    <3>2. [invites[p][u] EXCEPT !.lapsed = TRUE] \in Row
      BY <3>1 DEF Row
    <3>3. QED
      BY <2>5, <3>2 DEF Lapse, Handlers
  <2>6. CASE UNCHANGED vars
    BY <2>6 DEF vars, Handlers
  <2>7. QED
    BY <2>1, <2>2, <2>3, <2>4, <2>5, <2>6 DEF Next, Account
<1>3. QED
  BY <1>1, <1>2, PTL DEF Spec

-----------------------------------------------------------------------------
(* Rows.  Every step that writes one checks, in the statement that writes,  *)
(* that project and person are there; a step that deletes takes all rows    *)
(* with it.  That is why the property is inductive as it stands.            *)

\* No project has an owner, a member or an invitation whose person is gone,
\* and no invitation is shown as accepted by a person it did not make a member.
THEOREM RowsSound == Spec => []RowsAreSound
<1> USE MembershipsAssumption
<1>1. Init => RowsAreSound
  BY DEF Init, RowsAreSound, RowsHaveTheirUsers, AcceptedHasJoined, Exists, IsMember
<1>2. Tables /\ Handlers /\ Tables' /\ RowsAreSound /\ [Next]_vars => RowsAreSound'
  <2> SUFFICES ASSUME Tables, Handlers, Tables', RowsHaveTheirUsers, AcceptedHasJoined,
                      [Next]_vars
               PROVE  RowsHaveTheirUsers' /\ AcceptedHasJoined'
    BY DEF RowsAreSound
  <2>k. UNCHANGED <<accounts, owner, members, invites, joined>>
          => RowsHaveTheirUsers' /\ AcceptedHasJoined'
    BY DEF RowsHaveTheirUsers, AcceptedHasJoined, Exists, IsMember
  <2>i. UNCHANGED <<invites, joined>> => AcceptedHasJoined'
    BY DEF AcceptedHasJoined
  <2>1. ASSUME NEW c \in Callers, Request(c) PROVE RowsHaveTheirUsers' /\ AcceptedHasJoined'
    BY <2>1, <2>k, BeginsKeepsRows
  <2>2. ASSUME NEW c \in Callers, Continue(c) PROVE RowsHaveTheirUsers' /\ AcceptedHasJoined'
    <3> DEFINE r == call[c]
    <3>0. InHand(r)
      BY DEF Handlers
    <3>1. CASE RemoveProject(c)
      <4>1. /\ r.project \in Projects
            /\ owner' = [p \in Projects |-> IF p = r.project THEN Nobody ELSE owner[p]]
            /\ members' = [p \in Projects |->
                  IF p = r.project THEN [u \in People |-> NoRole] ELSE members[p]]
            /\ invites' = [invites EXCEPT ![r.project] = [u \in People |-> NoInvite]]
            /\ UNCHANGED <<accounts, joined>>
        BY <3>1, <3>0 DEF RemoveProject, Cascade, InHand, At, Ends, Goes, told
      <4>2. /\ \A p \in Projects, u \in People :
                 p # r.project => /\ owner'[p] = owner[p] /\ members'[p][u] = members[p][u]
                                  /\ invites'[p][u] = invites[p][u]
            /\ owner'[r.project] = Nobody
            /\ \A u \in People : /\ members'[r.project][u] = NoRole
                                 /\ invites'[r.project][u] = NoInvite
        BY <4>1 DEF Tables
      <4>3. RowsHaveTheirUsers'
        BY <4>1, <4>2 DEF RowsHaveTheirUsers, Exists, IsMember
      <4>4. QED
        BY <4>1, <4>2, <4>3 DEF AcceptedHasJoined
    <3>2. CASE InviteReadsMembers(c) \/ InviteReadsExisting(c) \/ Resend(c)
               \/ SendInvitationEmail(c) \/ Fails(c)
      <4>1. UNCHANGED <<accounts, owner, members, invites, joined>>
        BY <3>2 DEF InviteReadsMembers, InviteReadsExisting, Resend, SendInvitationEmail, Fails,
                    rows, told, Goes, Ends
      <4>2. QED
        BY <4>1, <2>k
    <3>3. CASE InviteWrites(c)
      <4>1. /\ r.project \in Projects /\ r.to \in People
            /\ Exists(r.project) /\ r.by \in accounts
            /\ UNCHANGED <<accounts, owner, members, joined>>
        BY <3>3, <3>0 DEF InviteWrites, WritesInvite, InHand, At, Drafting, Goes
      <4>2. PICK row : /\ invites' = [invites EXCEPT ![r.project][r.to] = row]
                       /\ row.status = "pending" /\ row.by = r.by
        <5> DEFINE id == IF r.existing = 0 THEN r.token ELSE r.existing
                   row == [id |-> id, token |-> r.token, role |-> r.role,
                           status |-> "pending", by |-> r.by, lapsed |-> FALSE]
        <5>1. invites' = [invites EXCEPT ![r.project][r.to] = row]
          BY <3>3 DEF InviteWrites, WritesInvite, SetInvite
        <5>2. row.status = "pending" /\ row.by = r.by
          OBVIOUS
        <5>3. QED
          BY <5>1, <5>2
      <4>3. /\ invites'[r.project][r.to] = row
            /\ \A p \in Projects, u \in People :
                 p # r.project \/ u # r.to => invites'[p][u] = invites[p][u]
        BY <4>1, <4>2 DEF Tables
      <4>4. RowsHaveTheirUsers'
        BY <4>1, <4>2, <4>3 DEF RowsHaveTheirUsers, Exists, IsMember
      <4>5. QED
        BY <4>1, <4>2, <4>3, <4>4 DEF AcceptedHasJoined
    <3>4. CASE Revoke(c)
      <4>1. /\ r.project \in Projects /\ r.to \in People
            /\ invites' = [invites EXCEPT ![r.project][r.to] = NoInvite]
            /\ UNCHANGED <<accounts, owner, members, joined>>
        BY <3>4, <3>0 DEF Revoke, SetInvite, InHand, At, Goes, Ends
      <4>2. /\ invites'[r.project][r.to] = NoInvite
            /\ \A p \in Projects, u \in People :
                 p # r.project \/ u # r.to => invites'[p][u] = invites[p][u]
        BY <4>1 DEF Tables
      <4>3. RowsHaveTheirUsers'
        BY <4>1, <4>2 DEF RowsHaveTheirUsers, Exists, IsMember
      <4>4. QED
        BY <4>1, <4>2, <4>3 DEF AcceptedHasJoined
    <3>5. CASE Accept(c)
      <4>1. /\ r.project \in Projects /\ r.user \in People /\ r.row.role \in Roles
            /\ HasRow(r.project, r.user, r.row.id)
            /\ Exists(r.project) /\ r.user \in accounts
            /\ invites' = [invites EXCEPT ![r.project][r.user].status = "accepted"]
            /\ members' = [members EXCEPT ![r.project][r.user] = UpsertedRole(r)]
            /\ UNCHANGED <<accounts, owner>>
        BY <3>5, <3>0 DEF Accept, Joins, SetRole, InHand, At, Row, Goes, Ends
      <4>2. /\ invites[r.project][r.user] \in Row /\ invites[r.project][r.user].id = r.row.id
            /\ HasRow(r.project, r.user, r.row.id)
        BY <4>1, IsRow
      <4>3. /\ invites'[r.project][r.user] = [invites[r.project][r.user] EXCEPT !.status = "accepted"]
            /\ \A q \in Projects, v \in People :
                  q # r.project \/ v # r.user => invites'[q][v] = invites[q][v]
        BY <4>1 DEF Tables
      <4>4. /\ invites'[r.project][r.user].id = r.row.id
            /\ invites'[r.project][r.user].by = invites[r.project][r.user].by
            /\ invites[r.project][r.user] # NoInvite
        BY <4>2, <4>3 DEF Row, HasRow
      <4>5. /\ members'[r.project][r.user] = UpsertedRole(r)
            /\ \A q \in Projects, v \in People :
                  q # r.project \/ v # r.user => members'[q][v] = members[q][v]
        BY <4>1 DEF Tables
      <4>u. /\ owner[r.project] # Nobody /\ r.user \in accounts
            /\ owner' = owner /\ accounts' = accounts
        BY <4>1 DEF Exists
      <4>6. RowsHaveTheirUsers'
        <5> SUFFICES ASSUME NEW p \in Projects, NEW u \in People
                     PROVE  /\ owner'[p] \in accounts' \cup {Nobody}
                            /\ members'[p][u] # NoRole => owner'[p] # Nobody /\ u \in accounts'
                            /\ invites'[p][u] # NoInvite =>
                                  owner'[p] # Nobody /\ invites'[p][u].by \in accounts'
          BY DEF RowsHaveTheirUsers, Exists, IsMember
        <5>h. /\ owner[p] \in accounts \cup {Nobody}
              /\ members[p][u] # NoRole => owner[p] # Nobody /\ u \in accounts
              /\ invites[p][u] # NoInvite =>
                    owner[p] # Nobody /\ invites[p][u].by \in accounts
          BY DEF RowsHaveTheirUsers, Exists, IsMember
        <5>1. CASE p = r.project /\ u = r.user
          BY <5>1, <5>h, <4>u, <4>4
        <5>2. CASE ~(p = r.project /\ u = r.user)
          BY <5>2, <5>h, <4>u, <4>3, <4>5
        <5>3. QED
          BY <5>1, <5>2
      <4>7. /\ joined \subseteq joined'
            /\ \E j \in joined' : j.id = r.row.id /\ j.user = r.user /\ j.project = r.project
        <5> DEFINE j == [id |-> r.row.id, token |-> r.row.token, project |-> r.project,
                         user |-> r.user]
        <5>1. joined' = joined \cup {j}
          BY <3>5 DEF Accept, Joins
        <5>2. j.id = r.row.id /\ j.user = r.user /\ j.project = r.project
          OBVIOUS
        <5>3. QED
          BY <5>1, <5>2
      <4>8. AcceptedHasJoined'
        <5> SUFFICES ASSUME NEW p \in Projects, NEW u \in People,
                            invites'[p][u] # NoInvite, invites'[p][u].status = "accepted"
                     PROVE  \E j \in joined' : /\ j.id = invites'[p][u].id
                                               /\ j.user = u /\ j.project = p
          BY DEF AcceptedHasJoined
        <5>1. CASE p = r.project /\ u = r.user
          BY <5>1, <4>4, <4>7
        <5>2. CASE ~(p = r.project /\ u = r.user)
          BY <5>2, <4>3, <4>7 DEF AcceptedHasJoined
        <5>3. QED
          BY <5>1, <5>2
      <4>9. QED
        BY <4>6, <4>8
    <3>6. CASE Decline(c) \/ MarkExpired(c)
      <4>1. PICK s \in {"declined", "expired"} :
              /\ r.project \in Projects /\ r.user \in People
              /\ HasRow(r.project, r.user, r.id)
              /\ invites' = [invites EXCEPT ![r.project][r.user].status = s]
              /\ UNCHANGED <<owner, members, joined, accounts>>
        BY <3>6, <3>0 DEF Decline, MarkExpired, AnswerAs, InHand, At, told, Goes, Ends
      <4>2. invites[r.project][r.user] \in Row /\ invites[r.project][r.user] # NoInvite
        BY <4>1, IsRow DEF HasRow
      <4>3. /\ invites'[r.project][r.user] = [invites[r.project][r.user] EXCEPT !.status = s]
            /\ \A q \in Projects, v \in People :
                  q # r.project \/ v # r.user => invites'[q][v] = invites[q][v]
        BY <4>1 DEF Tables
      <4>4. /\ invites'[r.project][r.user].status # "accepted"
            /\ invites'[r.project][r.user].by = invites[r.project][r.user].by
        BY <4>2, <4>3 DEF Row
      <4>u. owner' = owner /\ accounts' = accounts /\ members' = members
        BY <4>1
      <4>5. RowsHaveTheirUsers'
        <5> SUFFICES ASSUME NEW p \in Projects, NEW u \in People
                     PROVE  /\ owner'[p] \in accounts' \cup {Nobody}
                            /\ members'[p][u] # NoRole => owner'[p] # Nobody /\ u \in accounts'
                            /\ invites'[p][u] # NoInvite =>
                                  owner'[p] # Nobody /\ invites'[p][u].by \in accounts'
          BY DEF RowsHaveTheirUsers, Exists, IsMember
        <5>h. /\ owner[p] \in accounts \cup {Nobody}
              /\ members[p][u] # NoRole => owner[p] # Nobody /\ u \in accounts
              /\ invites[p][u] # NoInvite =>
                    owner[p] # Nobody /\ invites[p][u].by \in accounts
          BY DEF RowsHaveTheirUsers, Exists, IsMember
        <5>1. CASE p = r.project /\ u = r.user
          BY <5>1, <5>h, <4>u, <4>2, <4>4
        <5>2. CASE ~(p = r.project /\ u = r.user)
          BY <5>2, <5>h, <4>u, <4>3
        <5>3. QED
          BY <5>1, <5>2
      <4>6. QED
        <5> SUFFICES ASSUME NEW p \in Projects, NEW u \in People,
                            invites'[p][u] # NoInvite, invites'[p][u].status = "accepted"
                     PROVE  \E j \in joined' : /\ j.id = invites'[p][u].id
                                               /\ j.user = u /\ j.project = p
          BY <4>5 DEF AcceptedHasJoined
        <5>1. ~(p = r.project /\ u = r.user)
          BY <4>4
        <5>2. invites'[p][u] = invites[p][u] /\ joined' = joined
          BY <5>1, <4>1, <4>3
        <5>3. QED
          BY <5>2 DEF AcceptedHasJoined
    <3>7. CASE UpdateRole(c) \/ RemoveMember(c)
      <4>1. PICK role : /\ r.project \in Projects /\ r.user \in People
                        /\ IsMember(r.project, r.user)
                        /\ members' = [members EXCEPT ![r.project][r.user] = role]
                        /\ UNCHANGED <<owner, invites, joined, accounts>>
        BY <3>7, <3>0 DEF UpdateRole, RemoveMember, SetRole, InHand, At, told, Goes, Ends
      <4>2. \A q \in Projects, v \in People :
               members'[q][v] # NoRole => members[q][v] # NoRole
        BY <4>1 DEF Tables, IsMember
      <4>3. RowsHaveTheirUsers'
        BY <4>1, <4>2 DEF RowsHaveTheirUsers, Exists, IsMember
      <4>4. QED
        BY <4>1, <4>3, <2>i
    <3>8. QED
      BY <2>2, <3>1, <3>2, <3>3, <3>4, <3>5, <3>6, <3>7 DEF Continue
  <2>3. ASSUME NEW u \in People, DeleteAccount(u) PROVE RowsHaveTheirUsers' /\ AcceptedHasJoined'
    <3>1. /\ accounts' = accounts \ {u} /\ joined' = joined
          /\ \A p \in Projects : owner'[p] = IF owner[p] = u THEN Nobody ELSE owner[p]
          /\ \A p \in Projects, v \in People :
               /\ members'[p][v] = IF owner[p] = u \/ v = u THEN NoRole ELSE members[p][v]
               /\ \/ /\ invites'[p][v] = invites[p][v] /\ owner[p] # u
                     /\ invites[p][v] # NoInvite => invites[p][v].by # u
                  \/ invites'[p][v] = NoInvite
      BY <2>3 DEF DeleteAccount, OwnedBy, told
    <3>2. RowsHaveTheirUsers'
      BY <3>1 DEF RowsHaveTheirUsers, Exists, IsMember
    <3>3. QED
      BY <3>1, <3>2 DEF AcceptedHasJoined
  <2>4. ASSUME NEW u \in People, NEW p \in Projects, CreateProject(u, p)
        PROVE  RowsHaveTheirUsers' /\ AcceptedHasJoined'
    <3>1. /\ u \in accounts
          /\ owner' = [owner EXCEPT ![p] = u]
          /\ members' = [members EXCEPT ![p][u] = "admin"]
          /\ UNCHANGED <<accounts, invites, joined>>
      BY <2>4 DEF CreateProject, SetRole, told
    <3>2. RowsHaveTheirUsers'
      BY <3>1 DEF RowsHaveTheirUsers, Exists, IsMember, Tables
    <3>3. QED
      BY <3>1, <3>2, <2>i
  <2>5. ASSUME NEW u \in People, NEW p \in Projects, Lapse(p, u)
        PROVE  RowsHaveTheirUsers' /\ AcceptedHasJoined'
    <3>1. /\ invites' = [invites EXCEPT ![p][u].lapsed = TRUE]
          /\ UNCHANGED <<accounts, owner, members, joined>>
          /\ invites[p][u] # NoInvite
      BY <2>5 DEF Lapse, FindMine, told
    <3>2. invites[p][u] \in Row
      BY <3>1 DEF Tables
    <3>3. /\ invites'[p][u] = [invites[p][u] EXCEPT !.lapsed = TRUE]
          /\ \A q \in Projects, v \in People :
                q # p \/ v # u => invites'[q][v] = invites[q][v]
      BY <3>1 DEF Tables
    <3>4. /\ invites'[p][u].by = invites[p][u].by
          /\ invites'[p][u].id = invites[p][u].id
          /\ invites'[p][u].status = invites[p][u].status
      BY <3>2, <3>3 DEF Row
    <3>5. RowsHaveTheirUsers'
      BY <3>1, <3>3, <3>4 DEF RowsHaveTheirUsers, Exists, IsMember
    <3>6. QED
      BY <3>1, <3>3, <3>4, <3>5 DEF AcceptedHasJoined
  <2>6. CASE UNCHANGED vars
    BY <2>6, <2>k DEF vars
  <2>7. QED
    BY <2>1, <2>2, <2>3, <2>4, <2>5, <2>6 DEF Next, Account
<1>3. QED
  BY <1>1, <1>2, Types, PTL DEF Spec

-----------------------------------------------------------------------------
(* What the steps leave alone.  Only InviteWrites writes an id, a token or  *)
(* a role into an invitation, only Accept joins, only Revoke revokes.       *)

SameOffer(p, u) ==
    /\ invites[p][u] # NoInvite
    /\ invites'[p][u].id = invites[p][u].id
    /\ invites'[p][u].token = invites[p][u].token
    /\ invites'[p][u].role = invites[p][u].role

KeepsOffers ==
    /\ offered' = offered
    /\ \A p \in Projects, u \in People : invites'[p][u] # NoInvite => SameOffer(p, u)

\* A draft takes the number of its request; an acceptance, the row it read.
LEMMA RequestMoves ==
    ASSUME Handlers, NEW c \in Callers, Request(c)
    PROVE  /\ asked' = asked + 1
           /\ \A d \in Callers \ {c} : call'[d] = call[d]
           /\ call[c].at = "idle"
           /\ call'[c].at \in Drafting => call'[c].token = asked + 1
           /\ call'[c].at = "accept" =>
                 /\ call'[c].project \in Projects /\ call'[c].user \in People
                 /\ call'[c].row = invites[call'[c].project][call'[c].user]
                 /\ call'[c].row # NoInvite
<1> DEFINE Good(n) ==
             /\ n.at \in Drafting => n.token = asked + 1
             /\ n.at = "accept" =>
                   /\ n.project \in Projects /\ n.user \in People
                   /\ n.row = invites[n.project][n.user] /\ n.row # NoInvite
<1> PICK u \in People, p \in Projects :
      \/ RemoveProjectBegins(c, u, p)
      \/ AcceptLoads(c, u, p)
      \/ DeclineLoads(c, u, p)
      \/ LeaveBegins(c, u, p)
      \/ \E v \in People :
            \/ RevokeBegins(c, u, p, v)
            \/ ResendBegins(c, u, p, v)
            \/ RemoveBegins(c, u, p, v)
            \/ \E role \in Roles : \/ InviteBegins(c, u, p, v, role)
                                   \/ UpdateRoleBegins(c, u, p, v, role)
  BY DEF Request
<1>1. \E n : Begins(c, n) /\ Good(n)
  <2>1. CASE RemoveProjectBegins(c, u, p)
    BY <2>1 DEF RemoveProjectBegins, Drafting
  <2>2. CASE AcceptLoads(c, u, p)
    BY <2>2 DEF AcceptLoads, Loads, Drafting
  <2>3. CASE DeclineLoads(c, u, p)
    BY <2>3 DEF DeclineLoads, Drafting
  <2>4. CASE LeaveBegins(c, u, p)
    BY <2>4 DEF LeaveBegins, Drafting
  <2>5. ASSUME NEW v \in People, RevokeBegins(c, u, p, v)
        PROVE  \E n : Begins(c, n) /\ Good(n)
    BY <2>5 DEF RevokeBegins, Drafting
  <2>6. ASSUME NEW v \in People, ResendBegins(c, u, p, v)
        PROVE  \E n : Begins(c, n) /\ Good(n)
    BY <2>6 DEF ResendBegins, Drafting
  <2>7. ASSUME NEW v \in People, RemoveBegins(c, u, p, v)
        PROVE  \E n : Begins(c, n) /\ Good(n)
    BY <2>7 DEF RemoveBegins, Drafting
  <2>8. ASSUME NEW v \in People, NEW role \in Roles, InviteBegins(c, u, p, v, role)
        PROVE  \E n : Begins(c, n) /\ Good(n)
    BY <2>8 DEF InviteBegins, Drafting
  <2>9. ASSUME NEW v \in People, NEW role \in Roles, UpdateRoleBegins(c, u, p, v, role)
        PROVE  \E n : Begins(c, n) /\ Good(n)
    BY <2>9 DEF UpdateRoleBegins, Drafting
  <2>10. QED
    BY <2>1, <2>2, <2>3, <2>4, <2>5, <2>6, <2>7, <2>8, <2>9
<1>2. PICK n : Begins(c, n) /\ Good(n)
  BY <1>1
<1>3. asked' = asked + 1 /\ call[c].at = "idle" /\ Becomes(c, n)
  BY <1>2 DEF Begins, Counts, At
<1>4. call'[c] = n /\ \A d \in Callers \ {c} : call'[d] = call[d]
  BY <1>3 DEF Becomes, Handlers
<1>5. QED
  BY <1>2, <1>3, <1>4

\* A handler that goes on keeps its number and does not start to accept.
LEMMA ContinueMoves ==
    ASSUME Handlers, NEW c \in Callers, Continue(c)
    PROVE  /\ UNCHANGED <<asked, accounts, made>>
           /\ \A d \in Callers \ {c} : call'[d] = call[d]
           /\ call'[c].at # "accept"
           /\ call'[c].at \in Drafting =>
                 call[c].at \in Drafting /\ call'[c].token = call[c].token
<1> DEFINE Good(n) ==
             /\ n.at # "accept"
             /\ n.at \in Drafting => call[c].at \in Drafting /\ n.token = call[c].token
<1>0. Good(Idle)
  BY DEF Idle, Drafting
<1>1. made' = made /\ \E n : Goes(c, n) /\ Good(n)
  <2>1. CASE InviteReadsMembers(c)
    <3> DEFINE n == [call[c] EXCEPT !.at = "inviteExisting"]
    <3>1. call[c].at = "inviteMembers" /\ Goes(c, n) /\ made' = made
      BY <2>1 DEF InviteReadsMembers, At, rows
    <3>2. n.at = "inviteExisting" /\ n.token = call[c].token
      BY <3>1
    <3>3. QED
      BY <3>1, <3>2 DEF Drafting
  <2>2. CASE InviteReadsExisting(c)
    BY <2>2 DEF InviteReadsExisting, At, Drafting, rows
  <2>3. CASE InviteWrites(c)
    BY <2>3 DEF InviteWrites, WritesInvite, Drafting
  <2>4. CASE Resend(c)
    BY <2>4 DEF Resend, Drafting, rows
  <2>5. CASE SendInvitationEmail(c) \/ Fails(c)
    BY <2>5, <1>0 DEF SendInvitationEmail, Fails, Ends, rows
  <2>6. CASE RemoveProject(c) \/ Revoke(c) \/ Accept(c)
    BY <2>6, <1>0 DEF RemoveProject, Revoke, Accept, Ends
  <2>7. CASE Decline(c) \/ MarkExpired(c) \/ UpdateRole(c) \/ RemoveMember(c)
    BY <2>7, <1>0 DEF Decline, MarkExpired, AnswerAs, UpdateRole, RemoveMember, Ends
  <2>8. QED
    BY <2>1, <2>2, <2>3, <2>4, <2>5, <2>6, <2>7 DEF Continue
<1>2. QED
  BY <1>1 DEF Goes, Becomes, Handlers

LEMMA ContinueKeepsOffers ==
    ASSUME Tables, Handlers, NEW c \in Callers, Continue(c), ~InviteWrites(c)
    PROVE  KeepsOffers
<1> DEFINE r == call[c]
<1>0. InHand(r)
  BY DEF Handlers
<1>k. UNCHANGED <<invites, offered>> => KeepsOffers
  BY DEF KeepsOffers, SameOffer
<1>1. CASE RemoveProject(c)
  <2>1. /\ invites' = [invites EXCEPT ![r.project] = [u \in People |-> NoInvite]]
        /\ offered' = offered
    BY <1>1 DEF RemoveProject, told
  <2>2. QED
    BY <2>1 DEF KeepsOffers, SameOffer, Tables
<1>2. CASE InviteReadsMembers(c) \/ InviteReadsExisting(c) \/ Resend(c)
           \/ SendInvitationEmail(c) \/ Fails(c)
  BY <1>2, <1>k DEF InviteReadsMembers, InviteReadsExisting, Resend, SendInvitationEmail,
                    Fails, rows, told
<1>3. CASE Revoke(c)
  <2>1. invites' = [invites EXCEPT ![r.project][r.to] = NoInvite] /\ offered' = offered
    BY <1>3 DEF Revoke, SetInvite
  <2>2. QED
    BY <2>1 DEF KeepsOffers, SameOffer, Tables
<1>4. CASE Accept(c) \/ Decline(c) \/ MarkExpired(c)
  <2>1. PICK s, i :
          /\ s \in Status
          /\ r.project \in Projects /\ r.user \in People
          /\ HasRow(r.project, r.user, i)
          /\ invites' = [invites EXCEPT ![r.project][r.user].status = s]
          /\ offered' = offered
    <3>1. CASE Accept(c)
      <4>1. /\ r.project \in Projects /\ r.user \in People
            /\ HasRow(r.project, r.user, r.row.id)
            /\ invites' = [invites EXCEPT ![r.project][r.user].status = "accepted"]
            /\ offered' = offered
        BY <3>1, <1>0 DEF Accept, InHand, At
      <4>2. "accepted" \in Status
        BY DEF Status
      <4>3. QED
        BY <4>1, <4>2
    <3>2. ASSUME NEW s \in {"declined", "expired"}, NEW step \in {"decline", "lapse"},
                 AnswerAs(c, step, s)
          PROVE  /\ s \in Status
                 /\ r.project \in Projects /\ r.user \in People
                 /\ HasRow(r.project, r.user, r.id)
                 /\ invites' = [invites EXCEPT ![r.project][r.user].status = s]
                 /\ offered' = offered
      BY <3>2, <1>0 DEF AnswerAs, InHand, At, told, Status
    <3>3. CASE Decline(c)
      BY <3>2, <3>3 DEF Decline
    <3>4. CASE MarkExpired(c)
      BY <3>2, <3>4 DEF MarkExpired
    <3>5. QED
      BY <1>4, <3>1, <3>3, <3>4
  <2>2. invites[r.project][r.user] \in Row /\ invites[r.project][r.user] # NoInvite
    BY <2>1, IsRow DEF HasRow
  <2>3. /\ invites'[r.project][r.user] = [invites[r.project][r.user] EXCEPT !.status = s]
        /\ \A q \in Projects, v \in People :
              q # r.project \/ v # r.user => invites'[q][v] = invites[q][v]
    BY <2>1 DEF Tables
  <2>4. SameOffer(r.project, r.user)
    BY <2>2, <2>3 DEF SameOffer, Row
  <2>5. QED
    BY <2>1, <2>3, <2>4 DEF KeepsOffers, SameOffer
<1>5. CASE UpdateRole(c) \/ RemoveMember(c)
  BY <1>5, <1>k DEF UpdateRole, RemoveMember, told
<1>6. QED
  BY <1>1, <1>2, <1>3, <1>4, <1>5 DEF Continue

LEMMA ContinueJoinsByAccept ==
    ASSUME NEW c \in Callers, Continue(c), ~Accept(c)
    PROVE  joined' = joined
BY DEF Continue, RemoveProject, InviteReadsMembers, InviteReadsExisting, InviteWrites,
       WritesInvite, SendInvitationEmail, Revoke, Resend, Decline, MarkExpired, AnswerAs,
       UpdateRole, RemoveMember, Fails, told

LEMMA AccountKeepsOffers ==
    ASSUME Tables, Account
    PROVE  KeepsOffers /\ asked' = asked + 1 /\ UNCHANGED <<call, joined, revoked, roleSets>>
<1>1. ASSUME NEW u \in People, DeleteAccount(u)
      PROVE  KeepsOffers /\ asked' = asked + 1 /\ UNCHANGED <<call, joined, revoked, roleSets>>
  BY <1>1 DEF DeleteAccount, KeepsOffers, SameOffer, Counts, told
<1>2. ASSUME NEW u \in People, NEW p \in Projects, CreateProject(u, p)
      PROVE  KeepsOffers /\ asked' = asked + 1 /\ UNCHANGED <<call, joined, revoked, roleSets>>
  BY <1>2 DEF CreateProject, KeepsOffers, SameOffer, Counts, told
<1>3. ASSUME NEW u \in People, NEW p \in Projects, Lapse(p, u)
      PROVE  KeepsOffers /\ asked' = asked + 1 /\ UNCHANGED <<call, joined, revoked, roleSets>>
  <2>1. /\ invites' = [invites EXCEPT ![p][u].lapsed = TRUE]
        /\ invites[p][u] # NoInvite
        /\ asked' = asked + 1 /\ UNCHANGED <<call, offered, joined, revoked, roleSets>>
    BY <1>3 DEF Lapse, FindMine, Counts, told
  <2>2. invites[p][u] \in Row
    BY <2>1 DEF Tables
  <2>3. /\ invites'[p][u] = [invites[p][u] EXCEPT !.lapsed = TRUE]
        /\ \A q \in Projects, v \in People : q # p \/ v # u => invites'[q][v] = invites[q][v]
    BY <2>1 DEF Tables
  <2>4. SameOffer(p, u)
    BY <2>1, <2>2, <2>3 DEF SameOffer, Row
  <2>5. QED
    BY <2>1, <2>3, <2>4 DEF KeepsOffers, SameOffer
<1>4. QED
  BY <1>1, <1>2, <1>3 DEF Account

-----------------------------------------------------------------------------
(* Roles.  An acceptance joins with the row as it was loaded, which may be  *)
(* written anew meanwhile; so both the stored row and the loaded one carry  *)
(* the terms of an invitation that was written.                             *)

Terms(p, u, row) ==
    [id |-> row.id, token |-> row.token, project |-> p, to |-> u, role |-> row.role]

StoredAsOffered ==
    \A p \in Projects, u \in People :
       invites[p][u] # NoInvite => Terms(p, u, invites[p][u]) \in offered

LoadedAsOffered ==
    \A c \in Callers : call[c].at = "accept" =>
       Terms(call[c].project, call[c].user, call[c].row) \in offered

OfferInv == StoredAsOffered /\ LoadedAsOffered

-----------------------------------------------------------------------------
(* Rights that still stand.  An acceptance commits only if the row it read  *)
(* is there, by its id; so a revoked id must never come back.  Ids are the  *)
(* numbers of the requests that drew them: no two rows share one, and no    *)
(* draft in hand holds one that is in use or was revoked.                   *)

RowIds ==
    \A p, q \in Projects, u, v \in People :
       /\ invites[p][u] # NoInvite =>
             invites[p][u].id <= asked /\ invites[p][u].id \notin revoked
       /\ invites[p][u] # NoInvite /\ invites[q][v] # NoInvite
             /\ invites[p][u].id = invites[q][v].id => p = q /\ u = v

DraftIds ==
    \A c, d \in Callers : call[c].at \in Drafting =>
       /\ call[c].token <= asked /\ call[c].token \notin revoked
       /\ \A p \in Projects, u \in People :
             invites[p][u] # NoInvite => invites[p][u].id # call[c].token
       /\ call[d].at \in Drafting /\ call[d].token = call[c].token => c = d

RevokedIds == \A i \in revoked : i \in Nat /\ i <= asked

Made == \A p \in Projects : Exists(p) => p \in made

RightInv == RowIds /\ DraftIds /\ RevokedIds /\ Made

LEMMA RevokesByRevoke ==
    ASSUME NEW c \in Callers, Continue(c), ~Revoke(c)
    PROVE  revoked' = revoked
BY DEF Continue, RemoveProject, InviteReadsMembers, InviteReadsExisting, InviteWrites,
       WritesInvite, SendInvitationEmail, Accept, Resend, Decline, MarkExpired, AnswerAs,
       UpdateRole, RemoveMember, Fails, told

LEMMA OwnersByRemoval ==
    ASSUME NEW c \in Callers, Continue(c), NEW p \in Projects, Exists(p)'
    PROVE  Exists(p)
<1>1. CASE RemoveProject(c)
  BY <1>1 DEF RemoveProject, Cascade, Exists
<1>2. CASE ~RemoveProject(c)
  <2>1. owner' = owner
    BY <1>2 DEF Continue, InviteReadsMembers, InviteReadsExisting, InviteWrites, WritesInvite,
           SendInvitationEmail, Revoke, Accept, Resend, Decline, MarkExpired, AnswerAs,
           UpdateRole, RemoveMember, Fails, told, rows
  <2>2. QED
    BY <2>1 DEF Exists
<1>3. QED
  BY <1>1, <1>2

\* No step but an update gives a member another role.
LEMMA RolesOfMembers ==
    ASSUME Tables, NEW c \in Callers, Continue(c), ~UpdateRole(c),
           NEW p \in Projects, NEW u \in People, IsMember(p, u), IsMember(p, u)'
    PROVE  members'[p][u] = members[p][u]
<1>1. CASE RemoveProject(c)
  BY <1>1 DEF RemoveProject, Cascade, IsMember
<1>2. CASE Accept(c)
  <2> DEFINE r == call[c]
  <2>1. members' = [members EXCEPT ![r.project][r.user] = UpsertedRole(r)]
    BY <1>2 DEF Accept, Joins, SetRole
  <2>2. CASE p = r.project /\ u = r.user
    BY <2>1, <2>2 DEF Tables, UpsertedRole
  <2>3. CASE ~(p = r.project /\ u = r.user)
    BY <2>1, <2>3 DEF Tables
  <2>4. QED
    BY <2>2, <2>3
<1>3. CASE RemoveMember(c)
  BY <1>3 DEF RemoveMember, SetRole, IsMember, Tables
<1>4. CASE ~RemoveProject(c) /\ ~Accept(c) /\ ~RemoveMember(c)
  <2>1. members' = members
    BY <1>4 DEF Continue, InviteReadsMembers, InviteReadsExisting, InviteWrites, WritesInvite,
           SendInvitationEmail, Revoke, Resend, Decline, MarkExpired, AnswerAs, Fails, told, rows
  <2>2. QED
    BY <2>1
<1>5. QED
  BY <1>1, <1>2, <1>3, <1>4

LEMMA RightStep ==
    ASSUME Tables, Handlers, RightInv, [Next]_vars, asked' \in Nat
    PROVE  RightInv'
<1> USE DEF RightInv
<1>k. ASSUME KeepsOffers, asked <= asked', revoked' = revoked PROVE RowIds' /\ RevokedIds'
  <2>1. RowIds'
    <3> SUFFICES ASSUME NEW p \in Projects, NEW q \in Projects, NEW u \in People,
                        NEW v \in People, invites'[p][u] # NoInvite
                 PROVE  /\ invites'[p][u].id <= asked' /\ invites'[p][u].id \notin revoked'
                        /\ invites'[q][v] # NoInvite /\ invites'[p][u].id = invites'[q][v].id
                              => p = q /\ u = v
      BY DEF RowIds
    <3>1. /\ invites[p][u] # NoInvite /\ invites'[p][u].id = invites[p][u].id
          /\ invites'[q][v] # NoInvite =>
                invites[q][v] # NoInvite /\ invites'[q][v].id = invites[q][v].id
      BY <1>k DEF KeepsOffers, SameOffer
    <3>2. invites[p][u].id \in Nat
      BY <3>1 DEF Tables, Row
    <3>3. QED
      BY <1>k, <3>1, <3>2 DEF RowIds, Tables
  <2>2. RevokedIds'
    BY <1>k DEF RevokedIds, Tables
  <2>3. QED
    BY <2>1, <2>2
<1>1. ASSUME NEW c \in Callers, Request(c) PROVE RightInv'
  <2>1. /\ UNCHANGED <<owner, made, invites, offered, revoked>>
        /\ asked' = asked + 1
        /\ \A d \in Callers \ {c} : call'[d] = call[d]
        /\ call'[c].at \in Drafting => call'[c].token = asked + 1
    BY <1>1, BeginsKeepsRows, RequestMoves
  <2>2. KeepsOffers /\ asked <= asked'
    BY <2>1 DEF KeepsOffers, SameOffer, Tables
  <2>3. RowIds' /\ RevokedIds'
    BY <2>1, <2>2, <1>k
  <2>4. DraftIds'
    <3> SUFFICES ASSUME NEW e \in Callers, NEW d \in Callers, call'[e].at \in Drafting
                 PROVE  /\ call'[e].token <= asked' /\ call'[e].token \notin revoked'
                        /\ \A p \in Projects, u \in People :
                              invites'[p][u] # NoInvite => invites'[p][u].id # call'[e].token
                        /\ call'[d].at \in Drafting /\ call'[d].token = call'[e].token => e = d
      BY DEF DraftIds
    <3>1. \A x \in Callers : call[x].at \in Drafting => call[x].token \in Nat
      BY DEF Handlers, InHand
    <3>2. CASE e = c
      <4>1. call'[e].token = asked + 1
        BY <2>1, <3>2
      <4>2. \A p \in Projects, u \in People :
               invites[p][u] # NoInvite => invites[p][u].id \in Nat /\ invites[p][u].id <= asked
        BY DEF RowIds, Tables, Row
      <4>3. \A x \in Callers : call[x].at \in Drafting => call[x].token <= asked
        BY DEF DraftIds
      <4>4. QED
        BY <2>1, <3>1, <3>2, <4>1, <4>2, <4>3 DEF RevokedIds, Tables
    <3>3. CASE e # c
      <4>1. /\ call'[e] = call[e] /\ call[e].token <= asked /\ call[e].token \in Nat
            /\ call[e].token \notin revoked
            /\ \A p \in Projects, u \in People :
                  invites[p][u] # NoInvite => invites[p][u].id # call[e].token
            /\ call[d].at \in Drafting /\ call[d].token = call[e].token => e = d
        BY <2>1, <3>1, <3>3 DEF DraftIds
      <4>2. CASE d = c
        BY <2>1, <4>1, <4>2 DEF Tables
      <4>3. CASE d # c
        BY <2>1, <4>1, <4>3 DEF Tables
      <4>4. QED
        BY <4>2, <4>3
    <3>4. QED
      BY <3>2, <3>3
  <2>5. Made'
    BY <2>1 DEF Made, Exists
  <2>6. QED
    BY <2>3, <2>4, <2>5
<1>2. ASSUME NEW c \in Callers, Continue(c) PROVE RightInv'
  <2> DEFINE r == call[c]
  <2>0. InHand(r)
    BY DEF Handlers
  <2>1. /\ UNCHANGED <<asked, made>>
        /\ \A d \in Callers \ {c} : call'[d] = call[d]
        /\ call'[c].at \in Drafting => r.at \in Drafting /\ call'[c].token = r.token
    BY <1>2, ContinueMoves
  <2>2. Made'
    BY <1>2, <2>1, OwnersByRemoval DEF Made
  <2>d. \A e \in Callers : call'[e].at \in Drafting =>
           call[e].at \in Drafting /\ call'[e].token = call[e].token
    BY <2>1
  <2>3. CASE InviteWrites(c)
    <3> DEFINE id == IF r.existing = 0 THEN r.token ELSE r.existing
               row == [id |-> id, token |-> r.token, role |-> r.role,
                       status |-> "pending", by |-> r.by, lapsed |-> FALSE]
               old == invites[r.project][r.to]
    <3>1. /\ r.at \in Drafting /\ r.project \in Projects /\ r.to \in People
          /\ r.token \in Nat /\ r.existing \in Nat
          /\ IF r.existing = 0 THEN old = NoInvite ELSE old # NoInvite /\ old.id = r.existing
          /\ invites' = [invites EXCEPT ![r.project][r.to] = row]
          /\ call'[c].at = "mail" /\ revoked' = revoked
      BY <2>3, <2>0 DEF InviteWrites, WritesInvite, SetInvite, InHand, At, Drafting, Goes,
                        Becomes, Handlers
    <3>2. /\ invites'[r.project][r.to] = row /\ row.id = id
          /\ \A q \in Projects, v \in People :
                q # r.project \/ v # r.to => invites'[q][v] = invites[q][v]
      BY <3>1 DEF Tables
    <3>3. /\ id <= asked /\ id \notin revoked
          /\ \A q \in Projects, v \in People :
                /\ q # r.project \/ v # r.to
                /\ invites[q][v] # NoInvite
                => invites[q][v].id # id
          /\ \A d \in Callers \ {c} : call[d].at \in Drafting => call[d].token # id
      <4>1. CASE r.existing = 0
        BY <3>1, <4>1 DEF DraftIds
      <4>2. CASE r.existing # 0
        <5>1. id = old.id /\ old # NoInvite
          BY <3>1, <4>2
        <5>2. QED
          BY <3>1, <5>1 DEF RowIds, DraftIds
      <4>3. QED
        BY <4>1, <4>2
    <3> HIDE DEF id, row
    <3>4. RowIds'
      <4> SUFFICES ASSUME NEW p \in Projects, NEW q \in Projects, NEW u \in People,
                          NEW v \in People, invites'[p][u] # NoInvite
                   PROVE  /\ invites'[p][u].id <= asked' /\ invites'[p][u].id \notin revoked'
                          /\ invites'[q][v] # NoInvite /\ invites'[p][u].id = invites'[q][v].id
                                => p = q /\ u = v
        BY DEF RowIds
      <4>1. CASE p = r.project /\ u = r.to
        BY <2>1, <3>1, <3>2, <3>3, <4>1
      <4>2. CASE ~(p = r.project /\ u = r.to)
        <5>1. invites'[p][u] = invites[p][u]
          BY <3>2, <4>2
        <5>2. invites[p][u].id <= asked /\ invites[p][u].id \notin revoked
          BY <5>1 DEF RowIds
        <5>3. CASE q = r.project /\ v = r.to
          BY <2>1, <3>1, <3>2, <3>3, <4>2, <5>1, <5>2, <5>3
        <5>4. CASE ~(q = r.project /\ v = r.to)
          BY <2>1, <3>1, <3>2, <5>1, <5>2, <5>4 DEF RowIds
        <5>5. QED
          BY <5>3, <5>4
      <4>3. QED
        BY <4>1, <4>2
    <3>5. DraftIds'
      <4> SUFFICES ASSUME NEW e \in Callers, NEW d \in Callers, call'[e].at \in Drafting
                   PROVE  /\ call'[e].token <= asked' /\ call'[e].token \notin revoked'
                          /\ \A p \in Projects, u \in People :
                                invites'[p][u] # NoInvite => invites'[p][u].id # call'[e].token
                          /\ call'[d].at \in Drafting /\ call'[d].token = call'[e].token => e = d
        BY DEF DraftIds
      <4>1. e # c /\ call'[e] = call[e]
        BY <2>1, <3>1 DEF Drafting
      <4>2. /\ call[e].token <= asked /\ call[e].token \notin revoked /\ call[e].token # id
            /\ \A p \in Projects, u \in People :
                  invites[p][u] # NoInvite => invites[p][u].id # call[e].token
            /\ call[d].at \in Drafting /\ call[d].token = call[e].token => e = d
        BY <4>1, <3>3 DEF DraftIds
      <4>3. \A p \in Projects, u \in People :
               invites'[p][u] # NoInvite => invites'[p][u].id # call'[e].token
        BY <3>2, <4>1, <4>2
      <4>4. QED
        BY <2>1, <2>d, <3>1, <4>1, <4>2, <4>3
    <3>6. RevokedIds'
      BY <2>1, <3>1 DEF RevokedIds
    <3>7. QED
      BY <2>2, <3>4, <3>5, <3>6
  <2>4. CASE Revoke(c)
    <3>1. /\ r.project \in Projects /\ r.to \in People /\ r.at = "revoke"
          /\ HasRow(r.project, r.to, r.id)
          /\ invites' = [invites EXCEPT ![r.project][r.to] = NoInvite]
          /\ revoked' = revoked \cup {r.id}
      BY <2>4, <2>0 DEF Revoke, SetInvite, InHand, At
    <3>2. /\ invites'[r.project][r.to] = NoInvite
          /\ \A q \in Projects, v \in People :
                q # r.project \/ v # r.to => invites'[q][v] = invites[q][v]
      BY <3>1 DEF Tables
    <3>3. /\ invites[r.project][r.to] # NoInvite /\ invites[r.project][r.to].id = r.id
          /\ r.id \in Nat /\ r.id <= asked
      BY <3>1, IsRow DEF HasRow, RowIds, Row
    <3>4. RowIds'
      <4>1. \A p \in Projects, u \in People : invites'[p][u] # NoInvite =>
               invites'[p][u] = invites[p][u] /\ invites[p][u].id # r.id
        BY <3>1, <3>2, <3>3 DEF RowIds
      <4>2. QED
        BY <2>1, <3>1, <4>1 DEF RowIds
    <3>5. DraftIds'
      <4>1. \A e \in Callers : call[e].at \in Drafting => call[e].token # r.id
        BY <3>1, <3>3 DEF DraftIds
      <4>2. \A p \in Projects, u \in People : invites'[p][u] # NoInvite =>
               invites'[p][u] = invites[p][u]
        BY <3>2
      <4>3. QED
        BY <2>1, <2>d, <3>1, <4>1, <4>2 DEF DraftIds
    <3>6. RevokedIds'
      BY <2>1, <3>1, <3>3 DEF RevokedIds
    <3>7. QED
      BY <2>2, <3>4, <3>5, <3>6
  <2>5. CASE ~InviteWrites(c) /\ ~Revoke(c)
    <3>1. KeepsOffers /\ revoked' = revoked
      BY <1>2, <2>5, ContinueKeepsOffers, RevokesByRevoke
    <3>2. RowIds' /\ RevokedIds'
      BY <2>1, <3>1, <1>k DEF Tables
    <3>3. DraftIds'
      BY <2>1, <2>d, <3>1 DEF DraftIds, KeepsOffers, SameOffer
    <3>4. QED
      BY <2>2, <3>2, <3>3
  <2>6. QED
    BY <2>3, <2>4, <2>5
<1>3. CASE Account
  <2>1. KeepsOffers /\ asked' = asked + 1 /\ UNCHANGED <<call, revoked>>
    BY <1>3, AccountKeepsOffers
  <2>2. RowIds' /\ RevokedIds'
    BY <2>1, <1>k DEF Tables
  <2>3. \A e \in Callers : call[e].at \in Drafting => call[e].token \in Nat
    BY DEF Handlers, InHand
  <2>4. DraftIds'
    BY <2>1, <2>3 DEF DraftIds, KeepsOffers, SameOffer, Tables
  <2>5. Made'
    BY <1>3 DEF Account, DeleteAccount, CreateProject, Lapse, Made, Exists, Tables
  <2>6. QED
    BY <2>2, <2>4, <2>5
<1>4. CASE UNCHANGED vars
  BY <1>4 DEF vars, RowIds, DraftIds, RevokedIds, Made, Exists
<1>5. QED
  BY <1>1, <1>2, <1>3, <1>4 DEF Next

LEMMA Rights == Spec => []RightInv
<1> USE MembershipsAssumption
<1>1. Init => RightInv
  BY DEF Init, RightInv, RowIds, DraftIds, RevokedIds, Made, Exists, Idle, Drafting
<1>2. Tables /\ Handlers /\ (Tables /\ Handlers)' /\ RightInv /\ [Next]_vars => RightInv'
  BY RightStep DEF Tables
<1>3. QED
  BY <1>1, <1>2, Types, PTL DEF Spec

\* A revoked invitation lets nobody join any more, also when it had been
\* loaded before; a member's role changes only to one that an admin set.
THEOREM ChangesByRight == Spec => MembershipsChangeByRight
<1> USE MembershipsAssumption
<1>1. Tables /\ Handlers /\ RightInv /\ RowsAreSound /\ [Next]_vars
        => [RevokedNeverJoins /\ RolesChangeByUpdateOnly]_vars
  <2> SUFFICES ASSUME Tables, Handlers, RightInv, RowsAreSound, Next
               PROVE  RevokedNeverJoins /\ RolesChangeByUpdateOnly
    OBVIOUS
  <2>k. joined' = joined => RevokedNeverJoins
    BY DEF RevokedNeverJoins
  <2>m. members' = members => RolesChangeByUpdateOnly
    BY DEF RolesChangeByUpdateOnly
  <2>1. ASSUME NEW c \in Callers, Request(c) PROVE RevokedNeverJoins /\ RolesChangeByUpdateOnly
    BY <2>1, <2>k, <2>m, BeginsKeepsRows
  <2>2. ASSUME NEW c \in Callers, Continue(c)
        PROVE  RevokedNeverJoins /\ RolesChangeByUpdateOnly
    <3> DEFINE r == call[c]
    <3>0. InHand(r)
      BY DEF Handlers
    <3>1. RevokedNeverJoins
      <4>1. CASE Accept(c)
        <5> DEFINE j == [id |-> r.row.id, token |-> r.row.token, project |-> r.project,
                         user |-> r.user]
        <5>1. joined' = joined \cup {j} /\ HasRow(r.project, r.user, r.row.id)
          BY <4>1 DEF Accept, Joins
        <5>2. r.project \in Projects /\ r.user \in People
          BY <4>1, <3>0 DEF Accept, At, InHand
        <5>3. j.id \notin revoked
          BY <5>1, <5>2 DEF HasRow, RightInv, RowIds
        <5>4. QED
          BY <5>1, <5>3 DEF RevokedNeverJoins
      <4>2. CASE ~Accept(c)
        BY <2>2, <4>2, <2>k, ContinueJoinsByAccept
      <4>3. QED
        BY <4>1, <4>2
    <3>2. RolesChangeByUpdateOnly
      <4>1. CASE UpdateRole(c)
        <5>1. /\ members' = [members EXCEPT ![r.project][r.user] = r.role]
              /\ [project |-> r.project, user |-> r.user, role |-> r.role] \in roleSets'
              /\ r.project \in Projects /\ r.user \in People
          BY <4>1, <3>0 DEF UpdateRole, SetRole, InHand, At
        <5>2. /\ members'[r.project][r.user] = r.role
              /\ \A q \in Projects, v \in People :
                    q # r.project \/ v # r.user => members'[q][v] = members[q][v]
          BY <5>1 DEF Tables
        <5>3. QED
          BY <5>1, <5>2 DEF RolesChangeByUpdateOnly
      <4>2. CASE ~UpdateRole(c)
        BY <2>2, <4>2, RolesOfMembers DEF RolesChangeByUpdateOnly
      <4>3. QED
        BY <4>1, <4>2
    <3>3. QED
      BY <3>1, <3>2
  <2>3. CASE Account
    <3>1. RevokedNeverJoins
      BY <2>3, <2>k, AccountKeepsOffers
    <3>2. ASSUME NEW u \in People, DeleteAccount(u) PROVE RolesChangeByUpdateOnly
      BY <3>2 DEF DeleteAccount, RolesChangeByUpdateOnly, IsMember
    <3>3. ASSUME NEW u \in People, NEW p \in Projects, CreateProject(u, p)
          PROVE  RolesChangeByUpdateOnly
      <4>1. \A v \in People : ~IsMember(p, v)
        BY <3>3 DEF CreateProject, RightInv, Made, RowsAreSound, RowsHaveTheirUsers
      <4>2. \A q \in Projects, v \in People : q # p => members'[q][v] = members[q][v]
        BY <3>3 DEF CreateProject, SetRole, Tables
      <4>3. QED
        BY <4>1, <4>2 DEF RolesChangeByUpdateOnly
    <3>4. ASSUME NEW u \in People, NEW p \in Projects, Lapse(p, u)
          PROVE  RolesChangeByUpdateOnly
      BY <3>4, <2>m DEF Lapse
    <3>5. QED
      BY <2>3, <3>1, <3>2, <3>3, <3>4 DEF Account
  <2>4. QED
    BY <2>1, <2>2, <2>3 DEF Next
<1>2. QED
  BY <1>1, Types, Rights, RowsSound, PTL DEF Spec, MembershipsChangeByRight

-----------------------------------------------------------------------------
(* Roles that were offered.                                                *)

\* Only an acceptance makes a member of one who was none, among the steps of a
\* handler.
LEMMA JoinsByAccept ==
    ASSUME Tables, Handlers, NEW c \in Callers, Continue(c), ~Accept(c),
           NEW p \in Projects, NEW u \in People, ~IsMember(p, u)
    PROVE  ~IsMember(p, u)'
<1> DEFINE r == call[c]
<1>0. InHand(r)
  BY DEF Handlers
<1>1. CASE RemoveProject(c)
  BY <1>1 DEF RemoveProject, Cascade, IsMember
<1>2. CASE UpdateRole(c)
  <2>1. /\ members' = [members EXCEPT ![r.project][r.user] = r.role]
        /\ IsMember(r.project, r.user)
    BY <1>2 DEF UpdateRole, SetRole
  <2>2. ~(p = r.project /\ u = r.user)
    BY <2>1
  <2>3. QED
    BY <2>1, <2>2 DEF Tables, IsMember
<1>3. CASE RemoveMember(c)
  BY <1>3 DEF RemoveMember, SetRole, IsMember, Tables
<1>4. CASE ~RemoveProject(c) /\ ~UpdateRole(c) /\ ~RemoveMember(c)
  <2>1. members' = members
    BY <1>4 DEF Continue, InviteReadsMembers, InviteReadsExisting, InviteWrites, WritesInvite,
           SendInvitationEmail, Revoke, Resend, Decline, MarkExpired, AnswerAs, Fails, told, rows
  <2>2. QED
    BY <2>1 DEF IsMember
<1>5. QED
  BY <1>1, <1>2, <1>3, <1>4

\* Whoever becomes a member got, in the member row, the role an invitation to
\* that address offered.
THEOREM RolesGiven == Spec => RolesAreGiven
<1> USE MembershipsAssumption
<1>1. Init => OfferInv
  BY DEF Init, OfferInv, StoredAsOffered, LoadedAsOffered, Idle
<1>2. Tables /\ Handlers /\ OfferInv /\ [Next]_vars => OfferInv'
  <2> SUFFICES ASSUME Tables, Handlers, StoredAsOffered, LoadedAsOffered, [Next]_vars
               PROVE  OfferInv'
    BY DEF OfferInv
  <2>k. KeepsOffers => StoredAsOffered'
    BY DEF KeepsOffers, SameOffer, StoredAsOffered, Terms
  <2>1. ASSUME NEW c \in Callers, Request(c) PROVE OfferInv'
    <3>1. UNCHANGED <<invites, offered>>
      BY <2>1, BeginsKeepsRows
    <3>2. StoredAsOffered'
      BY <3>1 DEF StoredAsOffered
    <3>3. LoadedAsOffered'
      BY <2>1, <3>1, RequestMoves DEF LoadedAsOffered, StoredAsOffered
    <3>4. QED
      BY <3>2, <3>3 DEF OfferInv
  <2>2. ASSUME NEW c \in Callers, Continue(c) PROVE OfferInv'
    <3> DEFINE r == call[c]
    <3>0. InHand(r)
      BY DEF Handlers
    <3>1. offered \subseteq offered' /\ StoredAsOffered'
      <4>1. CASE InviteWrites(c)
        <5> DEFINE id == IF r.existing = 0 THEN r.token ELSE r.existing
                   row == [id |-> id, token |-> r.token, role |-> r.role,
                           status |-> "pending", by |-> r.by, lapsed |-> FALSE]
        <5>1. /\ r.project \in Projects /\ r.to \in People
              /\ invites' = [invites EXCEPT ![r.project][r.to] = row]
              /\ offered' = offered \cup
                   {[id |-> id, token |-> r.token, project |-> r.project,
                     to |-> r.to, role |-> r.role]}
          BY <4>1, <3>0 DEF InviteWrites, WritesInvite, SetInvite, InHand, At, Drafting
        <5>2. Terms(r.project, r.to, row) \in offered' /\ offered \subseteq offered'
          BY <5>1 DEF Terms
        <5>3. /\ invites'[r.project][r.to] = row
              /\ \A q \in Projects, v \in People :
                    q # r.project \/ v # r.to => invites'[q][v] = invites[q][v]
          BY <5>1 DEF Tables
        <5> HIDE DEF row, id
        <5>4. QED
          BY <5>2, <5>3 DEF StoredAsOffered
      <4>2. CASE ~InviteWrites(c)
        BY <4>2, <2>2, <2>k, ContinueKeepsOffers DEF KeepsOffers
      <4>3. QED
        BY <4>1, <4>2
    <3>2. LoadedAsOffered'
      BY <2>2, <3>1, ContinueMoves DEF LoadedAsOffered
    <3>3. QED
      BY <3>1, <3>2 DEF OfferInv
  <2>3. CASE Account
    <3>1. KeepsOffers /\ UNCHANGED <<call, offered>>
      BY <2>3, AccountKeepsOffers DEF KeepsOffers
    <3>2. QED
      BY <3>1, <2>k DEF OfferInv, LoadedAsOffered
  <2>4. CASE UNCHANGED vars
    BY <2>4 DEF vars, OfferInv, StoredAsOffered, LoadedAsOffered
  <2>5. QED
    BY <2>1, <2>2, <2>3, <2>4 DEF Next
<1>3. Tables /\ Handlers /\ OfferInv /\ RightInv /\ [Next]_vars => [JoinsAsOffered]_vars
  <2> SUFFICES ASSUME Tables, Handlers, LoadedAsOffered, RightInv, Next,
                      NEW p \in Projects, NEW u \in People, ~IsMember(p, u), IsMember(p, u)'
               PROVE  \/ ~Exists(p) /\ owner'[p] = u
                      \/ \E o \in offered :
                            /\ o.project = p /\ o.to = u /\ o.role = members'[p][u]
                            /\ [id |-> o.id, token |-> o.token, project |-> p,
                                user |-> u] \in joined'
    BY DEF OfferInv, JoinsAsOffered
  <2>1. ASSUME NEW c \in Callers, Request(c) PROVE FALSE
    BY <2>1, BeginsKeepsRows DEF IsMember
  <2>2. ASSUME NEW c \in Callers, Accept(c)
        PROVE  \E o \in offered :
                  /\ o.project = p /\ o.to = u /\ o.role = members'[p][u]
                  /\ [id |-> o.id, token |-> o.token, project |-> p, user |-> u] \in joined'
    <3> DEFINE r == call[c]
               o == Terms(r.project, r.user, r.row)
    <3>1. /\ r.at = "accept"
          /\ members' = [members EXCEPT ![r.project][r.user] = UpsertedRole(r)]
          /\ joined' = joined \cup {[id |-> r.row.id, token |-> r.row.token,
                                     project |-> r.project, user |-> r.user]}
      BY <2>2 DEF Accept, Joins, SetRole, At
    <3>2. r.project \in Projects /\ r.user \in People
      BY <3>1 DEF Handlers, InHand
    <3>3. p = r.project /\ u = r.user
      <4>1. members'[p][u] # members[p][u]
        BY DEF IsMember
      <4>2. QED
        BY <3>1, <3>2, <4>1 DEF Tables
    <3>4. members'[p][u] = r.row.role
      <4>1. members'[p][u] = UpsertedRole(r)
        BY <3>1, <3>2, <3>3 DEF Tables
      <4>2. QED
        BY <4>1, <3>3 DEF UpsertedRole, IsMember
    <3>5. o \in offered
      BY <3>1 DEF LoadedAsOffered
    <3>6. /\ o.project = p /\ o.to = u /\ o.role = members'[p][u]
          /\ [id |-> o.id, token |-> o.token, project |-> p, user |-> u] \in joined'
      BY <3>1, <3>3, <3>4 DEF Terms
    <3>7. QED
      BY <3>5, <3>6
  <2>3. ASSUME NEW c \in Callers, Continue(c), ~Accept(c) PROVE FALSE
    BY <2>3, JoinsByAccept
  <2>4. ASSUME NEW v \in People, DeleteAccount(v) PROVE FALSE
    BY <2>4 DEF DeleteAccount, IsMember
  <2>5. ASSUME NEW v \in People, NEW q \in Projects, CreateProject(v, q)
        PROVE  ~Exists(p) /\ owner'[p] = u
    <3>1. /\ q \notin made /\ owner' = [owner EXCEPT ![q] = v]
          /\ members' = [members EXCEPT ![q][v] = "admin"]
      BY <2>5 DEF CreateProject, SetRole
    <3>2. p = q /\ u = v
      <4>1. members'[p][u] # members[p][u]
        BY DEF IsMember
      <4>2. QED
        BY <3>1, <4>1 DEF Tables
    <3>3. QED
      BY <3>1, <3>2 DEF RightInv, Made, Tables
  <2>6. ASSUME NEW v \in People, NEW q \in Projects, Lapse(q, v) PROVE FALSE
    BY <2>6 DEF Lapse, IsMember
  <2>7. QED
    BY <2>1, <2>2, <2>3, <2>4, <2>5, <2>6 DEF Next, Account
<1>4. QED
  BY <1>1, <1>2, <1>3, Types, Rights, PTL DEF Spec, RolesAreGiven
=============================================================================
