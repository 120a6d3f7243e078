---------------------------- MODULE Memberships ----------------------------
(***************************************************************************)
(* Projects, their members and the invitations to join them                *)
(* (backend/src/projects, backend/src/collaboration, ProjectAccessService).*)
(*                                                                         *)
(* A handler first asks assertAccess and then reads and writes, with an    *)
(* await between any two database calls; each caller runs one handler at   *)
(* a time.  A person is known by the email address invitations are sent    *)
(* to.  Time shows only as an invitation's expiry.  A request refused at   *)
(* its first read changes nothing and is not a step.                       *)
(***************************************************************************)
EXTENDS Naturals

CONSTANTS
    People, Projects,
    Nobody,        \* no person: a project that does not exist has no owner
    Callers,       \* requests in progress at one time
    Roles,         \* the collaborator roles, "admin" among them
    MaxRequests    \* bound: requests made and invitations that lapse

ASSUME MembershipsAssumption ==
    /\ Nobody \notin People
    /\ "admin" \in Roles /\ "viewer" \in Roles /\ "none" \notin Roles
    /\ MaxRequests \in Nat

VARIABLES
    accounts,  \* the people who have an account
    owner,     \* projects: the owner of each project
    made,      \* the projects ever created
    members,   \* project_members, unique by project and user
    invites,   \* project_invitations, unique by project and email
    call,      \* the handler each caller is in
    asked,     \* how many requests were made
    mailed,    \* the invitation links that reached an inbox
    offered,   \* history: every invitation written
    joined,    \* history: the invitations accepted, as they were loaded
    revoked,   \* history: the invitation rows that were revoked
    roleSets   \* history: the roles updateRole gave

rows == <<owner, made, members, invites>>
told == <<mailed, offered, joined, revoked, roleSets>>
vars == <<accounts, owner, made, members, invites, call, asked,
          mailed, offered, joined, revoked, roleSets>>

NoRole == "none"
NoInvite == [status |-> "none"]
Serial == 1..MaxRequests   \* ids and tokens are those of the request that drew them
Status == {"pending", "accepted", "declined", "expired"}
InviteRow == [id : Serial, token : Serial, role : Roles, status : Status,
              by : People, lapsed : BOOLEAN]

Idle == [at |-> "idle"]
Call ==
    {Idle}
    \cup [at : {"inviteMembers"}, by : People, project : Projects, to : People,
          role : Roles, token : Serial]
    \cup [at : {"inviteExisting"}, by : People, project : Projects, to : People,
          role : Roles, token : Serial]
    \cup [at : {"inviteWrite"}, by : People, project : Projects, to : People,
          role : Roles, token : Serial, existing : 0..MaxRequests]
    \cup [at : {"mail"}, to : People, token : Serial]
    \cup [at : {"revoke", "resend"}, project : Projects, to : People, id : Serial]
    \cup [at : {"accept"}, user : People, project : Projects, row : InviteRow]
    \cup [at : {"decline", "lapse"}, user : People, project : Projects, id : Serial]
    \cup [at : {"setRole"}, project : Projects, user : People, role : Roles]
    \cup [at : {"remove"}, project : Projects, user : People]
    \cup [at : {"drop"}, project : Projects]

Init ==
    /\ accounts = People
    /\ owner = [p \in Projects |-> Nobody]
    /\ made = {}
    /\ members = [p \in Projects |-> [u \in People |-> NoRole]]
    /\ invites = [p \in Projects |-> [u \in People |-> NoInvite]]
    /\ call = [c \in Callers |-> Idle]
    /\ asked = 0
    /\ mailed = {} /\ offered = {} /\ joined = {}
    /\ revoked = {} /\ roleSets = {}

-----------------------------------------------------------------------------
Exists(p) == owner[p] # Nobody
IsMember(p, u) == members[p][u] # NoRole

\* assertAccess without roles: the owner or any member.
CanRead(p, u) == Exists(p) /\ (owner[p] = u \/ IsMember(p, u))

\* assertAccess(projectId, userId, [Role.admin]).
CanAdminister(p, u) == CanRead(p, u) /\ (owner[p] = u \/ members[p][u] = "admin")

\* findAllForUser lists the projects u owns or is a member of.
ListedFor(u) == {p \in Projects : CanRead(p, u)}

\* members.list and findOne: who the page shows as members.
MembersList(p) == {u \in People : IsMember(p, u)}

\* invitations.findForProject: what an admin can resend or revoke.
FindForProject(p) == {u \in People : invites[p][u] # NoInvite}

\* invitations.findMine: the invitations a person finds on their own page.
FindMine(u) ==
    {p \in Projects : invites[p][u] # NoInvite /\ invites[p][u].status = "pending"
                      /\ ~invites[p][u].lapsed}

At(c, step) == call[c].at = step
Becomes(c, next) == call' = [call EXCEPT ![c] = next]
Goes(c, next) == Becomes(c, next) /\ UNCHANGED <<asked, accounts>>
Ends(c) == Goes(c, Idle)

Counts == asked < MaxRequests /\ asked' = asked + 1

\* A request arrives; its handler has passed its first read.
Begins(c, next) ==
    /\ At(c, "idle")
    /\ Counts
    /\ Becomes(c, next)
    /\ UNCHANGED <<accounts, rows, told>>

SetInvite(p, u, row) == invites' = [invites EXCEPT ![p][u] = row]
SetRole(p, u, role) == members' = [members EXCEPT ![p][u] = role]

-----------------------------------------------------------------------------
(* Projects.                                                               *)

\* create: the project and its owner's member row in one transaction.
CreateProject(u, p) ==
    /\ u \in accounts
    /\ p \notin made
    /\ made' = made \cup {p}
    /\ owner' = [owner EXCEPT ![p] = u]
    /\ SetRole(p, u, "admin")
    /\ Counts
    /\ UNCHANGED <<accounts, invites, call, told>>

\* remove: only the owner, with the password; deleted in a later step.
RemoveProjectBegins(c, u, p) ==
    /\ p \in ListedFor(u)
    /\ owner[p] = u
    /\ Begins(c, [at |-> "drop", project |-> p])

\* Members and invitations cascade.
Cascade(P) ==
    /\ owner' = [p \in Projects |-> IF p \in P THEN Nobody ELSE owner[p]]
    /\ members' = [p \in Projects |->
         IF p \in P THEN [u \in People |-> NoRole] ELSE members[p]]

RemoveProject(c) ==
    /\ At(c, "drop")
    /\ Exists(call[c].project)
    /\ Cascade({call[c].project})
    /\ invites' = [invites EXCEPT ![call[c].project] = [u \in People |-> NoInvite]]
    /\ Ends(c)
    /\ UNCHANGED <<made, told>>

-----------------------------------------------------------------------------
(* Inviting.                                                               *)

InviteBegins(c, by, p, to, role) ==
    /\ CanAdminister(p, by)
    /\ Begins(c, [at |-> "inviteMembers", by |-> by, project |-> p, to |-> to,
                  role |-> role, token |-> asked + 1])

\* "This user is the project owner" and "already a member".
InviteReadsMembers(c) ==
    /\ At(c, "inviteMembers")
    /\ LET r == call[c] IN
       /\ Exists(r.project)
       /\ owner[r.project] # r.to
       /\ ~IsMember(r.project, r.to)
       /\ Goes(c, [r EXCEPT !.at = "inviteExisting"])
    /\ UNCHANGED <<rows, told>>

\* A pending invitation is a conflict; one that ended is reused.
InviteReadsExisting(c) ==
    /\ At(c, "inviteExisting")
    /\ LET r == call[c]  row == invites[r.project][r.to] IN
       /\ row # NoInvite => row.status # "pending"
       /\ Goes(c, [at |-> "inviteWrite", by |-> r.by, project |-> r.project,
                   to |-> r.to, role |-> r.role, token |-> r.token,
                   existing |-> IF row = NoInvite THEN 0 ELSE row.id])
    /\ UNCHANGED <<rows, told>>

WritesInvite(c, role) ==
    /\ At(c, "inviteWrite")
    /\ LET r == call[c]  row == invites[r.project][r.to] IN
       /\ Exists(r.project) /\ r.by \in accounts
       /\ IF r.existing = 0 THEN row = NoInvite
          ELSE row # NoInvite /\ row.id = r.existing
       /\ LET id == IF r.existing = 0 THEN r.token ELSE r.existing IN
          /\ SetInvite(r.project, r.to,
               [id |-> id, token |-> r.token, role |-> role,
                status |-> "pending", by |-> r.by, lapsed |-> FALSE])
          /\ offered' = offered \cup
               {[id |-> id, token |-> r.token, project |-> r.project,
                 to |-> r.to, role |-> r.role]}
       /\ Goes(c, [at |-> "mail", to |-> r.to, token |-> r.token])
    /\ UNCHANGED <<owner, made, members, mailed, joined, revoked, roleSets>>

\* Wrong: a row that is used again keeps the role it had.
InviteWrites_KeepsRole(c) ==
    \/ call[c].at = "inviteWrite" /\ call[c].existing = 0 /\ WritesInvite(c, call[c].role)
    \/ /\ call[c].at = "inviteWrite" /\ call[c].existing # 0
       /\ invites[call[c].project][call[c].to] # NoInvite
       /\ WritesInvite(c, invites[call[c].project][call[c].to].role)

\* The update of the row read before, or a create that may clash.
InviteWrites(c) == At(c, "inviteWrite") /\ WritesInvite(c, call[c].role)

\* sendInvitationEmail: best effort, and skipped for an account that opted out.
SendInvitationEmail(c) ==
    /\ At(c, "mail")
    /\ \/ mailed' = mailed \cup {[to |-> call[c].to, token |-> call[c].token]}
       \/ UNCHANGED mailed
    /\ Ends(c)
    /\ UNCHANGED <<rows, offered, joined, revoked, roleSets>>

RevokeBegins(c, by, p, to) ==
    /\ CanAdminister(p, by)
    /\ to \in FindForProject(p)
    /\ Begins(c, [at |-> "revoke", project |-> p, to |-> to,
                  id |-> invites[p][to].id])

HasRow(p, to, id) == invites[p][to] # NoInvite /\ invites[p][to].id = id

\* deleteMany, whatever the status is by now.
Revoke(c) ==
    /\ At(c, "revoke")
    /\ LET r == call[c] IN
       /\ HasRow(r.project, r.to, r.id)
       /\ SetInvite(r.project, r.to, NoInvite)
       /\ revoked' = revoked \cup {r.id}
    /\ Ends(c)
    /\ UNCHANGED <<owner, made, members, mailed, offered, joined, roleSets>>

ResendBegins(c, by, p, to) ==
    /\ CanAdminister(p, by)
    /\ to \in FindForProject(p)
    /\ Begins(c, [at |-> "resend", project |-> p, to |-> to,
                  id |-> invites[p][to].id])

\* "Deliberately reuses the existing token."
Resend(c) ==
    /\ At(c, "resend")
    /\ LET r == call[c]  row == invites[r.project][r.to] IN
       /\ HasRow(r.project, r.to, r.id)
       /\ row.status = "pending" /\ ~row.lapsed
       /\ Goes(c, [at |-> "mail", to |-> r.to, token |-> row.token])
    /\ UNCHANGED <<rows, told>>

-----------------------------------------------------------------------------
(* Answering.                                                              *)

\* loadForResponse: a person follows the link of a mail, or answers on their
\* Invitations page.
Loads(u, p) ==
    LET row == invites[p][u] IN
    /\ u \in accounts
    /\ row # NoInvite
    /\ row.status = "pending"
    /\ p \in FindMine(u) \/ [to |-> u, token |-> row.token] \in mailed

AcceptLoads(c, u, p) ==
    /\ Loads(u, p)
    /\ LET row == invites[p][u] IN
          IF row.lapsed
          THEN Begins(c, [at |-> "lapse", user |-> u, project |-> p, id |-> row.id])
          ELSE Begins(c, [at |-> "accept", user |-> u, project |-> p, row |-> row])

DeclineLoads(c, u, p) ==
    /\ Loads(u, p)
    /\ Begins(c, [at |-> "decline", user |-> u, project |-> p,
                  id |-> invites[p][u].id])

\* The member row is upserted from the row as it was loaded.
Joins(r, role) ==
    /\ Exists(r.project) /\ r.user \in accounts
    /\ SetRole(r.project, r.user, role)
    /\ joined' = joined \cup {[id |-> r.row.id, token |-> r.row.token,
                               project |-> r.project, user |-> r.user]}

UpsertedRole(r) ==
    IF IsMember(r.project, r.user) THEN members[r.project][r.user] ELSE r.row.role

\* Wrong: the member row is committed although the invitation is gone.
Accept_Unguarded(c) ==
    /\ At(c, "accept")
    /\ LET r == call[c] IN
       /\ Joins(r, UpsertedRole(r))
       /\ IF HasRow(r.project, r.user, r.row.id)
          THEN invites' = [invites EXCEPT ![r.project][r.user].status = "accepted"]
          ELSE UNCHANGED invites
    /\ Ends(c)
    /\ UNCHANGED <<owner, made, mailed, offered, revoked, roleSets>>

\* Wrong: the invitation is marked and the member row is not written.
Accept_OnlyMarks(c) ==
    /\ At(c, "accept")
    /\ LET r == call[c] IN
       /\ HasRow(r.project, r.user, r.row.id)
       /\ invites' = [invites EXCEPT ![r.project][r.user].status = "accepted"]
    /\ Ends(c)
    /\ UNCHANGED <<owner, made, members, mailed, offered, joined, revoked, roleSets>>

\* One transaction: the member row (untouched when there is one already) and
\* the invitation's status; a row that is gone rolls both back.
Accept(c) ==
    /\ At(c, "accept")
    /\ LET r == call[c] IN
       /\ Joins(r, UpsertedRole(r))
       /\ HasRow(r.project, r.user, r.row.id)
       /\ invites' = [invites EXCEPT ![r.project][r.user].status = "accepted"]
    /\ Ends(c)
    /\ UNCHANGED <<owner, made, mailed, offered, revoked, roleSets>>

AnswerAs(c, step, status) ==
    /\ At(c, step)
    /\ LET r == call[c] IN
       /\ HasRow(r.project, r.user, r.id)
       /\ invites' = [invites EXCEPT ![r.project][r.user].status = status]
    /\ Ends(c)
    /\ UNCHANGED <<owner, made, members, told>>

\* decline, and accept of an invitation that has expired: the status is
\* written by id, whatever it is by now.
Decline(c) == AnswerAs(c, "decline", "declined")
MarkExpired(c) == AnswerAs(c, "lapse", "expired")

\* The invitation's week goes by.
Lapse(p, u) ==
    /\ p \in FindMine(u)
    /\ invites' = [invites EXCEPT ![p][u].lapsed = TRUE]
    /\ Counts
    /\ UNCHANGED <<accounts, owner, made, members, call, told>>

-----------------------------------------------------------------------------
(* Members.                                                                *)

UpdateRoleBegins(c, by, p, u, role) ==
    /\ CanAdminister(p, by)
    /\ u \in MembersList(p)
    /\ Begins(c, [at |-> "setRole", project |-> p, user |-> u, role |-> role])

UpdateRole(c) ==
    /\ At(c, "setRole")
    /\ LET r == call[c] IN
       /\ IsMember(r.project, r.user)
       /\ SetRole(r.project, r.user, r.role)
       /\ roleSets' = roleSets \cup
            {[project |-> r.project, user |-> r.user, role |-> r.role]}
    /\ Ends(c)
    /\ UNCHANGED <<owner, made, invites, mailed, offered, joined, revoked>>

RemoveBegins(c, by, p, u) ==
    /\ CanAdminister(p, by)
    /\ u \in MembersList(p)
    /\ Begins(c, [at |-> "remove", project |-> p, user |-> u])

\* leave: the owner cannot.
LeaveBegins(c, u, p) ==
    /\ CanRead(p, u)
    /\ owner[p] # u
    /\ Begins(c, [at |-> "remove", project |-> p, user |-> u])

\* The deleteMany of remove and of leave.
RemoveMember(c) ==
    /\ At(c, "remove")
    /\ IsMember(call[c].project, call[c].user)
    /\ SetRole(call[c].project, call[c].user, NoRole)
    /\ Ends(c)
    /\ UNCHANGED <<owner, made, invites, told>>

-----------------------------------------------------------------------------
(* The account behind it.                                                  *)

OwnedBy(u) == {p \in Projects : owner[p] = u}

\* deleteAccount's transaction: memberships, sent invitations, owned projects
\* (which cascade), the user.  A person who deleted the account stays away.
DeleteAccount(u) ==
    /\ u \in accounts
    /\ accounts' = accounts \ {u}
    /\ owner' = [p \in Projects |-> IF owner[p] = u THEN Nobody ELSE owner[p]]
    /\ members' = [p \in Projects |-> [v \in People |->
         IF p \in OwnedBy(u) \/ v = u THEN NoRole ELSE members[p][v]]]
    /\ invites' = [p \in Projects |-> [v \in People |->
         IF \/ p \in OwnedBy(u)
            \/ invites[p][v] # NoInvite /\ invites[p][v].by = u
         THEN NoInvite ELSE invites[p][v]]]
    /\ Counts
    /\ UNCHANGED <<made, call, told>>

\* A handler ends early: a later check or the database refuses, or the server
\* dies.
Fails(c) ==
    /\ ~At(c, "idle")
    /\ Ends(c)
    /\ UNCHANGED <<rows, told>>

-----------------------------------------------------------------------------
Request(c) == \E u \in People, p \in Projects :
    \/ RemoveProjectBegins(c, u, p)
    \/ AcceptLoads(c, u, p)
    \/ DeclineLoads(c, u, p)
    \/ LeaveBegins(c, u, p)
    \/ \E v \in People :
          \/ RevokeBegins(c, u, p, v)
          \/ ResendBegins(c, u, p, v)
          \/ RemoveBegins(c, u, p, v)
          \/ \E role \in Roles : \/ InviteBegins(c, u, p, v, role)
                                 \/ UpdateRoleBegins(c, u, p, v, role)

Continue(c) ==
    \/ RemoveProject(c) \/ InviteReadsMembers(c) \/ InviteReadsExisting(c)
    \/ InviteWrites(c) \/ SendInvitationEmail(c) \/ Revoke(c) \/ Resend(c)
    \/ Accept(c) \/ Decline(c) \/ MarkExpired(c) \/ UpdateRole(c)
    \/ RemoveMember(c) \/ Fails(c)

Account == \E u \in People :
    \/ DeleteAccount(u)
    \/ \E p \in Projects : CreateProject(u, p) \/ Lapse(p, u)

Next == (\E c \in Callers : Request(c) \/ Continue(c)) \/ Account

Spec == Init /\ [][Next]_vars

-----------------------------------------------------------------------------
TypeOK ==
    /\ accounts \subseteq People
    /\ owner \in [Projects -> People \cup {Nobody}]
    /\ made \subseteq Projects
    /\ members \in [Projects -> [People -> Roles \cup {NoRole}]]
    /\ invites \in [Projects -> [People -> InviteRow \cup {NoInvite}]]
    /\ call \in [Callers -> Call]
    /\ asked \in 0..MaxRequests
    /\ mailed \subseteq [to : People, token : Serial]
    /\ offered \subseteq [id : Serial, token : Serial, project : Projects,
                          to : People, role : Roles]
    /\ joined \subseteq [id : Serial, token : Serial, project : Projects,
                         user : People]
    /\ revoked \subseteq Serial
    /\ roleSets \subseteq [project : Projects, user : People, role : Roles]

\* No row names a project or an account that is gone, however deletions fall
\* between the steps of other handlers.
RowsHaveTheirUsers ==
    \A p \in Projects, u \in People :
       /\ owner[p] \in accounts \cup {Nobody}
       /\ IsMember(p, u) => Exists(p) /\ u \in accounts
       /\ invites[p][u] # NoInvite => Exists(p) /\ invites[p][u].by \in accounts

\* "Becomes a ProjectMember once accepted": an invitation shown as accepted
\* has made its person a member.
AcceptedHasJoined ==
    \A p \in Projects, u \in People :
       invites[p][u] # NoInvite /\ invites[p][u].status = "accepted" =>
          \E j \in joined : j.id = invites[p][u].id /\ j.user = u /\ j.project = p

\* An invitation that was revoked lets nobody join any more, even if it was
\* loaded before.
RevokedNeverJoins == \A j \in joined' \ joined : j.id \notin revoked

\* Whoever becomes a member does so by creating the project, or by accepting
\* an invitation written for that address and that project; and the member row
\* then holds the role that invitation offered, not one of the invitation that
\* was written over it since it was loaded.
JoinsAsOffered ==
    \A p \in Projects, u \in People :
       ~IsMember(p, u) /\ IsMember(p, u)' =>
          \/ ~Exists(p) /\ owner'[p] = u
          \/ \E o \in offered :
                /\ o.project = p /\ o.to = u /\ o.role = members'[p][u]
                /\ [id |-> o.id, token |-> o.token, project |-> p, user |-> u] \in joined'

\* "Re-accepting is harmless": the role of a member changes only to what an
\* admin set.
RolesChangeByUpdateOnly ==
    \A p \in Projects, u \in People :
       IsMember(p, u) /\ IsMember(p, u)' /\ members'[p][u] # members[p][u] =>
          [project |-> p, user |-> u, role |-> members'[p][u]] \in roleSets'

\* The rows of a project are about people who have accounts, and an accepted
\* invitation stands for a person who joined.
RowsAreSound == RowsHaveTheirUsers /\ AcceptedHasJoined

\* The role a member row begins with is the one that was offered.
RolesAreGiven == [][JoinsAsOffered]_vars

\* Memberships begin and change by a right that still stands.
MembershipsChangeByRight == [][RevokedNeverJoins /\ RolesChangeByUpdateOnly]_vars
=============================================================================
