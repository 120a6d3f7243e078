--------------------------- MODULE WebOperations ---------------------------
(* The operations of the web client: for each, which page offers it to whom,  *)
(* what the backend asks before it obeys, what it changes there, and what the *)
(* page does to its cache of answers when the operation succeeds.             *)
(*                                                                            *)
(* One project, one run s of it, the run r a replay creates, and another run  *)
(* o of the family of s: the run they both replay, or that one replays of the *)
(* other.                                                                     *)
(* WebCache has the machine these tables drive.                               *)
EXTENDS Sequences, SequencesExt

------------------------------------------------------------------------------
(* The keys of the cache.  A prefix of a key stands for all below it. *)

Me            == <<"me">>
MyInvitations == <<"my-invitations">>
LlmSettings   == <<"admin", "llm-settings">>
ProjectsList  == <<"projects", "list">>
Detail        == <<"projects", "detail", "p">>
Part(name)    == Detail \o <<name>>
SuitesList    == Part("suites") \o <<"list">>
Suite(s)      == Part("suites") \o <<"detail", s>>
PartOfSuite(s, name) == Suite(s) \o <<name>>

Covered(prefixes, k) == \E p \in prefixes : IsPrefix(p, k)

------------------------------------------------------------------------------
(* Roles.  An owner is one whatever row of the member table is theirs. *)

Roles == {"owner", "admin", "tester", "viewer", "none"}

\* What the pages take from the loaded project.
CanManage(role) == role \in {"owner", "admin"}
CanRun(role)    == CanManage(role) \/ role = "tester"

\* What the backend asks: any member reads, writes name the roles they take.
AssertAccess(role, mutating) ==
    /\ role # "none"
    /\ mutating # {} => role = "owner" \/ role \in mutating

------------------------------------------------------------------------------
(* The operations.  changes: keys whose answer the backend gives differently  *)
(* afterwards; sets: keys the page fills from the reply; invalidates and      *)
(* removes: prefixes; guesses: keys written before the reply, rolled back     *)
(* when it is an error; afterwards: prefixes invalidated whatever the reply;  *)
(* refetches: keys asked for again; ends: the page signs its user out.        *)

Plain == [changes |-> {}, sets |-> {}, invalidates |-> {}, removes |-> {},
          guesses |-> {}, afterwards |-> {}, refetches |-> {}, ends |-> FALSE]

SaveProject == [Plain EXCEPT !.changes = {ProjectsList, Detail}, !.sets = {Detail},
                             !.invalidates = {ProjectsList}]

CreateProject == [Plain EXCEPT !.changes = {ProjectsList}, !.invalidates = {ProjectsList}]

\* The same form, opened on a page of the project.
SaveProjectHere == [SaveProject EXCEPT !.refetches = {Detail}]

DeleteProject == [Plain EXCEPT !.changes = {ProjectsList, Detail, SuitesList},
                               !.removes = {Detail}, !.invalidates = {ProjectsList}]

\* The member list shows the new role at once; answered or refused, it is
\* asked for again.  The project itself, which names the roles too, is not.
ChangeRole == [Plain EXCEPT !.changes = {Part("members"), Detail},
                            !.guesses = {Part("members")},
                            !.afterwards = {Part("members")}]

RemoveMember == [Plain EXCEPT !.changes = {Part("members"), Detail, ProjectsList},
                              !.invalidates = {Part("members"), Detail, ProjectsList}]

LeaveProject == [Plain EXCEPT !.changes = {Detail, ProjectsList, Part("members")},
                              !.removes = {Detail}, !.invalidates = {ProjectsList}]

InviteMember == [Plain EXCEPT !.changes = {Part("invitations")},
                              !.invalidates = {Part("invitations")}]

RevokeInvitation == [Plain EXCEPT !.changes = {Part("invitations")},
                                  !.invalidates = {Part("invitations")}]

AcceptInvitation == [Plain EXCEPT !.changes = {MyInvitations, ProjectsList},
                                  !.invalidates = {MyInvitations, ProjectsList},
                                  !.afterwards = {MyInvitations}]

DeclineInvitation == [Plain EXCEPT !.changes = {MyInvitations},
                                   !.invalidates = {MyInvitations}]

CreateRun == [Plain EXCEPT !.changes = {SuitesList, ProjectsList, Suite("r")},
                           !.sets = {Suite("r")}, !.invalidates = {SuitesList, ProjectsList}]

\* The histories that show a run are not asked for again when it starts, and
\* neither are the requests kept of the run that failed before.
StartSuite == [Plain EXCEPT
    !.changes = {Suite("s"), SuitesList, ProjectsList, PartOfSuite("s", "history"),
                 PartOfSuite("o", "history"), PartOfSuite("s", "log-summary")},
    !.sets = {Suite("s")}, !.invalidates = {SuitesList, ProjectsList}]

ReplayRun_KeepsHistory == [Plain EXCEPT
    !.changes = {Suite("r"), SuitesList, ProjectsList, PartOfSuite("s", "history"),
                 PartOfSuite("o", "history")},
    !.sets = {Suite("r")}, !.invalidates = {SuitesList, ProjectsList}]

\* The new run joins the history of every run of the family; asked for again is
\* that of the run the button was on.
ReplayRun == [Plain EXCEPT
    !.changes = {Suite("r"), SuitesList, ProjectsList, PartOfSuite("s", "history"),
                 PartOfSuite("o", "history")},
    !.sets = {Suite("r")},
    !.invalidates = {SuitesList, PartOfSuite("s", "history"), ProjectsList}]

ExplainFailures == [Plain EXCEPT !.changes = {PartOfSuite("s", "report")},
                                 !.invalidates = {PartOfSuite("s", "report")}]

DescribeRequests == [Plain EXCEPT !.changes = {PartOfSuite("s", "logs") \o <<"page1">>},
                                  !.invalidates = {PartOfSuite("s", "logs")}]

\* A run takes its replays with it, and leaves the histories of the others.
DeleteRun == [Plain EXCEPT !.changes = {Suite("s"), SuitesList, ProjectsList,
                                        PartOfSuite("s", "report"), Suite("o"),
                                        PartOfSuite("o", "report"),
                                        PartOfSuite("o", "history")},
                           !.removes = {Suite("s")}, !.invalidates = {SuitesList, ProjectsList}]

\* The specification is answered with the number of the project's endpoints.
AddEndpoint == [Plain EXCEPT !.changes = {Part("endpoints"), Part("spec")},
                             !.invalidates = {Part("endpoints")}]

\* The endpoint takes its test cases with it, and the captured requests lose
\* theirs: reports and requests of earlier runs are answered differently.
OfEarlierRuns == {PartOfSuite("s", "report"), PartOfSuite("s", "log-summary")}

DeleteEndpoint == [Plain EXCEPT !.changes = {Part("endpoints"), Part("spec")} \cup OfEarlierRuns,
                                !.guesses = {Part("endpoints")},
                                !.afterwards = {Part("endpoints")}]

\* A new specification replaces the endpoints, and with them the test cases.
UploadSpec == [Plain EXCEPT
    !.changes = {Part("spec"), Part("endpoints"), Part("graph"), ProjectsList}
                  \cup OfEarlierRuns,
    !.invalidates = {Part("spec"), Part("endpoints"), Part("graph"), ProjectsList}]

DeleteSpec == [Plain EXCEPT
    !.changes = {Part("spec"), ProjectsList},
    !.invalidates = {Part("spec"), Part("endpoints"), Part("graph"), ProjectsList}]

StartGeneration == [Plain EXCEPT !.changes = {Part("generation"), ProjectsList},
                                 !.sets = {Part("generation")},
                                 !.invalidates = {ProjectsList}]

ApplyGeneration == [Plain EXCEPT
    !.changes = {Part("generation"), Part("spec"), Part("endpoints"), Part("graph"),
                 ProjectsList} \cup OfEarlierRuns,
    !.sets = {Part("generation")},
    !.invalidates = {Part("spec"), Part("endpoints"), Part("graph"), ProjectsList}]

DiscardGeneration == [Plain EXCEPT !.changes = {Part("generation"), ProjectsList},
                                   !.sets = {Part("generation")},
                                   !.invalidates = {ProjectsList}]

BuildGraph == [Plain EXCEPT !.changes = {Part("graph")}, !.sets = {Part("graph")}]

SaveLlmSettings == [Plain EXCEPT !.changes = {LlmSettings}, !.sets = {LlmSettings}]

SaveProfile == [Plain EXCEPT !.changes = {Me}, !.sets = {Me}]

SaveNotifications == [Plain EXCEPT !.changes = {Me}, !.guesses = {Me}, !.sets = {Me}]

ChangePassword == [Plain EXCEPT !.ends = TRUE]

DeleteAccount == [Plain EXCEPT !.ends = TRUE]

Browse == Plain

Effects == [browse |-> Browse,
    createProject |-> CreateProject, saveProject |-> SaveProject,
    saveProjectHere |-> SaveProjectHere, deleteProject |-> DeleteProject, changeRole |-> ChangeRole,
    removeMember |-> RemoveMember, leaveProject |-> LeaveProject,
    inviteMember |-> InviteMember, revokeInvitation |-> RevokeInvitation,
    acceptInvitation |-> AcceptInvitation, declineInvitation |-> DeclineInvitation,
    createRun |-> CreateRun, startRun |-> StartSuite, replayRun |-> ReplayRun,
    explainFailures |-> ExplainFailures, describeRequests |-> DescribeRequests,
    deleteRun |-> DeleteRun, addEndpoint |-> AddEndpoint, deleteEndpoint |-> DeleteEndpoint,
    uploadSpec |-> UploadSpec, deleteSpec |-> DeleteSpec,
    startGeneration |-> StartGeneration, applyGeneration |-> ApplyGeneration,
    discardGeneration |-> DiscardGeneration, buildGraph |-> BuildGraph,
    saveLlmSettings |-> SaveLlmSettings, saveProfile |-> SaveProfile,
    saveNotifications |-> SaveNotifications, changePassword |-> ChangePassword,
    deleteAccount |-> DeleteAccount]

\* The answers an operation makes old that its page leaves as they are until
\* they age, half a minute in which they pass for fresh: the project's roles; the
\* number of endpoints beside the specification; reports and requests of earlier
\* runs once endpoint rows go, or of the run that is started again; the histories
\* that show the run; and a deleted run's replays, with what is shown of them.
\* The list is what the operations change, above, less what their pages refresh;
\* the report or the counts of a run stand for its other answers.
LeftToAge ==
    {<<"changeRole", Detail>>, <<"addEndpoint", Part("spec")>>, <<"deleteEndpoint", Part("spec")>>}
      \cup {"deleteEndpoint", "uploadSpec", "applyGeneration"} \X OfEarlierRuns
      \cup {<<"startRun", PartOfSuite("s", "history")>>,
            <<"startRun", PartOfSuite("s", "log-summary")>>}
      \cup {"startRun", "replayRun", "deleteRun"} \X {PartOfSuite("o", "history")}
      \cup {"deleteRun"} \X {Suite("o"), PartOfSuite("o", "report")}
------------------------------------------------------------------------------
(* What a page offers.  role is the role the loaded project gives the user;   *)
(* status is that of what the page is about: the suite, the generation or     *)
(* the graph.                                                                 *)

ProjectsOffers(role) ==
    {"createProject"} \cup (IF role = "owner" THEN {"saveProject", "deleteProject"} ELSE {})

ProjectOffers(role) == IF role = "owner" THEN {"saveProjectHere", "deleteProject"} ELSE {}

\* The owner has no row in the list, so nobody's row offers them to leave.
TeamMembersOffers(role) ==
    (IF CanManage(role) THEN {"changeRole", "removeMember"} ELSE {})
      \cup (IF role \notin {"owner", "none"} THEN {"leaveProject"} ELSE {})

TeamInvitationsOffers(role) ==
    IF CanManage(role) THEN {"inviteMember", "revokeInvitation"} ELSE {}

InvitationsOffers == {"acceptInvitation", "declineInvitation"}

RunsOffers_ToRunners(role) == IF CanRun(role) THEN {"createRun", "deleteRun"} ELSE {}

RunsOffers(role) ==
    (IF CanRun(role) THEN {"createRun"} ELSE {})
      \cup (IF CanManage(role) THEN {"deleteRun"} ELSE {})

RunOffers(role, status) ==
    IF ~CanRun(role) THEN {}
    ELSE CASE status \in {"pending", "failed"} -> {"startRun"}
           [] status = "completed" -> {"explainFailures", "describeRequests", "replayRun"}
           [] OTHER -> {}

EndpointsOffers(role) == IF CanManage(role) THEN {"addEndpoint", "deleteEndpoint"} ELSE {}

\* The file tab of the specification page; the other tab is the panel below.
SpecOffers(role) == IF CanManage(role) THEN {"uploadSpec", "deleteSpec"} ELSE {}

GenerationOffers(role, status) ==
    IF ~CanManage(role) THEN {}
    ELSE CASE status \in {"running", "pending", "failed"} -> {"discardGeneration"}
           [] status = "completed" -> {"applyGeneration", "discardGeneration"}
           [] OTHER -> {"startGeneration"}

GraphOffers(role, status) ==
    IF CanRun(role) /\ status # "running" THEN {"buildGraph"} ELSE {}

SettingsOffers == {"saveProfile", "saveNotifications", "changePassword", "deleteAccount"}

LlmSettingsOffers(isAdmin) == IF isAdmin THEN {"saveLlmSettings"} ELSE {}

Offers(role, status) == [
    projects    |-> ProjectsOffers(role),
    overview    |-> ProjectOffers(role),
    team        |-> TeamMembersOffers(role) \cup TeamInvitationsOffers(role),
    invitations |-> InvitationsOffers,
    runs        |-> RunsOffers(role),
    run         |-> RunOffers(role, status),
    endpoints   |-> EndpointsOffers(role),
    spec        |-> SpecOffers(role),
    generation  |-> GenerationOffers(role, status),
    graph       |-> GraphOffers(role, status),
    settings    |-> SettingsOffers,
    llm         |-> LlmSettingsOffers(TRUE)]

Screens == DOMAIN Offers("owner", "none")

\* The answer on whose rows, or in whose form, the button is.
RowsOf(op) ==
    CASE op \in {"changeRole", "removeMember", "leaveProject"}   -> {Part("members")}
      [] op = "revokeInvitation"                                -> {Part("invitations")}
      [] op \in {"acceptInvitation", "declineInvitation"}       -> {MyInvitations}
      [] op = "deleteRun"                                       -> {SuitesList}
      [] op = "deleteEndpoint"                                  -> {Part("endpoints")}
      [] op \in {"uploadSpec", "deleteSpec"}                    -> {Part("spec")}
      [] op = "saveLlmSettings"                                 -> {LlmSettings}
      [] op \in {"saveProfile", "saveNotifications"}            -> {Me}
      [] OTHER                                                  -> {}

\* The screens an operation is offered on, to some user in some state.
ScreensOf(op) ==
    {s \in Screens : \E role \in Roles, status \in {"none", "pending", "completed"} :
                        op \in Offers(role, status)[s]}

------------------------------------------------------------------------------
(* What the backend asks of role and status before it obeys, and whether what *)
(* the operation works on is there: an endpoint to test, a specification,     *)
(* captured requests to send again, a key for the language model.  What it    *)
(* asks of the rest of a request (a name, a file, a password), and whether    *)
(* the row it names is still there, is left out.                              *)

\* The operations the pages offer without looking whether it is there.
OfferedBlindly ==
    {"createRun", "startRun", "replayRun", "explainFailures", "describeRequests", "buildGraph"}

RunAdmits(role, status, spec) ==
    AssertAccess(role, {"admin", "tester"}) /\ status # "running" /\ spec

ReplayAdmits(role, status, captured) ==
    AssertAccess(role, {"admin", "tester"}) /\ status # "running" /\ captured

ExplainAdmits(role, status, key) ==
    AssertAccess(role, {"admin", "tester"}) /\ status = "completed" /\ key

DescribeAdmits(role, key) == AssertAccess(role, {"admin", "tester"}) /\ key

CreateRunAdmits(role, endpoints) == AssertAccess(role, {"admin", "tester"}) /\ endpoints

DeleteRunAdmits(role) == AssertAccess(role, {"admin"})

AddEndpointAdmits(role) == AssertAccess(role, {"admin"})

DeleteEndpointAdmits(role) == AssertAccess(role, {"admin"})

UploadSpecAdmits(role) == AssertAccess(role, {"admin"})

DeleteSpecAdmits(role) == AssertAccess(role, {"admin"})

GenerateAdmits(role, status) == AssertAccess(role, {"admin"}) /\ status # "running"

ApplyAdmits(role, status) == AssertAccess(role, {"admin"}) /\ status = "completed"

DiscardAdmits(role, status) == AssertAccess(role, {"admin"}) /\ status # "none"

BuildAdmits(role, status, spec) ==
    AssertAccess(role, {"admin", "tester"}) /\ status # "running" /\ spec

ChangeRoleAdmits(role) == AssertAccess(role, {"admin"})

RemoveMemberAdmits(role) == AssertAccess(role, {"admin"})

LeaveAdmits(role) == AssertAccess(role, {}) /\ role # "owner"

InviteAdmits(role) == AssertAccess(role, {"admin"})

RevokeAdmits(role) == AssertAccess(role, {"admin"})

SaveProjectAdmits(role) == role = "owner"

DeleteProjectAdmits(role) == role = "owner"

\* Operations on the user's own account, and on invitations, ask no role.
Admits(op, role, status, has) ==
    CASE op = "startRun"          -> RunAdmits(role, status, has)
      [] op = "replayRun"         -> ReplayAdmits(role, status, has)
      [] op = "explainFailures"   -> ExplainAdmits(role, status, has)
      [] op = "describeRequests"  -> DescribeAdmits(role, has)
      [] op = "createRun"         -> CreateRunAdmits(role, has)
      [] op = "deleteRun"         -> DeleteRunAdmits(role)
      [] op = "addEndpoint"       -> AddEndpointAdmits(role)
      [] op = "deleteEndpoint"    -> DeleteEndpointAdmits(role)
      [] op = "uploadSpec"        -> UploadSpecAdmits(role)
      [] op = "deleteSpec"        -> DeleteSpecAdmits(role)
      [] op = "startGeneration"   -> GenerateAdmits(role, status)
      [] op = "applyGeneration"   -> ApplyAdmits(role, status)
      [] op = "discardGeneration" -> DiscardAdmits(role, status)
      [] op = "buildGraph"        -> BuildAdmits(role, status, has)
      [] op = "changeRole"        -> ChangeRoleAdmits(role)
      [] op = "removeMember"      -> RemoveMemberAdmits(role)
      [] op = "leaveProject"      -> LeaveAdmits(role)
      [] op = "inviteMember"      -> InviteAdmits(role)
      [] op = "revokeInvitation"  -> RevokeAdmits(role)
      [] op \in {"saveProject", "saveProjectHere"} -> SaveProjectAdmits(role)
      [] op = "deleteProject"     -> DeleteProjectAdmits(role)
      [] OTHER                    -> TRUE
=============================================================================
