----------------------------- MODULE AppAccess -----------------------------
(***************************************************************************)
(* Who may use one application, and what it is told about them: direct and *)
(* group assignments with their instants, the application's policy, its    *)
(* roles, the access requests of its users and the delegates who answer    *)
(* them. The application has an OpenID client, whose tokens carry roles,   *)
(* and a provisioning connection, to which the desired state is queued.    *)
(*                                                                         *)
(* A store method is one transaction and one action. RunDueExpiries is one *)
(* transaction per row it listed, so administrators act between them.      *)
(***************************************************************************)
EXTENDS Naturals, FiniteSets

CONSTANTS
    Users,
    Roles,
    Root,           \* a global administrator, never one of Users
    Holders0,       \* the users that may hold a bounded grant or membership at the start
    MaxChanges      \* bound: administrative changes, requests and restarts

ASSUME RootAssumption == Root \notin Users
ASSUME RoleAssumption == "global" \notin Roles
ASSUME StartAssumption == Holders0 \subseteq Users
ASSUME ChangesAssumption == MaxChanges \in Nat

VARIABLES
    active,     \* accounts with status active
    app,        \* access_mode, enabled and requestable of the app_registry row
    direct,     \* app_user_assignments
    member,     \* group_memberships of the one group
    assigned,   \* app_group_assignments: the group is assigned to the application
    roles,      \* app_roles
    roleUsers,  \* app_role_user_assignments
    roleGroups, \* app_role_group_assignments: the roles mapped to the group
    owners,     \* admin_delegations of kind app_owner
    request,    \* the latest access request of each user
    token,      \* the unrevoked token of each user, and the roles it was issued with
    sent,       \* sync_resource_state: the last desired state queued for each user
    sweep,      \* the pass of RunDueExpiries in progress
    changes

policy == <<active, app, assigned, roles, roleUsers, roleGroups, owners>>
accessVars == <<active, app, direct, member, assigned, roles, roleUsers, roleGroups, owners,
          request, token, sent, sweep, changes>>

-----------------------------------------------------------------------------
Instants == {"none", "bounded", "lapsed", "unbounded"}
Live == {"bounded", "unbounded"}
Decided == {"approved", "denied", "cancelled", "expired"}

\* What a token or the connection was told. "missed" is a ghost: the user's roles changed
\* while a lapse waited for its follow-up, and nothing was sent or revoked for it.
Told == [on : BOOLEAN, roles : SUBSET (Roles \cup {"global"}), missed : BOOLEAN]
Says(r) == [on |-> TRUE, roles |-> r, missed |-> FALSE]
Off == [on |-> FALSE, roles |-> {}, missed |-> FALSE]

\* The view effective_app_access.
Has(u) ==
    /\ u \in active
    /\ app.enabled
    /\ \/ app.mode = "all_active_users"
       \/ direct[u] \in Live
       \/ assigned /\ member[u] \in Live

\* appClaimsTx
RolesOf(u) ==
    {r \in roles : <<r, u>> \in roleUsers \/ (r \in roleGroups /\ member[u] \in Live)}

\* scimUserPayloadTx: the global role until the application defines its own.
Payload(u) == IF roles = {} THEN {"global"} ELSE RolesOf(u)

OpenToRequests == app.requestable /\ app.enabled /\ app.mode = "assigned_only"

NoSweep == [pc |-> "idle", rows |-> {}]

AccessInit ==
    /\ active = Users
    /\ app = [mode |-> "assigned_only", enabled |-> TRUE, requestable |-> TRUE]
    /\ direct \in [Users -> {"none", "bounded"}]
    /\ member \in [Users -> {"none", "bounded"}]
    /\ \A u \in Users \ Holders0 : direct[u] = "none" /\ member[u] = "none"
    /\ assigned = TRUE
    /\ roles \in {{}} \cup {{r} : r \in Roles}
    /\ roleUsers = {}
    /\ roleGroups \in SUBSET roles
    /\ owners = {}
    /\ request = [u \in Users |-> [status |-> "none", bounded |-> FALSE, due |-> FALSE]]
    /\ token = [u \in Users |-> Off]
    /\ sent = [u \in Users |-> IF Has(u) THEN Says(Payload(u)) ELSE Off]
    /\ sweep = NoSweep
    /\ changes = 0

-----------------------------------------------------------------------------
(* Follow-ups. Each is a value computed from the directory the transaction *)
(* leaves, so it is used after the primed directory is fixed.              *)

\* revoked_at for every token of the users of U
Revoked(t, U) == [u \in Users |-> IF u \in U THEN Off ELSE t[u]]

\* revokeLostAppAccessTx
WithAccess(t) == [u \in Users |-> IF Has(u)' THEN t[u] ELSE Off]

\* The desired state of the users of U, re-sent where they are provisioned and have access.
Resent(s, U) ==
    [u \in Users |->
        IF u \notin U \/ ~s[u].on THEN s[u]
        ELSE IF Has(u)' THEN Says(Payload(u)') ELSE [s[u] EXCEPT !.missed = TRUE]]

\* Bug: the state of everyone with access is only ever turned on.
ReconciledGains(s) ==
    [u \in Users |-> IF Has(u)' /\ ~s[u].on THEN Says(Payload(u)') ELSE s[u]]

\* reconcileProvisioningTx: gains are sent, losses turned off, the rest is left alone.
Reconciled(s) ==
    [u \in Users |->
        IF Has(u)' = s[u].on THEN s[u] ELSE IF Has(u)' THEN Says(Payload(u)') ELSE Off]

Lapsing(u) == "lapsed" \in {member[u], direct[u]}
Missed(t) == [u \in Users |-> [t[u] EXCEPT !.missed = @ \/ (t[u].on /\ (Lapsing(u) \/ ~Has(u)))]]

\* roleChangeTx, for a change of the roles or their mappings that concerns U.
RoleChange(U) ==
    /\ token' = Revoked(Missed(token), U)
    /\ sent' = Resent(Missed(sent), U)

\* roleChangeTx for a membership of U, then reconcileAccessTx.
MembershipChange(U) ==
    LET touched == IF roleGroups = {} THEN {} ELSE U
    IN  /\ token' = WithAccess(Revoked(token, touched))
        /\ sent' = Reconciled(Resent(sent, touched))

\* revokeLostAppAccessTx and reconcileProvisioningTx.
AccessChange == token' = WithAccess(token) /\ sent' = Reconciled(sent)

Change == changes < MaxChanges /\ changes' = changes + 1

-----------------------------------------------------------------------------
(* The application: policy, assignments and roles                          *)

SetAppPolicy(mode, enabled) ==
    /\ Change
    /\ app' = [app EXCEPT !.mode = mode, !.enabled = enabled]
    /\ UNCHANGED <<active, direct, member, assigned, roles, roleUsers, roleGroups, owners,
                   request, sweep>>
    /\ AccessChange

SetAppRequestable(b) ==
    /\ Change
    /\ app' = [app EXCEPT !.requestable = b]
    /\ UNCHANGED <<active, direct, member, assigned, roles, roleUsers, roleGroups, owners,
                   request, token, sent, sweep>>

\* applyAppAssignmentTx for a user. An assigned user keeps one row; the instant is
\* overwritten, whoever set the earlier one.
ApplyAppAssignment(u, until) ==
    /\ direct' = [direct EXCEPT ![u] = until]
    /\ UNCHANGED <<member, policy>>
    /\ AccessChange

SetAppAssignment(u, until) ==
    /\ Change
    /\ ApplyAppAssignment(u, until)
    /\ UNCHANGED <<request, sweep>>

\* applyAppAssignmentTx for the group
AssignGroup(b) ==
    /\ Change
    /\ assigned' = b
    /\ UNCHANGED <<active, app, direct, member, roles, roleUsers, roleGroups, owners, request, sweep>>
    /\ AccessChange

\* appRoleShapeChangeTx concerns everyone with access, when the first role comes or the
\* last one goes.
WithAccessNow == {u \in Users : Has(u)}

CreateAppRole(r) ==
    /\ Change
    /\ r \notin roles
    /\ roles' = roles \cup {r}
    /\ UNCHANGED <<active, app, direct, member, assigned, roleUsers, roleGroups, owners, request, sweep>>
    /\ IF roles = {} THEN RoleChange(WithAccessNow) ELSE UNCHANGED <<token, sent>>

\* roleHoldersTx reads live memberships.
Holders(r) ==
    {u \in Users : <<r, u>> \in roleUsers \/ (r \in roleGroups /\ member[u] \in Live)}

\* Bug: the last role goes for its holders only.
DeleteAppRoleHolders(r) ==
    /\ Change
    /\ r \in roles
    /\ roles' = roles \ {r}
    /\ roleUsers' = {p \in roleUsers : p[1] # r}
    /\ roleGroups' = roleGroups \ {r}
    /\ UNCHANGED <<active, app, direct, member, assigned, owners, request, sweep>>
    /\ RoleChange(Holders(r))

DeleteAppRole(r) ==
    /\ Change
    /\ r \in roles
    /\ roles' = roles \ {r}
    /\ roleUsers' = {p \in roleUsers : p[1] # r}
    /\ roleGroups' = roleGroups \ {r}
    /\ UNCHANGED <<active, app, direct, member, assigned, owners, request, sweep>>
    /\ RoleChange(Holders(r) \cup IF roles' = {} THEN WithAccessNow ELSE {})

\* SetAppRoleAssignment of a user, without effect when nothing changes
MapUser(r, u, b) ==
    /\ Change
    /\ r \in roles
    /\ (<<r, u>> \in roleUsers) # b
    /\ roleUsers' = IF b THEN roleUsers \cup {<<r, u>>} ELSE roleUsers \ {<<r, u>>}
    /\ UNCHANGED <<active, app, direct, member, assigned, roles, roleGroups, owners, request, sweep>>
    /\ RoleChange({u})

\* SetAppRoleAssignment of the group: its live members are concerned.
MapGroup(r, b) ==
    /\ Change
    /\ r \in roles
    /\ (r \in roleGroups) # b
    /\ roleGroups' = IF b THEN roleGroups \cup {r} ELSE roleGroups \ {r}
    /\ UNCHANGED <<active, app, direct, member, assigned, roles, roleUsers, owners, request, sweep>>
    /\ RoleChange({u \in Users : member[u] \in Live})

-----------------------------------------------------------------------------
(* The directory                                                           *)

\* setGroupMembershipTx: adding a member again with the same instant changes nothing.
SetGroupMembership(u, until) ==
    /\ Change
    /\ member[u] # until
    /\ member' = [member EXCEPT ![u] = until]
    /\ UNCHANGED <<direct, policy, request, sweep>>
    /\ MembershipChange({u})

\* deleteGroupTx: every membership counts, lapsed ones too. A group created later is
\* another group, with nobody in it.
DeleteGroup ==
    /\ Change
    /\ member' = [u \in Users |-> "none"]
    /\ assigned' = FALSE
    /\ roleGroups' = {}
    /\ UNCHANGED <<active, app, direct, roles, roleUsers, owners, request, sweep>>
    /\ MembershipChange({u \in Users : member[u] # "none"})

\* updateUser: disabling offboards, any edit re-sends the profile.
SetStatus(u, b) ==
    /\ Change
    /\ (u \in active) # b
    /\ active' = IF b THEN active \cup {u} ELSE active \ {u}
    /\ UNCHANGED <<app, direct, member, assigned, roles, roleUsers, roleGroups, owners, request, sweep>>
    /\ token' = IF b THEN token ELSE Revoked(token, {u})
    /\ sent' = Reconciled(Resent(sent, {u}))

\* SetDelegations, which revokes what the user holds.
SetDelegations(u, b) ==
    /\ Change
    /\ owners' = IF b THEN owners \cup {u} ELSE owners \ {u}
    /\ token' = Revoked(token, {u})
    /\ UNCHANGED <<active, app, direct, member, assigned, roles, roleUsers, roleGroups,
                   request, sent, sweep>>

-----------------------------------------------------------------------------
(* Access requests                                                         *)

CreateAccessRequest(u, bounded) ==
    /\ Change
    /\ u \in active
    /\ OpenToRequests
    /\ ~Has(u)
    /\ request[u].status # "pending"
    /\ request' = [request EXCEPT ![u] = [status |-> "pending", bounded |-> bounded, due |-> FALSE]]
    /\ UNCHANGED <<direct, member, policy, token, sent, sweep>>

CancelAccessRequest(u) ==
    /\ u \in active
    /\ request[u].status = "pending"
    /\ request' = [request EXCEPT ![u].status = "cancelled"]
    /\ UNCHANGED <<direct, member, policy, token, sent, sweep, changes>>

\* The answer DecideAccessRequest accepts under the write lock. An expired request is
\* refused, and its row left for the follow-up (the transaction is rolled back).
MayDecide(d, u) ==
    /\ request[u].status = "pending" /\ ~request[u].due
    /\ d # u
    /\ d = Root \/ (d \in owners /\ d \in active)

DenyAccessRequest(d, u) ==
    /\ MayDecide(d, u)
    /\ request' = [request EXCEPT ![u].status = "denied"]
    /\ UNCHANGED <<direct, member, policy, token, sent, sweep, changes>>

\* Bug: the policy is taken from the form the decider saw.
ApproveAccessRequestClosed(d, u) ==
    /\ MayDecide(d, u)
    /\ ApplyAppAssignment(u, IF request[u].bounded THEN "bounded" ELSE "unbounded")
    /\ request' = [request EXCEPT ![u].status = "approved"]
    /\ UNCHANGED <<sweep, changes>>

ApproveAccessRequest(d, u) ==
    /\ MayDecide(d, u)
    /\ OpenToRequests
    /\ ApplyAppAssignment(u, IF request[u].bounded THEN "bounded" ELSE "unbounded")
    /\ request' = [request EXCEPT ![u].status = "approved"]
    /\ UNCHANGED <<sweep, changes>>

-----------------------------------------------------------------------------
(* Tokens, and the passing of time                                         *)

\* ExchangeAuthorizationCode, as far as the roles of the token go
IssueToken(u) ==
    /\ Has(u)
    /\ token' = [token EXCEPT ![u] = Says(RolesOf(u))]
    /\ UNCHANGED <<direct, member, policy, request, sent, sweep, changes>>

LapseDirect(u) ==
    /\ direct[u] = "bounded"
    /\ direct' = [direct EXCEPT ![u] = "lapsed"]
    /\ UNCHANGED <<member, policy, request, token, sent, sweep, changes>>

LapseMember(u) ==
    /\ member[u] = "bounded"
    /\ member' = [member EXCEPT ![u] = "lapsed"]
    /\ UNCHANGED <<direct, policy, request, token, sent, sweep, changes>>

RequestDue(u) ==
    /\ request[u].status = "pending" /\ ~request[u].due
    /\ request' = [request EXCEPT ![u].due = TRUE]
    /\ UNCHANGED <<direct, member, policy, token, sent, sweep, changes>>

-----------------------------------------------------------------------------
(* RunDueExpiries                                                          *)

DueRequests == {u \in Users : request[u].status = "pending" /\ request[u].due}
Due == DueRequests # {} \/ \E u \in Users : Lapsing(u)

\* The memberships due are listed. A pass with nothing to do is left out, but for the one
\* StartWorker runs first.
SweepStarts ==
    /\ sweep.pc = "started" \/ (sweep.pc = "idle" /\ Due)
    /\ sweep' = [pc |-> "members", rows |-> {u \in Users : member[u] = "lapsed"}]
    /\ UNCHANGED <<direct, member, policy, request, token, sent, changes>>

\* One membership, in its own transaction, whatever its instant has become meanwhile.
SweepMember(u) ==
    /\ sweep.pc = "members" /\ u \in sweep.rows
    /\ sweep' = [sweep EXCEPT !.rows = @ \ {u}]
    /\ member' = [member EXCEPT ![u] = "none"]
    /\ UNCHANGED <<direct, policy, request, changes>>
    /\ IF roleGroups = {}
       THEN UNCHANGED <<token, sent>>
       ELSE token' = Revoked(token, {u}) /\ sent' = Resent(sent, {u})

\* The direct assignments due are listed.
SweepDirects ==
    /\ sweep.pc = "members" /\ sweep.rows = {}
    /\ sweep' = [pc |-> "direct", rows |-> {u \in Users : direct[u] = "lapsed"}]
    /\ UNCHANGED <<direct, member, policy, request, token, sent, changes>>

SweepDirect(u) ==
    /\ sweep.pc = "direct" /\ u \in sweep.rows
    /\ sweep' = [sweep EXCEPT !.rows = @ \ {u}]
    /\ direct' = [direct EXCEPT ![u] = "none"]
    /\ UNCHANGED <<member, policy, request, token, sent, changes>>

\* Bug: the follow-up forgets the requests nobody answered.
SweepEndsAccess ==
    /\ sweep.pc = "direct" /\ sweep.rows = {}
    /\ sweep' = NoSweep
    /\ UNCHANGED <<direct, member, policy, changes, request>>
    /\ AccessChange

\* expireAccessRequestsTx, then the set-based follow-up
SweepEnds ==
    /\ sweep.pc = "direct" /\ sweep.rows = {}
    /\ sweep' = NoSweep
    /\ request' = [u \in Users |->
                     IF u \in DueRequests THEN [request[u] EXCEPT !.status = "expired"] ELSE request[u]]
    /\ UNCHANGED <<direct, member, policy, changes>>
    /\ AccessChange

\* The process stops between two transactions of the pass.
RestartFollowUp ==
    /\ Change
    /\ sweep.pc \in {"members", "direct"}
    /\ sweep' = [pc |-> "started", rows |-> {}]
    /\ UNCHANGED <<direct, member, policy, request, token, sent>>

\* ReconcileProvisioning, the worker's next step of the same tick
ReconcileProvisioning ==
    /\ sweep.pc = "idle"
    /\ UNCHANGED <<direct, member, policy, request, token, sweep, changes>>
    /\ sent' = Reconciled(sent)

-----------------------------------------------------------------------------
Administration ==
    \/ \E m \in {"assigned_only", "all_active_users"}, e \in BOOLEAN : SetAppPolicy(m, e)
    \/ \E b \in BOOLEAN : SetAppRequestable(b) \/ AssignGroup(b)
    \/ \E r \in Roles : CreateAppRole(r) \/ DeleteAppRole(r)
    \/ \E r \in Roles, b \in BOOLEAN : MapGroup(r, b)
    \/ \E r \in Roles, u \in Users, b \in BOOLEAN : MapUser(r, u, b)
    \/ \E u \in Users, until \in {"none", "bounded", "unbounded"} :
          SetAppAssignment(u, until) \/ SetGroupMembership(u, until)
    \/ \E u \in Users, b \in BOOLEAN : SetStatus(u, b) \/ SetDelegations(u, b)
    \/ DeleteGroup

Asking ==
    \/ \E u \in Users, b \in BOOLEAN : CreateAccessRequest(u, b)
    \/ \E u \in Users : CancelAccessRequest(u)
    \/ \E d \in Users \cup {Root}, u \in Users :
          DenyAccessRequest(d, u) \/ ApproveAccessRequest(d, u)

Time == \E u \in Users : IssueToken(u) \/ LapseDirect(u) \/ LapseMember(u) \/ RequestDue(u)

RunDueExpiries ==
    \/ SweepStarts \/ SweepDirects \/ SweepEnds
    \/ \E u \in Users : SweepMember(u) \/ SweepDirect(u)

AccessNext == Administration \/ Asking \/ Time \/ RunDueExpiries \/ RestartFollowUp \/ ReconcileProvisioning

AccessSpec == AccessInit /\ [][AccessNext]_accessVars

\* The worker's ticker runs the follow-up every minute for as long as the process lives.
FairAccessSpec == AccessSpec /\ WF_accessVars(RunDueExpiries)

-----------------------------------------------------------------------------
(* Properties                                                              *)

\* The state the tables can hold: no mapping outlives its role.
AccessTypeOK ==
    /\ active \subseteq Users /\ owners \subseteq Users
    /\ app \in [mode : {"assigned_only", "all_active_users"}, enabled : BOOLEAN, requestable : BOOLEAN]
    /\ direct \in [Users -> Instants] /\ member \in [Users -> Instants]
    /\ assigned \in BOOLEAN
    /\ roles \subseteq Roles /\ roleUsers \subseteq roles \X Users /\ roleGroups \subseteq roles
    /\ request \in [Users -> [status : {"none", "pending"} \cup Decided, bounded : BOOLEAN, due : BOOLEAN]]
    /\ token \in [Users -> Told] /\ sent \in [Users -> Told]
    /\ sweep \in [pc : {"idle", "started", "members", "direct"}, rows : SUBSET Users]
    /\ changes \in 0..MaxChanges

\* What the client's token and the connection say of a user's roles is what the tables
\* say now, whatever sequence of role, mapping, membership, group and policy changes and
\* lapses led here: every change of them reaches roleChangeTx with the users it concerns
\* (app_roles.go:17). Two gaps are named: a lapsed membership waits for its follow-up, and
\* a role change made while such a row waited may have passed the user over.
RolesCurrent ==
    \A u \in Users :
        /\ token[u].on /\ member[u] # "lapsed" /\ ~token[u].missed => token[u].roles = RolesOf(u)
        /\ sent[u].on /\ Has(u) /\ member[u] # "lapsed" /\ ~sent[u].missed =>
              sent[u].roles = Payload(u)

\* The connection's desired state is on for exactly the users with access, except while a
\* lapsed row or the rest of a pass is outstanding: no administrative step leaves someone
\* provisioned without access, or with access and not provisioned.
ProvisionedHaveAccess ==
    (sweep.pc = "idle" /\ \A u \in Users : ~Lapsing(u)) =>
        \A u \in Users : sent[u].on = Has(u)

\* What the application is told, by tokens and by provisioning, is who has access and in
\* which roles.
ToldWhatHolds == RolesCurrent /\ ProvisionedHaveAccess

\* An approval takes effect whole: it is given for an application still open to requests,
\* and the requester, if still active, has access and is provisioned in the same step.
ApprovalTakesEffect ==
    [][\A u \in Users :
          (request[u].status = "pending" /\ request'[u].status = "approved") =>
             /\ OpenToRequests
             /\ u \in active => Has(u)' /\ sent'[u].on]_accessVars

\* The follow-up catches up with every lapse and every unanswered request, through
\* restarts and changes made while it runs.
FollowUpSettles ==
    \A u \in Users :
        /\ Lapsing(u) ~> (~Lapsing(u) /\ (sent[u].on \/ token[u].on => Has(u)))
        /\ (u \in DueRequests) ~> (u \notin DueRequests)
=============================================================================
