--------------------------- MODULE InboundGroups ---------------------------
(***************************************************************************)
(* Directory groups, some owned by an upstream directory, and the policies *)
(* that require a second factor of everyone, of administrators or of the   *)
(* members of a group: which factors such a policy allows, the deadlines it *)
(* starts, and which writes may touch a group that carries one.            *)
(*                                                                         *)
(* A SCIM group write loads the group when the request arrives, computes a *)
(* whole name and member set from it, and replaces the group in a later    *)
(* transaction. An administrator's write is one transaction.               *)
(***************************************************************************)
EXTENDS Naturals, FiniteSets

CONSTANTS
    Accounts,       \* users
    Root,           \* the account that is there, an administrator, at the start
    Connectors,
    Groups,
    Names,          \* display names of groups
    Factors,        \* kinds of second factor
    Graces,         \* grace periods a policy may give
    Writes,         \* SCIM group writes in progress
    Local, Nobody,  \* owner of a local row, and of none
    NotRequired,    \* a policy that is off
    None,           \* no deadline, no name
    MaxInstant,     \* bound: instants of the clock
    MaxOps          \* bound: operations of administrators and upstreams

ASSUME RootAssumption == Root \in Accounts
ASSUME OwnerAssumption ==
    {Local, Nobody} \cap Connectors = {} /\ Local # Nobody /\ Nobody \notin Accounts
ASSUME GraceAssumption == Graces \subseteq Nat /\ None \notin Nat
ASSUME GroupBoundAssumption == MaxInstant \in Nat /\ MaxOps \in Nat

VARIABLES
    owner,      \* users: the source of each account
    admins,     \* accounts with role admin
    delegates,  \* accounts with a row in admin_delegations
    group,      \* directory_groups with their group_memberships
    policy,     \* enrollment_policies
    due,        \* enrollment_deadlines
    removed,    \* connectors that were disconnected
    req,        \* SCIM group writes between their load and their transaction
    now, ops

directory == <<owner, admins, delegates, removed>>
groupsVars == <<owner, admins, delegates, group, policy, due, removed, req, now, ops>>

-----------------------------------------------------------------------------
Wide == {"organization", "administrators"}
Scopes == Wide \cup Groups
Required == [mask : (SUBSET Factors) \ {{}}, grace : Graces]
\* upstream is a ghost: the member set of the last SCIM write.
Group == [owner : Connectors \cup {Local, Nobody}, name : Names \cup {None}, ver : Nat,
          members : SUBSET Accounts, upstream : SUBSET Accounts]
Free == [op |-> "idle"]
Request == [op : {"create", "replace", "delete"}, conn : Connectors, group : Groups,
            name : Names \cup {None}, members : SUBSET Accounts, conditional : BOOLEAN, seen : Group]

Here == {u \in Accounts : owner[u] # Nobody}
There(g) == group[g].owner # Nobody

\* applicable_enrollment_policies: the required policies that reach an account.
Applicable(u) ==
    {s \in Scopes : /\ policy[s] # NotRequired
                    /\ \/ s = "organization"
                       \/ s = "administrators" /\ u \in admins \cup delegates
                       \/ s \in Groups /\ u \in group[s].members}

\* enrollment_requirements: some factor satisfies all of them.
Satisfiable(u) ==
    Applicable(u) = {} \/ \E f \in Factors : \A s \in Applicable(u) : f \in policy[s].mask

GroupsInit ==
    /\ owner = [u \in Accounts |-> IF u = Root THEN Local ELSE Nobody]
    /\ admins = {Root}
    /\ delegates = {}
    /\ group = [g \in Groups |-> [owner |-> Nobody, name |-> None, ver |-> 0, members |-> {},
                                  upstream |-> {}]]
    /\ policy = [s \in Scopes |-> NotRequired]
    /\ due = [u \in Accounts |-> [s \in Scopes |-> None]]
    /\ removed = {}
    /\ req = [r \in Writes |-> Free]
    /\ now = 0
    /\ ops = 0

Op == ops < MaxOps /\ ops' = ops + 1

-----------------------------------------------------------------------------
(* Policies and their deadlines                                            *)

Earlier(a, b) == IF a = None \/ b < a THEN b ELSE a

\* Bug: a policy that reaches the account again starts its grace period again.
StartsAgain(us, ss) ==
    due' = [u \in Accounts |-> [s \in Scopes |->
              IF u \in us /\ s \in ss /\ s \in Applicable(u)' THEN now + policy'[s].grace
              ELSE due[u][s]]]

\* The triggers on users, members and delegations: a deadline for the policies that reach
\* the account now, kept where there is one.
Starts(us, ss) ==
    due' = [u \in Accounts |-> [s \in Scopes |->
              IF u \in us /\ s \in ss /\ s \in Applicable(u)' /\ due[u][s] = None
              THEN now + policy'[s].grace ELSE due[u][s]]]

\* CanActivate of previewEnrollmentTx. The administrator who acts is not required to use a
\* factor, or has signed in with an allowed one within five minutes; no session is behind
\* an upstream's write.
CanActivate(admin, recent) == admin \in admins' /\ (Applicable(admin)' = {} \/ recent)

\* Bug: only the accounts of the edited scope are looked at.
SetEnrollmentPolicyUnchecked(s, p, admin, recent) ==
    /\ (s \in Groups => There(s)) /\ policy[s] # p /\ Op
    /\ policy' = [policy EXCEPT ![s] = p]
    /\ UNCHANGED <<directory, group, req, now>>
    /\ CanActivate(admin, recent)
    /\ due' = [u \in Accounts |-> [t \in Scopes |->
                 IF t \in Applicable(u)' /\ u \in Here THEN Earlier(due[u][t], now + policy'[t].grace)
                 ELSE due[u][t]]]

\* applyEnrollmentPolicyTx and SetEnrollmentPolicy: refused when some account could satisfy
\* its policies with no factor; every account reached gets the earlier of two deadlines.
SetEnrollmentPolicy(s, p, admin, recent) ==
    /\ (s \in Groups => There(s)) /\ policy[s] # p /\ Op
    /\ policy' = [policy EXCEPT ![s] = p]
    /\ UNCHANGED <<directory, group, req, now>>
    /\ \A u \in Here : Satisfiable(u)'
    /\ CanActivate(admin, recent)
    /\ due' = [u \in Accounts |-> [t \in Scopes |->
                 IF t \in Applicable(u)' /\ u \in Here THEN Earlier(due[u][t], now + policy'[t].grace)
                 ELSE due[u][t]]]

-----------------------------------------------------------------------------
(* Accounts                                                                *)

\* enrollment_new_user, after a local or an upstream create.
CreateUser(u, o, admin) ==
    /\ u \notin Here /\ o \notin removed /\ Op
    /\ o # Local => ~admin
    /\ owner' = [owner EXCEPT ![u] = o]
    /\ admins' = IF admin THEN admins \cup {u} ELSE admins
    /\ UNCHANGED <<delegates, removed, group, policy, req, now>>
    /\ Starts({u}, Scopes)

\* enrollment_user_role and enrollment_role_compatibility, after updateUser.
SetRole(u, admin) ==
    /\ u \in Here /\ (u \in admins) # admin /\ Op
    /\ admins' = IF admin THEN admins \cup {u} ELSE admins \ {u}
    /\ admins' # {}
    /\ UNCHANGED <<owner, delegates, removed, group, policy, req, now>>
    /\ Satisfiable(u)'
    /\ Starts({u}, Scopes)

\* Bug: a delegate gets no deadline of its own.
SetDelegationsLate(u, on) ==
    /\ u \in Here /\ (u \in delegates) # on /\ Op
    /\ delegates' = IF on THEN delegates \cup {u} ELSE delegates \ {u}
    /\ UNCHANGED <<owner, admins, removed, group, policy, req, now, due>>
    /\ on => Satisfiable(u)'

\* enrollment_new_delegation, after SetDelegations.
SetDelegations(u, on) ==
    /\ u \in Here /\ (u \in delegates) # on /\ Op
    /\ delegates' = IF on THEN delegates \cup {u} ELSE delegates \ {u}
    /\ UNCHANGED <<owner, admins, removed, group, policy, req, now>>
    /\ on => Satisfiable(u)'
    /\ Starts(IF on THEN {u} ELSE {}, {"administrators"})

\* DeleteSCIMConnector: the accounts and groups it owns become local.
DisconnectSCIM(c) ==
    /\ c \notin removed /\ Op
    /\ removed' = removed \cup {c}
    /\ owner' = [u \in Accounts |-> IF owner[u] = c THEN Local ELSE owner[u]]
    /\ group' = [g \in Groups |-> IF group[g].owner # c THEN group[g]
                                  ELSE [group[g] EXCEPT !.owner = Local, !.ver = @ + 1]]
    /\ UNCHANGED <<admins, delegates, policy, due, req, now>>

-----------------------------------------------------------------------------
(* Groups, by administrators                                               *)

\* groups.name is unique.
NameFree(g, n) == \A h \in Groups \ {g} : There(h) => group[h].name # n

CreateGroup(g, n) ==
    /\ group[g].ver = 0 /\ NameFree(g, n) /\ Op
    /\ group' = [group EXCEPT ![g] = [@ EXCEPT !.owner = Local, !.name = n, !.ver = 1]]
    /\ UNCHANGED <<directory, policy, due, req, now>>

\* An owned group keeps its name; a new description is a new version all the same.
UpdateGroup(g, n) ==
    /\ There(g) /\ NameFree(g, n) /\ Op
    /\ group[g].owner = Local \/ n = group[g].name
    /\ group' = [group EXCEPT ![g] = [@ EXCEPT !.name = n, !.ver = group[g].ver + 1]]
    /\ UNCHANGED <<directory, policy, due, req, now>>

\* applyGroupMembershipTx for the accounts whose membership changes. A group that carries
\* a required policy is changed only with a recent sign-in behind the request.
Changes(g, us, admin, recent) ==
    policy[g] # NotRequired /\ us # {} =>
        (\A u \in us : Satisfiable(u)') /\ CanActivate(admin, recent)

SetGroupMembership(g, u, on, admin, recent) ==
    /\ There(g) /\ u \in Here /\ (u \in group[g].members) # on /\ Op
    /\ group' = [group EXCEPT ![g].members = IF on THEN @ \cup {u} ELSE @ \ {u}]
    /\ UNCHANGED <<directory, policy, req, now>>
    /\ Changes(g, {u}, admin, recent)
    /\ Starts(IF on THEN {u} ELSE {}, {g})

\* The group's row with what cascades from it.
Cascade(g) ==
    /\ group' = [group EXCEPT ![g] = [@ EXCEPT !.owner = Nobody, !.members = {}, !.upstream = {},
                                               !.ver = group[g].ver + 1]]
    /\ policy' = [policy EXCEPT ![g] = NotRequired]
    /\ due' = [u \in Accounts |-> [due[u] EXCEPT ![g] = None]]

\* deleteGroupTx: the check precedes the cascade, so it is made against the policies
\* including the group's.
DeletesGroup(g, admin, recent) ==
    /\ policy[g] # NotRequired => admin \in admins /\ (Applicable(admin) = {} \/ recent)
    /\ Cascade(g)

DeleteGroup(g, admin, recent) ==
    /\ There(g) /\ Op
    /\ DeletesGroup(g, admin, recent)
    /\ UNCHANGED <<directory, req, now>>

-----------------------------------------------------------------------------
(* Groups, by an upstream                                                  *)

\* CreateGroup of the SCIM handler, up to its transaction.
CreateArrives(r, c, g, n, members) ==
    /\ req[r] = Free /\ c \notin removed /\ group[g].ver = 0 /\ Op
    /\ req' = [req EXCEPT ![r] = [op |-> "create", conn |-> c, group |-> g, name |-> n,
                                  members |-> members, conditional |-> FALSE, seen |-> group[g]]]
    /\ UNCHANGED <<directory, group, policy, due, now>>

\* loadGroup and what ReplaceGroup or PatchGroup makes of the group it loaded: a whole name
\* and member set. conditional: the request carries If-Match.
GroupArrives(r, op, c, g, n, members, conditional) ==
    /\ req[r] = Free /\ c \notin removed /\ group[g].owner = c /\ Op
    /\ req' = [req EXCEPT ![r] = [op |-> op, conn |-> c, group |-> g, name |-> n,
                                  members |-> members, conditional |-> conditional,
                                  seen |-> group[g]]]
    /\ UNCHANGED <<directory, group, policy, due, now>>

\* membersOwnedTx
MembersOwned(q) == \A u \in q.members : owner[u] = q.conn

\* Bug: the version is the one the handler compared when it loaded the group.
CurrentAtLoad(q) == There(q.group) /\ group[q.group].owner = q.conn

\* The group is still the connector's, and unchanged since it was read if that was asked.
Current(q) ==
    /\ There(q.group) /\ group[q.group].owner = q.conn
    /\ q.conditional => group[q.group].ver = q.seen.ver

\* Bug: a required policy guards the members and not the name.
RenamesFreely(q) == TRUE

\* Another name for a group that carries a required policy is refused.
MayRename(q) == q.name # group[q.group].name => policy[q.group] = NotRequired

CreateUpstreamGroup(r) ==
    LET q == req[r] IN
    /\ q # Free /\ q.op = "create"
    /\ MembersOwned(q) /\ NameFree(q.group, q.name) /\ group[q.group].ver = 0
    /\ group' = [group EXCEPT ![q.group] = [owner |-> q.conn, name |-> q.name, ver |-> 1,
                                            members |-> q.members, upstream |-> q.members]]
    /\ req' = [req EXCEPT ![r] = Free]
    /\ UNCHANGED <<directory, policy, now, ops>>
    /\ Starts(q.members, {q.group})

\* The members that leave, then those that come; no session is behind either.
ReplaceUpstreamGroup(r) ==
    LET q == req[r]
        g == q.group
        have == group[g].members
    IN
    /\ q # Free /\ q.op = "replace"
    /\ Current(q) /\ MayRename(q) /\ MembersOwned(q) /\ NameFree(g, q.name)
    /\ group' = [group EXCEPT ![g] = [@ EXCEPT !.name = q.name, !.ver = group[g].ver + 1,
                                               !.members = q.members, !.upstream = q.members]]
    /\ req' = [req EXCEPT ![r] = Free]
    /\ UNCHANGED <<directory, policy, now, ops>>
    /\ Changes(g, (have \ q.members) \cup (q.members \ have), Nobody, FALSE)
    /\ Starts(q.members \ have, {g})

DeleteUpstreamGroup(r) ==
    LET q == req[r] IN
    /\ q # Free /\ q.op = "delete"
    /\ Current(q)
    /\ DeletesGroup(q.group, Nobody, FALSE)
    /\ req' = [req EXCEPT ![r] = Free]
    /\ UNCHANGED <<directory, now, ops>>

\* groupError: a transaction that is refused, or that the database fails, leaves everything
\* as it was.
GroupError(r) ==
    /\ req[r] # Free
    /\ req' = [req EXCEPT ![r] = Free]
    /\ UNCHANGED <<directory, group, policy, due, now, ops>>

InstantPasses ==
    /\ now < MaxInstant
    /\ now' = now + 1
    /\ UNCHANGED <<directory, group, policy, due, req, ops>>

-----------------------------------------------------------------------------
GroupsNext ==
    \/ \E s \in Scopes, p \in Required \cup {NotRequired}, a \in Accounts, recent \in BOOLEAN :
          SetEnrollmentPolicy(s, p, a, recent)
    \/ \E u \in Accounts, o \in Connectors \cup {Local}, admin \in BOOLEAN : CreateUser(u, o, admin)
    \/ \E u \in Accounts, on \in BOOLEAN : SetRole(u, on) \/ SetDelegations(u, on)
    \/ \E c \in Connectors : DisconnectSCIM(c)
    \/ \E g \in Groups, n \in Names : CreateGroup(g, n) \/ UpdateGroup(g, n)
    \/ \E g \in Groups, u, a \in Accounts, on, recent \in BOOLEAN :
          SetGroupMembership(g, u, on, a, recent)
    \/ \E g \in Groups, a \in Accounts, recent \in BOOLEAN : DeleteGroup(g, a, recent)
    \/ \E r \in Writes :
        \/ \E c \in Connectors, g \in Groups, n \in Names, members \in SUBSET Accounts :
              \/ CreateArrives(r, c, g, n, members)
              \/ \E conditional \in BOOLEAN :
                    GroupArrives(r, "replace", c, g, n, members, conditional)
        \/ \E c \in Connectors, g \in Groups, conditional \in BOOLEAN :
              GroupArrives(r, "delete", c, g, group[g].name, {}, conditional)
        \/ CreateUpstreamGroup(r)
        \/ ReplaceUpstreamGroup(r)
        \/ DeleteUpstreamGroup(r)
        \/ GroupError(r)
    \/ InstantPasses

GroupsSpec == GroupsInit /\ [][GroupsNext]_groupsVars

-----------------------------------------------------------------------------
(* Properties                                                              *)

GroupsTypeOK ==
    /\ owner \in [Accounts -> Connectors \cup {Local, Nobody}]
    /\ admins \subseteq Here /\ delegates \subseteq Here
    /\ group \in [Groups -> Group]
    /\ policy \in [Scopes -> Required \cup {NotRequired}]
    /\ due \in [Accounts -> [Scopes -> Nat \cup {None}]]
    /\ removed \subseteq Connectors
    /\ req \in [Writes -> Request \cup {Free}]
    /\ now \in 0..MaxInstant /\ ops \in 0..MaxOps

\* Whatever order policies, roles, delegations and memberships change in, no account is
\* left under required policies that no factor satisfies (applyEnrollmentPolicyTx, the
\* compatibility triggers and applyGroupMembershipTx each check a part of it).
PoliciesSatisfiable == \A u \in Here : Satisfiable(u)

\* Every account has a deadline for each required policy that reaches it: one without reads
\* as due at once, and locks the account out (the five triggers and the policy edit).
ReachedHaveDeadline == \A u \in Here : \A s \in Applicable(u) : due[u][s] # None

\* Nobody is locked out by the order of changes: what a policy requires can be met, and
\* there is an instant until which to meet it.
PoliciesCanBeMet == PoliciesSatisfiable /\ ReachedHaveDeadline

\* A deadline never moves later while its policy exists: leaving and joining a group, a
\* new role or switching a policy off and on starts no second grace period.
GraceNeverRestarts ==
    [][\A u \in Accounts, s \in Scopes :
        due[u][s] # None /\ (s \in Groups => There(s)') =>
            due'[u][s] # None /\ due'[u][s] <= due[u][s]]_groupsVars

\* A SCIM write never renames, changes the members of or deletes a group that carries a
\* required policy, also when the policy was set after the write loaded the group.
RequiredGroupsStay ==
    [][\A r \in Writes : req[r] # Free /\ req'[r] = Free =>
        LET g == req[r].group IN
        policy[g] # NotRequired =>
            /\ group'[g].owner = group[g].owner
            /\ group'[g].name = group[g].name
            /\ group'[g].members = group[g].members]_groupsVars

\* A SCIM write with If-Match overwrites nothing that another SCIM write changed after the
\* group was loaded for it.
ConditionalWritesKeepOthers ==
    [][\A r \in Writes :
        LET q == req[r] IN
        (q # Free /\ req'[r] = Free /\ q.conditional /\ group'[q.group] # group[q.group]) =>
            /\ group[q.group].name = q.seen.name
            /\ group[q.group].upstream = q.seen.upstream]_groupsVars

\* A SCIM write computed from an old read undoes neither a policy's group nor another SCIM
\* write it was conditional on.
StaleWritesUndoNothing == RequiredGroupsStay /\ ConditionalWritesKeepOthers
=============================================================================
