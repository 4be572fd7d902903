-------------------------- MODULE InboundAccounts --------------------------
(***************************************************************************)
(* Accounts that an upstream directory owns, next to local ones: the SCIM  *)
(* connectors and their tokens, the upstream's creates and writes, the     *)
(* administrator's edits, and the links that activate an account or reset  *)
(* its password.                                                           *)
(*                                                                         *)
(* A SCIM write authenticates and reads the row when the request arrives   *)
(* and writes in a later transaction; so do an administrator's edit and    *)
(* the issue of a link, which is mailed to the address that was read. Roles *)
(* and end dates are AccountLifecycle's; groups are InboundGroups'.        *)
(***************************************************************************)
EXTENDS Naturals, FiniteSets

CONSTANTS
    Users,
    Connectors,
    Emails,     \* the identifiers of an account: its user name and address together
    Requests,   \* SCIM writes in progress
    Forms,      \* administrator requests in progress
    Local,      \* owner of a local account
    Nobody,     \* owner of an account that does not exist
    Connected0, \* the connectors that exist, with a write token, at the start
    NoEmail,    \* an address that is not there, or not proven
    ByHand,     \* a link that was shown to the administrator, not mailed
    MaxOps      \* bound: operations of administrators, upstreams and owners

ASSUME OwnerAssumption == {Local, Nobody} \cap Connectors = {} /\ Local # Nobody
ASSUME AddressAssumption == {NoEmail, ByHand} \cap Emails = {} /\ NoEmail # ByHand
ASSUME StartAssumption == Connected0 \subseteq Connectors
ASSUME BoundAssumption == MaxOps \in Nat

VARIABLES
    conn,       \* scim_connectors: status, or none before and gone after
    token,      \* scim_connector_tokens: the scopes of the unrevoked ones
    acct,       \* users rows
    links,      \* account_tokens that are unused and unexpired
    req,        \* SCIM writes between their read and their transaction
    form,       \* administrator requests between their read and their transaction
    ops

vars == <<conn, token, acct, links, req, form, ops>>

-----------------------------------------------------------------------------
Kinds == {"activation", "reset"}
Account == [owner : Connectors \cup {Local, Nobody}, sourceActive : BOOLEAN,
            localOff : BOOLEAN, pending : BOOLEAN, status : {"active", "disabled"},
            email : Emails \cup {NoEmail},
            proven : Emails \cup {NoEmail}]  \* email_verified_at, and by which address
\* stale is a ghost: the account was disabled, moved to another address or given
\* another password after the link was issued.
Link == [user : Users, kind : Kinds, to : Emails \cup {NoEmail, ByHand}, stale : BOOLEAN]
Idle == [op |-> "idle"]
Write == [op : {"create", "update"}, conn : Connectors, user : Users, email : Emails,
          active : BOOLEAN]
Form == [op : {"edit"} \cup Kinds, user : Users, row : Account, mailed : BOOLEAN]

NoAccount == [owner |-> Nobody, sourceActive |-> TRUE, localOff |-> FALSE, pending |-> FALSE,
              status |-> "disabled", email |-> NoEmail, proven |-> NoEmail]
Exists(u) == acct[u].owner # Nobody
Owned(a) == a.owner \in Connectors

Init ==
    /\ conn = [c \in Connectors |-> IF c \in Connected0 THEN "active" ELSE "none"]
    /\ token = [c \in Connectors |-> IF c \in Connected0 THEN {"write"} ELSE {}]
    /\ acct = [u \in Users |-> NoAccount]
    /\ links = {}
    /\ req = [r \in Requests |-> Idle]
    /\ form = [f \in Forms |-> Idle]
    /\ ops = 0

Op == ops < MaxOps /\ ops' = ops + 1

-----------------------------------------------------------------------------
(* The row, and what a write ends                                          *)

ApplySourceState(a) ==
    IF ~Owned(a) THEN a
    ELSE [a EXCEPT !.status = IF a.sourceActive /\ ~a.localOff /\ ~a.pending
                              THEN "active" ELSE "disabled"]

\* No other account uses the identifier.
Free(u, email) == \A v \in Users \ {u} : acct[v].email # email

\* expireAccountTokensTx for the users ended; the links of those changed that stay are
\* stale.
LinksAfter(ended, changed) ==
    {[l EXCEPT !.stale = l.stale \/ l.user \in changed] : l \in {k \in links : k.user \notin ended}}

Moved(old, new) == new.email # old.email
Disabled(old, new) == old.status = "active" /\ new.status = "disabled"

\* Bug: a new address leaves the links mailed to the old one.
StoreUserOnly(u, new, revoke) ==
    LET old == acct[u]
        ended == IF Disabled(old, new) \/ revoke THEN {u} ELSE {}
        changed == IF Moved(old, new) \/ Disabled(old, new) \/ revoke THEN {u} ELSE {}
    IN
    /\ acct' = [acct EXCEPT ![u] = IF Moved(old, new) THEN [new EXCEPT !.proven = NoEmail] ELSE new]
    /\ links' = LinksAfter(ended, changed)

\* updateUser, once its row is prepared: a new address is unproven and ends the links, an
\* active account that is disabled is offboarded, and the caller may ask for the rest.
StoreUser(u, new, revoke) ==
    LET old == acct[u]
        ended == IF Moved(old, new) \/ Disabled(old, new) \/ revoke THEN {u} ELSE {} IN
    /\ acct' = [acct EXCEPT ![u] = IF Moved(old, new) THEN [new EXCEPT !.proven = NoEmail] ELSE new]
    /\ links' = LinksAfter(ended, ended)

-----------------------------------------------------------------------------
(* Connectors and their tokens                                             *)

CreateSCIMConnector(c) ==
    /\ conn[c] = "none" /\ Op
    /\ conn' = [conn EXCEPT ![c] = "active"]
    /\ UNCHANGED <<token, acct, links, req, form>>

UpdateSCIMConnector(c, status) ==
    /\ conn[c] \in {"active", "disabled"} \ {status} /\ Op
    /\ conn' = [conn EXCEPT ![c] = status]
    /\ UNCHANGED <<token, acct, links, req, form>>

IssueSCIMToken(c, scope) ==
    /\ conn[c] \in {"active", "disabled"} /\ scope \notin token[c] /\ Op
    /\ token' = [token EXCEPT ![c] = @ \cup {scope}]
    /\ UNCHANGED <<conn, acct, links, req, form>>

\* AdminIssueToken: a request that names no scope gets a writing token.
AdminIssueToken(c, scope) == IssueSCIMToken(c, IF scope = "" THEN "write" ELSE scope)

RevokeSCIMToken(c, scope) ==
    /\ scope \in token[c] /\ Op
    /\ token' = [token EXCEPT ![c] = @ \ {scope}]
    /\ UNCHANGED <<conn, acct, links, req, form>>

\* Authenticate, for a write.
Authenticated(c) == conn[c] = "active" /\ "write" \in token[c]

\* Each account becomes local, kept as it is or disabled; one that was active is offboarded.
DeleteSCIMConnector(c, disable) ==
    LET own == {u \in Users : acct[u].owner = c}
        ended == IF disable THEN {u \in own : acct[u].status = "active"} ELSE {}
    IN
    /\ conn[c] \in {"active", "disabled"} /\ Op
    /\ acct' = [u \in Users |->
                  IF u \notin own THEN acct[u]
                  ELSE [acct[u] EXCEPT !.owner = Local, !.sourceActive = TRUE, !.localOff = FALSE,
                                       !.status = IF disable THEN "disabled" ELSE @]]
    /\ links' = LinksAfter(ended, ended)
    /\ conn' = [conn EXCEPT ![c] = "gone"]
    /\ token' = [token EXCEPT ![c] = {}]
    /\ UNCHANGED <<req, form>>

\* AdminDelete: the administrator says what happens to the accounts.
AdminDelete(c, users) == DeleteSCIMConnector(c, users = "disable")

-----------------------------------------------------------------------------
(* The upstream's requests                                                 *)

Opens(r, w) == req[r] = Idle /\ req' = [req EXCEPT ![r] = w]
Closes(r) == req' = [req EXCEPT ![r] = Idle]

\* Create, up to its transaction.
CreateArrives(r, c, u, email, active) ==
    /\ Authenticated(c) /\ ~Exists(u) /\ Op
    /\ Opens(r, [op |-> "create", conn |-> c, user |-> u, email |-> email, active |-> active])
    /\ UNCHANGED <<conn, token, acct, links, form>>

\* Pending, without a password, and refused when the identifier is taken.
CreateUpstreamUser(r) ==
    LET w == req[r]
        new == [NoAccount EXCEPT !.owner = w.conn, !.sourceActive = w.active, !.pending = TRUE,
                                 !.email = w.email]
    IN
    /\ w # Idle /\ w.op = "create"
    /\ acct' = IF Free(w.user, w.email) /\ ~Exists(w.user)
               THEN [acct EXCEPT ![w.user] = ApplySourceState(new)] ELSE acct
    /\ Closes(r)
    /\ UNCHANGED <<conn, token, links, form, ops>>

\* Replace, Patch and Delete, up to their transaction: the row is read, and what is written
\* is the identifier and the flag of the request, or those of the row where it has none.
UpdateArrives(r, c, u, email, active) ==
    /\ Authenticated(c) /\ acct[u].owner = c /\ Op
    /\ Opens(r, [op |-> "update", conn |-> c, user |-> u, email |-> email, active |-> active])
    /\ UNCHANGED <<conn, token, acct, links, form>>

\* Bug: the owner is the one the request read.
FoldUnchecked(w, current) ==
    IF current.owner # Nobody /\ Free(w.user, w.email)
    THEN ApplySourceState([current EXCEPT !.sourceActive = w.active, !.email = w.email])
    ELSE current

\* Bug: the upstream's word replaces the administrator's.
FoldOverride(w, current) ==
    IF current.owner = w.conn /\ Free(w.user, w.email)
    THEN ApplySourceState([current EXCEPT !.sourceActive = w.active, !.email = w.email,
                                          !.localOff = @ /\ ~w.active])
    ELSE current

\* The prepare function of UpdateUpstreamUser: the upstream's fields over the row as it is
\* at write time, or the row itself when the write is refused.
Fold(w, current) ==
    IF current.owner = w.conn /\ Free(w.user, w.email)
    THEN ApplySourceState([current EXCEPT !.sourceActive = w.active, !.email = w.email])
    ELSE current

UpdateUpstreamUser(r) ==
    LET w == req[r] IN
    /\ w # Idle /\ w.op = "update"
    /\ StoreUser(w.user, Fold(w, acct[w.user]), FALSE)
    /\ Closes(r)
    /\ UNCHANGED <<conn, token, form, ops>>

-----------------------------------------------------------------------------
(* Administrators                                                          *)

CreateUser(u, email, invited) ==
    /\ ~Exists(u) /\ Free(u, email) /\ Op
    /\ acct' = [acct EXCEPT ![u] = [NoAccount EXCEPT !.owner = Local, !.email = email,
                                      !.pending = invited,
                                      !.status = IF invited THEN "disabled" ELSE "active"]]
    /\ UNCHANGED <<conn, token, links, req, form>>

\* The row as an administrator's request reads it, before its transaction.
Reads(f, u, op, mailed) ==
    /\ form[f] = Idle /\ Exists(u) /\ Op
    /\ form' = [form EXCEPT ![f] = [op |-> op, user |-> u, row |-> acct[u], mailed |-> mailed]]
    /\ UNCHANGED <<conn, token, acct, links, req>>

\* UpdateUser, up to GetUserByID.
ReadUser(f, u) == Reads(f, u, "edit", FALSE)

\* The form over the row that was read. A status on an owned account is the override.
Filled(seen, status, email, password) ==
    LET a == [seen EXCEPT !.status = status, !.email = email, !.pending = @ /\ ~password]
        b == [seen EXCEPT !.localOff = (status = "disabled")]
    IN
    IF Owned(seen) THEN [ApplySourceState(b) EXCEPT !.pending = @ /\ ~password] ELSE a

\* Bug: the upstream's fields are those the form read.
MergedAsRead(f, current) ==
    ApplySourceState([f EXCEPT !.owner = current.owner, !.proven = current.proven])

\* What updateUser stores of it: the upstream's fields are the row's.
Merged(f, current) ==
    ApplySourceState([f EXCEPT !.owner = current.owner, !.sourceActive = current.sourceActive,
                               !.proven = current.proven,
                               !.email = IF Owned(current) THEN current.email ELSE @])

\* The rest of UpdateUser. given: the request carries a status.
SaveUser(f, given, status, email, password) ==
    LET seen == form[f].row
        u == form[f].user
        filled == IF given THEN Filled(seen, status, email, password)
                  ELSE [seen EXCEPT !.email = email, !.pending = @ /\ ~password]
        new == Merged(filled, acct[u])
        refused == filled.pending /\ filled.status = "active"
        revoke == password \/ (seen.status = "active" /\ filled.status = "disabled")
    IN
    /\ form[f] # Idle /\ form[f].op = "edit"
    /\ Owned(seen) => email = seen.email
    /\ form' = [form EXCEPT ![f] = Idle]
    /\ IF refused \/ ~Exists(u) \/ ~Free(u, new.email) THEN UNCHANGED <<acct, links>>
       ELSE StoreUser(u, new, revoke)
    /\ UNCHANGED <<conn, token, req, ops>>

\* RevokeUserSessions, which is also how an invitation is cancelled.
RevokeUserAccess(u) ==
    /\ Exists(u) /\ Op
    /\ links' = LinksAfter({u}, {})
    /\ UNCHANGED <<conn, token, acct, req, form>>

-----------------------------------------------------------------------------
(* Links                                                                   *)

\* An account the link could not make usable gets none.
Eligible(a, kind) ==
    IF kind = "activation" THEN a.pending /\ (Owned(a) => a.sourceActive /\ ~a.localOff)
    ELSE a.status = "active" /\ ~a.pending

\* AdminIssueLink, up to the row it reads.
AdminIssueLink(f, u, kind, mailed) == Reads(f, u, kind, mailed)

\* Forgot, for an account that may be reset when it is read.
Forgot(f, u) == Eligible(acct[u], "reset") /\ Reads(f, u, "reset", TRUE)

\* issue: where the link goes, the address being the one that was read.
Issue(f) ==
    [user |-> form[f].user, kind |-> form[f].op, stale |-> FALSE,
     to |-> IF form[f].mailed THEN form[f].row.email ELSE ByHand]

\* The new link retires the others of its kind.
IssueAccountToken(f) ==
    LET u == form[f].user
        kind == form[f].op
    IN
    /\ form[f] # Idle /\ kind \in Kinds
    /\ form' = [form EXCEPT ![f] = Idle]
    /\ links' = IF Eligible(acct[u], kind)
                THEN {l \in links : l.user # u \/ l.kind # kind} \cup {Issue(f)} ELSE links
    /\ UNCHANGED <<conn, token, acct, req, ops>>

\* Bug: an activation makes the account active.
ActivatedBare(a) == [a EXCEPT !.pending = FALSE, !.status = "active"]

\* The row after an activation: its status is derived from the source, never a bare active.
Activated(a) ==
    [a EXCEPT !.pending = FALSE,
              !.status = IF Owned(a) /\ ~(a.sourceActive /\ ~a.localOff) THEN "disabled"
                         ELSE "active"]

\* A link is spent only on an account still in the state it was issued for; every link of
\* the account ends with it, and one that was mailed proves the address.
RedeemAccountToken(l) ==
    LET a == acct[l.user]
        fits == IF l.kind = "activation" THEN a.pending ELSE a.status = "active" /\ ~a.pending
        b == IF l.kind = "activation" THEN Activated(a) ELSE a
    IN
    /\ l \in links /\ fits /\ Op
    /\ acct' = [acct EXCEPT ![l.user] =
                  [b EXCEPT !.proven = IF @ = NoEmail /\ l.to # ByHand THEN l.to ELSE @]]
    /\ links' = LinksAfter({l.user}, {})
    /\ UNCHANGED <<conn, token, req, form>>

\* ChangePassword, by the owner.
ChangePassword(u) ==
    /\ acct[u].status = "active" /\ ~acct[u].pending /\ Op
    /\ links' = LinksAfter({u}, {u})
    /\ UNCHANGED <<conn, token, acct, req, form>>

\* The link's lifetime ends.
LinkExpires(l) ==
    /\ l \in links
    /\ links' = links \ {l}
    /\ UNCHANGED <<conn, token, acct, req, form, ops>>

-----------------------------------------------------------------------------
Next ==
    \/ \E c \in Connectors :
        \/ CreateSCIMConnector(c)
        \/ \E status \in {"active", "disabled"} : UpdateSCIMConnector(c, status)
        \/ \E scope \in {"", "read", "write"} : AdminIssueToken(c, scope)
        \/ \E scope \in {"read", "write"} : RevokeSCIMToken(c, scope)
        \/ \E users \in {"keep", "disable"} : AdminDelete(c, users)
    \/ \E r \in Requests :
        \/ \E c \in Connectors, u \in Users, email \in Emails, active \in BOOLEAN :
              CreateArrives(r, c, u, email, active) \/ UpdateArrives(r, c, u, email, active)
        \/ CreateUpstreamUser(r)
        \/ UpdateUpstreamUser(r)
    \/ \E u \in Users :
        \/ \E email \in Emails, invited \in BOOLEAN : CreateUser(u, email, invited)
        \/ RevokeUserAccess(u)
        \/ ChangePassword(u)
    \/ \E f \in Forms :
        \/ \E u \in Users : ReadUser(f, u) \/ Forgot(f, u)
        \/ \E u \in Users, kind \in Kinds, mailed \in BOOLEAN : AdminIssueLink(f, u, kind, mailed)
        \/ \E given, password \in BOOLEAN, status \in {"active", "disabled"}, email \in Emails :
              SaveUser(f, given, status, email, password)
        \/ IssueAccountToken(f)
    \/ \E l \in links : RedeemAccountToken(l) \/ LinkExpires(l)

Spec == Init /\ [][Next]_vars

-----------------------------------------------------------------------------
(* Properties                                                              *)

TypeOK ==
    /\ conn \in [Connectors -> {"none", "active", "disabled", "gone"}]
    /\ token \in [Connectors -> SUBSET {"read", "write"}]
    /\ acct \in [Users -> Account]
    /\ links \subseteq Link
    /\ req \in [Requests -> Write \cup {Idle}]
    /\ form \in [Forms -> Form \cup {Idle}]
    /\ ops \in 0..MaxOps

\* An owned account is active exactly while its upstream wants it, no administrator holds
\* it down and a password is set, whichever of upstream, administrator, link or disconnect
\* wrote the row last (ApplySourceState and RedeemAccountToken).
StatusFollowsSource ==
    \A u \in Users : Owned(acct[u]) =>
        (acct[u].status = "active" <=>
            acct[u].sourceActive /\ ~acct[u].localOff /\ ~acct[u].pending)

\* An account that an administrator holds down becomes active only in an administrator's
\* own edit: not by a SCIM write that read the row before, nor by a link or a disconnect
\* (UpdateUpstreamUser folds the override from the row it locks).
LocalDisableHolds ==
    [][\A u \in Users :
        Owned(acct[u]) /\ acct[u].localOff /\ (acct'[u].status = "active" \/ ~acct'[u].localOff)
        => \/ form' # form
           \/ conn' # conn /\ acct'[u].status = "disabled"]_vars

\* An administrator's edit never undoes an upstream write that landed after the edit read
\* the row (updateUser takes the upstream's fields from the row).
SourceFieldsKept ==
    [][form' # form =>
        \A u \in Users : Owned(acct[u]) =>
            /\ acct'[u].email = acct[u].email
            /\ acct'[u].sourceActive = acct[u].sourceActive]_vars

\* A SCIM write changes only an account that its connector owns at that moment: nothing of
\* another connector, and nothing after a disconnect made the account local.
OnlyTheOwnerWrites ==
    [][\A r \in Requests : req[r] # Idle /\ req'[r] = Idle =>
        \A u \in Users : acct'[u] # acct[u] =>
            acct[u].owner \in {Nobody, req[r].conn}]_vars

\* Upstream, administrator and owner overlap on one account, and each writes only what is
\* its own, also when it read the row before another wrote it.
SidesKeepTheirOwn == LocalDisableHolds /\ SourceFieldsKept /\ OnlyTheOwnerWrites

\* No live link is older than the account's last password, its last offboarding or its
\* last change of address: such a link must not set the password (expireAccountTokensTx).
LinksFitTheirAccount == \A l \in links : ~l.stale
=============================================================================
