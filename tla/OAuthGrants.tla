---------------------------- MODULE OAuthGrants ----------------------------
(***************************************************************************)
(* Grants of the OpenID provider: browser sessions, authorization codes,   *)
(* registered access tokens, the sid each client sees for a login, and the *)
(* back-channel logouts queued when a login or the access behind it ends.  *)
(*                                                                         *)
(* A store method is one transaction and one action. A token request makes *)
(* several (ExchangeAuthorizationCode reads, spends, registers, binds and  *)
(* answers), so revocations interleave with it at every pc.                *)
(***************************************************************************)
EXTENDS Naturals, FiniteSets

CONSTANTS
    Users, Clients, Sessions, Exchanges,
    Owner,          \* Owner[s]: the account behind a session
    Receivers,      \* clients with a backchannel_logout_uri
    MaxCodes,       \* bound: authorization codes minted
    MaxChanges,     \* bound: administrative changes
    ClientToggles   \* bound: how often a client is disabled

ASSUME OwnerAssumption == Owner \in [Sessions -> Users]
ASSUME ReceiverAssumption == Receivers \subseteq Clients
ASSUME BoundAssumption == MaxCodes \in Nat /\ MaxChanges \in Nat /\ ClientToggles \in Nat

Scopes == Users \X Clients

VARIABLES
    user,       \* account status; "ended" is active past its end date, "halted" is disabled
                \* by an edit after that date, which revokes nothing
    granted,    \* <<user, client>> with an assignment, membership or open policy
    lapsed,     \* the granted ones whose instant has passed, row not yet removed
    enabled,    \* enabled clients
    revision,   \* auth_revision and role_revision of the client's app
    allowed,    \* sessions mfa_session_access allows
    sess,       \* sessions; "ended" by an action, "dropped" at their lifetime
    codes,      \* authorization_codes
    minted,     \* codes minted so far
    tokens,     \* issued_tokens
    sids,       \* oidc_client_sessions: the sid number of <<client, session>>, 0 if none
    lastSid,    \* last sid number minted per <<client, session>>
    queued,     \* <<client, session, sid>> that enqueueLogoutTx has queued
    exch,       \* token requests in progress
    logins,     \* ghost: <<client, session, sid>> of ID tokens handed to a client
    issued,     \* ghost: tokens registered per code
    takenBack,  \* ghost: ids of the codes whose scope's grants were revoked after they were minted
    changes, toggles

directory == <<user, granted, lapsed, enabled, revision, allowed>>
bounds == <<changes, toggles>>
vars == <<user, granted, lapsed, enabled, revision, allowed, sess, codes, minted, tokens,
          sids, lastSid, queued, exch, logins, issued, takenBack, changes, toggles>>

-----------------------------------------------------------------------------
Views == Clients \X Sessions
Code == [id : Nat, client : Clients, session : Sessions, used : BOOLEAN,
         rev : Nat]
Token == [code : Nat, client : Clients, session : Sessions, revoked : BOOLEAN]
UserStatus == {"active", "ended", "halted", "disabled"}
SessionStatus == {"none", "live", "expired", "ended", "dropped"}
Idle == [pc |-> "idle"]
Busy == [pc : {"read", "spent", "recorded", "bound"}, code : Code, sid : Nat]

\* effective_app_access, joined with the enabled client.
Access(u, c) ==
    user[u] = "active" /\ <<u, c>> \in granted \ lapsed /\ c \in enabled

Row(s) == sess[s] \in {"live", "expired"}
Scope(g) == <<Owner[g.session], g.client>>

\* IsTokenRevoked, negated: what GetUserinfo still accepts.
Usable(t) == ~t.revoked /\ Row(t.session) /\ t.session \in allowed

Init ==
    /\ user = [u \in Users |-> "active"]
    /\ granted = Scopes /\ lapsed = {}
    /\ enabled = Clients
    /\ revision = [c \in Clients |-> 0]
    /\ allowed = Sessions
    /\ sess = [s \in Sessions |-> "none"]
    /\ codes = {} /\ minted = 0 /\ tokens = {}
    /\ sids = [v \in Views |-> 0] /\ lastSid = [v \in Views |-> 0]
    /\ queued = {}
    /\ exch = [x \in Exchanges |-> Idle]
    /\ logins = {}
    /\ issued = [n \in 1..MaxCodes |-> 0]
    /\ takenBack = {}
    /\ changes = 0 /\ toggles = 0

-----------------------------------------------------------------------------
(* Revocation, as the transactions compose it                              *)

\* The ghost of a revocation of the scopes of P.
TakeBack(P) ==
    takenBack' = takenBack \cup {g.id : g \in {h \in codes : Scope(h) \in P}}
                           \cup {t.code : t \in {h \in tokens : Scope(h) \in P}}

\* revoked_at and the deletion of codes, spent ones included, for the scopes of P.
RevokeGrants(P) ==
    /\ tokens' = {IF Scope(t) \in P THEN [t EXCEPT !.revoked = TRUE] ELSE t : t \in tokens}
    /\ codes' = {g \in codes : Scope(g) \notin P}
    /\ TakeBack(P)

\* enqueueLogoutTx for the rows of V: enabled clients with a receiver only.
Enqueue(V, on) ==
    queued' = queued \cup {<<v[1], v[2], sids[v]>> : v \in
                 {w \in V : sids[w] # 0 /\ w[1] \in on \cap Receivers}}

Forget(V) == sids' = [v \in Views |-> IF v \in V THEN 0 ELSE sids[v]]

\* revokeSessionsTx: queue logouts, take back what the sessions minted, delete the rows;
\* sids cascade.
EndSessions(S) ==
    /\ Enqueue({v \in Views : v[2] \in S}, enabled)
    /\ tokens' = {IF t.session \in S THEN [t EXCEPT !.revoked = TRUE] ELSE t : t \in tokens}
    /\ codes' = {g \in codes : g.session \notin S}
    /\ sess' = [s \in Sessions |-> IF s \in S THEN "ended" ELSE sess[s]]
    /\ Forget({v \in Views : v[2] \in S})

Of(u) == {s \in Sessions : Owner[s] = u /\ Row(s)}

\* Bug: the sid mapping goes before the logout is queued from it.
RevokeLostUnannounced(has, on) ==
    LET lost == {p \in Scopes : ~has[p]}
        views == {v \in Views : Row(v[2]) /\ <<Owner[v[2]], v[1]>> \in lost}
    IN  RevokeGrants(lost) /\ Forget(views) /\ UNCHANGED queued

\* revokeLostAppAccessTx, over the access the mutation leaves: has[<<u, c>>].
RevokeLost(has, on) ==
    LET lost == {p \in Scopes : ~has[p]}
        views == {v \in Views : Row(v[2]) /\ <<Owner[v[2]], v[1]>> \in lost}
    IN  RevokeGrants(lost) /\ Enqueue(views, on) /\ Forget(views)

MayChange == changes < MaxChanges /\ changes' = changes + 1
Requests == <<exch, logins, issued>>

-----------------------------------------------------------------------------
(* Sign-in and authorization                                               *)

\* CreateSession
SignIn(s) ==
    /\ sess[s] = "none" /\ user[Owner[s]] \in {"active", "ended"}
    /\ sess' = [sess EXCEPT ![s] = "live"]
    /\ UNCHANGED <<directory, codes, minted, tokens, sids, lastSid, queued, Requests, takenBack, bounds>>

\* Authorize: the code transaction rechecks client, access, session and MFA, and pins
\* the policy revision.
Authorize(s, c) ==
    /\ minted < MaxCodes
    /\ sess[s] = "live" /\ s \in allowed /\ Access(Owner[s], c)
    /\ minted' = minted + 1
    /\ codes' = codes \cup {[id |-> minted + 1, client |-> c, session |-> s, used |-> FALSE,
                             rev |-> revision[c]]}
    /\ UNCHANGED <<directory, sess, tokens, sids, lastSid, queued, Requests, takenBack, bounds>>

-----------------------------------------------------------------------------
(* ExchangeAuthorizationCode                                               *)

Grants == <<directory, sess, minted, lastSid, takenBack, bounds>>
Fail(x) == exch' = [exch EXCEPT ![x] = Idle]

\* GetValidAuthorizationCode and the binding checks: client, secret, redirect, PKCE.
ReadCode(x) ==
    /\ exch[x] = Idle
    /\ \E g \in codes :
         /\ ~g.used /\ g.client \in enabled
         /\ exch' = [exch EXCEPT ![x] = [pc |-> "read", code |-> g, sid |-> 0]]
    /\ UNCHANGED <<Grants, codes, tokens, sids, queued, logins, issued>>

\* Bug: the code is marked spent without asking whether it already was.
ConsumeUnchecked(x) ==
    LET mine == {g \in codes : g.id = exch[x].code.id} IN
    /\ exch[x].pc = "read"
    /\ codes' = (codes \ mine) \cup {[g EXCEPT !.used = TRUE] : g \in mine}
    /\ IF mine # {} THEN exch' = [exch EXCEPT ![x].pc = "spent"] ELSE Fail(x)
    /\ UNCHANGED <<Grants, tokens, sids, queued, logins, issued>>

\* ConsumeAuthorizationCode: the compare-and-swap.
Consume(x) ==
    LET mine == {g \in codes : g.id = exch[x].code.id /\ ~g.used} IN
    /\ exch[x].pc = "read"
    /\ codes' = (codes \ mine) \cup {[g EXCEPT !.used = TRUE] : g \in mine}
    /\ IF mine # {} THEN exch' = [exch EXCEPT ![x].pc = "spent"] ELSE Fail(x)
    /\ UNCHANGED <<Grants, tokens, sids, queued, logins, issued>>

\* Bugs: registering on the code read earlier; registering without asking for access.
RegistrableStale(g) ==
    /\ sess[g.session] = "live" /\ g.session \in allowed
    /\ Access(Owner[g.session], g.client)

RegistrableUnchecked(g) ==
    /\ sess[g.session] = "live" /\ g.session \in allowed
    /\ \E h \in codes : h.id = g.id /\ h.used /\ h.rev = revision[h.client]

\* The WHERE clause of RecordIssuedToken: session, MFA, account, access, and the spent
\* code still there under the policy it was issued for.
Registrable(g) ==
    /\ sess[g.session] = "live" /\ g.session \in allowed
    /\ Access(Owner[g.session], g.client)
    /\ \E h \in codes : h.id = g.id /\ h.used /\ h.rev = revision[h.client]

RecordIssuedToken(x) ==
    LET g == exch[x].code IN
    /\ exch[x].pc = "spent"
    /\ IF Registrable(g)
       THEN /\ tokens' = tokens \cup {[code |-> g.id, client |-> g.client,
                              session |-> g.session, revoked |-> FALSE]}
            /\ issued' = [issued EXCEPT ![g.id] = @ + 1]
            /\ exch' = [exch EXCEPT ![x].pc = "recorded"]
       ELSE Fail(x) /\ UNCHANGED <<tokens, issued>>
    /\ UNCHANGED <<Grants, codes, sids, queued, logins>>

\* Bug: a login is bound although its session has gone.
EnsureClientSessionLate(x) ==
    LET v == <<exch[x].code.client, exch[x].code.session>>
        k == IF sids[v] # 0 THEN sids[v] ELSE lastSid[v] + 1
    IN
    /\ exch[x].pc = "recorded"
    /\ sids' = [sids EXCEPT ![v] = k]
    /\ lastSid' = [lastSid EXCEPT ![v] = IF k > @ THEN k ELSE @]
    /\ exch' = [exch EXCEPT ![x].pc = "bound", ![x].sid = k]
    /\ UNCHANGED <<directory, sess, minted, takenBack, bounds, codes, tokens, queued, logins, issued>>

\* EnsureClientSession: the sid of this login, minted on first use, while the session
\* row exists.
EnsureClientSession(x) ==
    LET v == <<exch[x].code.client, exch[x].code.session>>
        k == IF sids[v] # 0 THEN sids[v] ELSE lastSid[v] + 1
    IN
    /\ exch[x].pc = "recorded"
    /\ IF Row(v[2])
       THEN /\ sids' = [sids EXCEPT ![v] = k]
            /\ lastSid' = [lastSid EXCEPT ![v] = IF k > @ THEN k ELSE @]
            /\ exch' = [exch EXCEPT ![x].pc = "bound", ![x].sid = k]
       ELSE Fail(x) /\ UNCHANGED <<sids, lastSid>>
    /\ UNCHANGED <<directory, sess, minted, takenBack, bounds, codes, tokens, queued, logins, issued>>

\* The response reaches the client, or claims or signing fail (Abandon); a request without
\* the openid scope carries no sid and ends like one that failed after "recorded".
Answer(x) ==
    /\ exch[x].pc = "bound"
    /\ logins' = logins \cup {<<exch[x].code.client, exch[x].code.session, exch[x].sid>>}
    /\ Fail(x)
    /\ UNCHANGED <<Grants, codes, tokens, sids, queued, issued>>

Abandon(x) ==
    /\ exch[x] # Idle
    /\ Fail(x)
    /\ UNCHANGED <<Grants, codes, tokens, sids, queued, logins, issued>>

-----------------------------------------------------------------------------
(* Sign-out and revocation                                                 *)

\* RevokeSession: sign-out, EndSession, an administrator revoking one session.
RevokeSession(s) ==
    /\ Row(s) /\ EndSessions({s})
    /\ UNCHANGED <<directory, minted, lastSid, Requests, takenBack, bounds>>

\* RevokeOtherSessions
RevokeOtherSessions(s) ==
    /\ sess[s] = "live" /\ EndSessions(Of(Owner[s]) \ {s})
    /\ UNCHANGED <<directory, minted, lastSid, Requests, takenBack, bounds>>

\* revokeUserAccessTx, with the status change of updateUser or RunDueExpiries, or alone.
EndAccount(u, to) ==
    /\ user' = [user EXCEPT ![u] = to]
    /\ Enqueue({v \in Views : v[2] \in Of(u)}, enabled)
    /\ RevokeGrants({u} \X Clients)
    /\ sess' = [s \in Sessions |-> IF s \in Of(u) THEN "ended" ELSE sess[s]]
    /\ Forget({v \in Views : v[2] \in Of(u)})
    /\ UNCHANGED <<granted, lapsed, enabled, revision, allowed, minted, lastSid, Requests, toggles>>

RevokeUserAccess(u) == MayChange /\ EndAccount(u, user[u])
DisableUser(u) == MayChange /\ user[u] = "active" /\ EndAccount(u, "disabled")
ExpireAccount(u) == user[u] = "ended" /\ EndAccount(u, "disabled") /\ UNCHANGED changes

\* updateUser on an account past its end date, which it reads as disabled already: the
\* status is written and offboardUserTx is not run.
HaltUser(u) ==
    /\ MayChange /\ user[u] = "ended"
    /\ user' = [user EXCEPT ![u] = "halted"]
    /\ UNCHANGED <<granted, lapsed, enabled, revision, allowed, sess, codes, minted, tokens,
                   sids, lastSid, queued, Requests, takenBack, toggles>>

\* updateUser, enabling an account: a past end date it still carries is left in place.
EnableUser(u) ==
    /\ MayChange /\ user[u] \in {"halted", "disabled"}
    /\ \E to \in {"active", "ended"} : user' = [user EXCEPT ![u] = to]
    /\ UNCHANGED <<granted, lapsed, enabled, revision, allowed, sess, codes, minted, tokens,
                   sids, lastSid, queued, Requests, takenBack, toggles>>

\* updateUser, moving a past end date before the expiry tick saw it.
ExtendAccount(u) ==
    /\ MayChange /\ user[u] = "ended"
    /\ user' = [user EXCEPT ![u] = "active"]
    /\ UNCHANGED <<granted, lapsed, enabled, revision, allowed, sess, codes, minted, tokens,
                   sids, lastSid, queued, Requests, takenBack, toggles>>

\* RevokeUserClientAccess: one app's tokens and codes; the sid mapping stays.
RevokeUserClientAccess(u, c) ==
    /\ MayChange
    /\ Enqueue({v \in Views : v[1] = c /\ Owner[v[2]] = u}, enabled)
    /\ RevokeGrants({<<u, c>>})
    /\ UNCHANGED <<directory, sess, minted, sids, lastSid, Requests, toggles>>

\* RevokeToken (RFC 7009)
RevokeToken(t) ==
    /\ ~t.revoked
    /\ tokens' = (tokens \ {t}) \cup {[t EXCEPT !.revoked = TRUE]}
    /\ UNCHANGED <<directory, sess, codes, minted, sids, lastSid, queued, Requests, takenBack, bounds>>

-----------------------------------------------------------------------------
(* Policy                                                                  *)

Has(g, l) == [p \in Scopes |-> user[p[1]] = "active" /\ p \in g \ l /\ p[2] \in enabled]

\* setAppAssignment, SetAppPolicy, group membership: grants and revocations.
ChangeGrant(p) ==
    /\ MayChange
    /\ granted' = IF p \in granted \ lapsed THEN granted \ {p} ELSE granted \cup {p}
    /\ lapsed' = lapsed \ {p}
    /\ RevokeLost(Has(granted', lapsed'), enabled)
    /\ UNCHANGED <<user, enabled, revision, allowed, sess, minted, lastSid, Requests, toggles>>

\* The instant of a grant or an account passes: access ends with no transaction, and the
\* tokens bounded by it expire with it.
GrantLapses(p) ==
    /\ MayChange /\ p \in granted \ lapsed
    /\ lapsed' = lapsed \cup {p}
    /\ UNCHANGED <<user, granted, enabled, revision, allowed, sess, codes, minted, tokens,
                   sids, lastSid, queued, Requests, takenBack, toggles>>

AccountLapses(u) ==
    /\ MayChange /\ user[u] = "active"
    /\ user' = [user EXCEPT ![u] = "ended"]
    /\ UNCHANGED <<granted, lapsed, enabled, revision, allowed, sess, codes, minted, tokens,
                   sids, lastSid, queued, Requests, takenBack, toggles>>

\* RunDueExpiries: lapsed rows go, then whatever the views deny is revoked.
ExpiryTick ==
    /\ granted' = granted \ lapsed /\ lapsed' = {}
    /\ RevokeLost(Has(granted', {}), enabled)
    /\ UNCHANGED <<user, enabled, revision, allowed, sess, minted, lastSid, Requests, bounds>>

\* SetAppAuthenticationPolicy, SetAppClaimSettings: every grant of the client.
SetAppAuthenticationPolicy(c) ==
    /\ MayChange
    /\ revision' = [revision EXCEPT ![c] = @ + 1]
    /\ RevokeGrants(Users \X {c})
    /\ UNCHANGED <<user, granted, lapsed, enabled, allowed, sess, minted, sids, lastSid,
                   queued, Requests, toggles>>

\* roleChangeTx: the revision blocks every older code, the affected users lose theirs.
RoleChange(c, us) ==
    /\ MayChange
    /\ revision' = [revision EXCEPT ![c] = @ + 1]
    /\ RevokeGrants(us \X {c})
    /\ UNCHANGED <<user, granted, lapsed, enabled, allowed, sess, minted, sids, lastSid,
                   queued, Requests, toggles>>

\* SetEnrollmentPolicy and policy-membership changes: the grants of the accounts touched.
EnrollmentChange(us) ==
    /\ MayChange
    /\ \E a \in SUBSET Sessions :
         allowed' = {s \in Sessions : IF Owner[s] \in us THEN s \in a ELSE s \in allowed}
    /\ RevokeGrants(us \X Clients)
    /\ UNCHANGED <<user, granted, lapsed, enabled, revision, sess, minted, sids, lastSid,
                   queued, Requests, toggles>>

\* The enrollment grace of a session ends.
AssuranceLapses(s) ==
    /\ s \in allowed
    /\ allowed' = allowed \ {s}
    /\ UNCHANGED <<user, granted, lapsed, enabled, revision, sess, codes, minted, tokens,
                   sids, lastSid, queued, Requests, takenBack, bounds>>

\* UpdateOAuthClientWithAudit with enabled cleared: tokens are revoked, codes and sids stay.
DisableClient(c) ==
    /\ toggles < ClientToggles /\ toggles' = toggles + 1
    /\ c \in enabled /\ enabled' = enabled \ {c}
    /\ tokens' = {IF t.client = c THEN [t EXCEPT !.revoked = TRUE] ELSE t : t \in tokens}
    /\ TakeBack(Users \X {c})
    /\ UNCHANGED <<user, granted, lapsed, revision, allowed, sess, codes, minted, sids,
                   lastSid, queued, Requests, changes>>

\* UpdateOAuthClientWithAudit with revokeTokens: a new secret or redirect.
RotateClient(c) ==
    /\ MayChange /\ c \in enabled
    /\ tokens' = {IF t.client = c THEN [t EXCEPT !.revoked = TRUE] ELSE t : t \in tokens}
    /\ UNCHANGED <<directory, sess, codes, minted, sids, lastSid, queued, Requests,
                   takenBack, toggles>>

EnableClient(c) ==
    /\ c \notin enabled /\ enabled' = enabled \cup {c}
    /\ UNCHANGED <<user, granted, lapsed, revision, allowed, sess, codes, minted, tokens,
                   sids, lastSid, queued, Requests, takenBack, bounds>>

-----------------------------------------------------------------------------
(* Time and housekeeping                                                   *)

SessionExpires(s) ==
    /\ sess[s] = "live"
    /\ sess' = [sess EXCEPT ![s] = "expired"]
    /\ UNCHANGED <<directory, codes, minted, tokens, sids, lastSid, queued, Requests, takenBack, bounds>>

\* CleanupExpiredSessions: the sid mapping cascades, nothing is queued.
CleanupExpiredSessions ==
    LET S == {s \in Sessions : sess[s] = "expired"} IN
    /\ S # {}
    /\ sess' = [s \in Sessions |-> IF s \in S THEN "dropped" ELSE sess[s]]
    /\ Forget({v \in Views : v[2] \in S})
    /\ UNCHANGED <<directory, codes, minted, tokens, lastSid, queued, Requests, takenBack, bounds>>

\* DeleteExpiredAuthorizationCodes, and a code past its ten minutes before it.
CodeExpires(g) ==
    /\ codes' = codes \ {g}
    /\ UNCHANGED <<directory, sess, minted, tokens, sids, lastSid, queued, Requests, takenBack, bounds>>

\* DeleteExpiredIssuedTokens
TokenExpires(t) ==
    /\ tokens' = tokens \ {t}
    /\ UNCHANGED <<directory, sess, codes, minted, sids, lastSid, queued, Requests, takenBack, bounds>>

-----------------------------------------------------------------------------
ExchangeStep(x) ==
    \/ ReadCode(x) \/ Consume(x) \/ RecordIssuedToken(x) \/ EnsureClientSession(x)
    \/ Answer(x) \/ Abandon(x)

SessionStep(s) ==
    \/ SignIn(s) \/ RevokeSession(s) \/ RevokeOtherSessions(s)
    \/ AssuranceLapses(s) \/ SessionExpires(s)
    \/ \E c \in Clients : Authorize(s, c)

AccountStep(u) ==
    \/ RevokeUserAccess(u) \/ DisableUser(u) \/ HaltUser(u) \/ EnableUser(u)
    \/ AccountLapses(u) \/ ExtendAccount(u) \/ ExpireAccount(u)
    \/ \E c \in Clients : RevokeUserClientAccess(u, c)

PolicyStep ==
    \/ \E p \in Scopes : ChangeGrant(p) \/ GrantLapses(p)
    \/ \E c \in Clients :
         \/ SetAppAuthenticationPolicy(c) \/ RotateClient(c)
         \/ DisableClient(c) \/ EnableClient(c)
    \/ \E c \in Clients, us \in SUBSET Users : RoleChange(c, us)
    \/ \E us \in SUBSET Users : EnrollmentChange(us)
    \/ ExpiryTick

Next ==
    \/ \E x \in Exchanges : ExchangeStep(x)
    \/ \E s \in Sessions : SessionStep(s)
    \/ \E u \in Users : AccountStep(u)
    \/ PolicyStep
    \/ \E t \in tokens : RevokeToken(t) \/ TokenExpires(t)
    \/ \E g \in codes : CodeExpires(g)
    \/ CleanupExpiredSessions

Spec == Init /\ [][Next]_vars

\* The minute ticker of StartWorker and the housekeeping ticker keep firing.
Fairness ==
    /\ WF_vars(ExpiryTick)
    /\ WF_vars(CleanupExpiredSessions)
    /\ \A u \in Users : WF_vars(ExpireAccount(u))

FairSpec == Spec /\ Fairness

-----------------------------------------------------------------------------
(* Properties                                                              *)

\* Every table row and every token request in progress has its shape.
TypeOK ==
    /\ user \in [Users -> UserStatus]
    /\ granted \subseteq Scopes /\ lapsed \subseteq granted
    /\ enabled \subseteq Clients
    /\ revision \in [Clients -> Nat]
    /\ allowed \subseteq Sessions
    /\ sess \in [Sessions -> SessionStatus]
    /\ codes \subseteq Code /\ minted \in 0..MaxCodes
    /\ tokens \subseteq Token
    /\ sids \in [Views -> Nat] /\ lastSid \in [Views -> Nat]
    /\ queued \subseteq Clients \X Sessions \X Nat
    /\ exch \in [Exchanges -> Busy \cup {Idle}]
    /\ logins \subseteq Clients \X Sessions \X Nat
    /\ issued \in [1..MaxCodes -> Nat]
    /\ takenBack \subseteq 1..MaxCodes
    /\ changes \in 0..MaxChanges /\ toggles \in 0..ClientToggles

\* An authorization code buys one access token, however many token requests race on it:
\* ConsumeAuthorizationCode's compare-and-swap.
CodeSpentOnce == \A n \in 1..MaxCodes : issued[n] <= 1

\* A token userinfo accepts belongs to an account that has access to its client now, at
\* whatever point of an exchange that access went; access that ended by the clock is the
\* exception, until the expiry tick.
UsableTokenHasAccess ==
    \A t \in tokens : Usable(t) =>
        \/ Access(Owner[t.session], t.client)
        \/ Scope(t) \in lapsed
        \/ user[Owner[t.session]] \in {"ended", "halted"}

\* "Re-granting access cannot revive invalidated codes or tokens": no token is usable on
\* the strength of a code from before its scope's grants were last taken back. Disabling a
\* client leaves the codes it has, and is the exception.
NoRevivedGrant ==
    toggles = 0 => \A t \in tokens : Usable(t) => t.code \notin takenBack

\* What was used up or taken back gives no further token: a code is redeemed once, and
\* granting access again revives neither a code nor a token.
SpentStaysSpent == CodeSpentOnce /\ NoRevivedGrant

\* "Whenever a login ends ... KySignOn queues one delivery per client that saw that login
\* and has a receiver": a login a client holds an ID token for is queued for logout once
\* its session was ended, unless a client was disabled meanwhile (enqueueLogoutTx asks for
\* enabled clients and the sids are cleared either way).
EndedLoginsAnnounced ==
    toggles = 0 =>
        \A l \in logins : l[1] \in Receivers /\ sess[l[2]] = "ended" => l \in queued

\* A login handed to a client whose account has lost access, also by a request that was
\* past its access check when the access went, is announced in the end, unless access
\* returns, the session runs out or a client is disabled.
LoginsFollowAccess ==
    \A c \in Receivers, s \in Sessions : \A k \in 1..MaxCodes :
        (<<c, s, k>> \in logins /\ ~Access(Owner[s], c))
            ~> \/ <<c, s, k>> \in queued \/ Access(Owner[s], c)
               \/ sess[s] = "dropped" \/ toggles > 0
=============================================================================
