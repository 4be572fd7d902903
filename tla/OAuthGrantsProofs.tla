------------------------- MODULE OAuthGrantsProofs -------------------------
(***************************************************************************)
(* What OAuthGrants guarantees for any number of accounts, clients, logins *)
(* and token requests, and any history of administrative changes.          *)
(***************************************************************************)
EXTENDS OAuthGrants, TLAPS

-----------------------------------------------------------------------------
(* The inductive invariants                                                *)

\* What codes, tokens and requests say of the code they are or descend from.
Tells(n, c, r) == <<n, c, r>>
Origins ==
    {Tells(g.id, g.client, g.session) : g \in codes}
        \cup {Tells(t.code, t.client, t.session) : t \in tokens}
        \cup {Tells(exch[x].code.id, exch[x].code.client, exch[x].code.session) :
                  x \in {y \in Exchanges : exch[y] # Idle}}

\* Whatever descends from a code was minted, and tells the same of it.
OneOrigin ==
    \A o, p \in Origins : o[1] \in 1 .. minted /\ (o[1] = p[1] => o = p)

Typed == TypeOK /\ OneOrigin

Spent(x, n) == exch[x].pc = "spent" /\ exch[x].code.id = n
Unspent(n) == \E g \in codes : g.id = n /\ ~g.used

\* A code is unspent, or one request has spent it, or its token is registered.
SpentOnce ==
    \A n \in 1..MaxCodes :
        /\ issued[n] <= 1
        /\ n > minted => issued[n] = 0
        /\ Unspent(n) => issued[n] = 0 /\ \A x \in Exchanges : ~Spent(x, n)
        /\ \A x \in Exchanges : Spent(x, n) => issued[n] = 0
        /\ \A x, y \in Exchanges : Spent(x, n) /\ Spent(y, n) => x = y

\* A token that was not revoked belongs to an account that was given access, by a row still
\* there, and that no disabling has ended.
Backed(t) ==
    /\ Scope(t) \in granted /\ t.client \in enabled
    /\ user[Owner[t.session]] # "disabled"
TokensBacked == \A t \in tokens : ~t.revoked => Backed(t)

\* What was taken back is neither a code any more nor a token in force.
NothingBack ==
    /\ takenBack \subseteq 1..minted
    /\ toggles = 0 => /\ \A g \in codes : g.id \notin takenBack
                      /\ \A t \in tokens : ~t.revoked => t.code \notin takenBack

\* The logins handed to a client, or about to be.
Handed ==
    logins \cup {<<exch[x].code.client, exch[x].code.session, exch[x].sid>> :
                     x \in {y \in Exchanges : exch[y].pc = "bound"}}

\* A sid handed out is still mapped or its logout is queued, unless the login ran out.
Followed(c, s, k) ==
    c \in Receivers => \/ sids[<<c, s>>] = k /\ Row(s)
                       \/ <<c, s, k>> \in queued
                       \/ sess[s] = "dropped"
LoginsFollowed ==
    /\ \A v \in Views : sids[v] # 0 => Row(v[2])
    /\ toggles = 0 => /\ enabled = Clients
                      /\ \A l \in Handed : l[3] # 0 /\ Followed(l[1], l[2], l[3])

-----------------------------------------------------------------------------
(* What the operators of a revocation do                                   *)

\* Tokens are revoked and go, none is made; nor is a code or a request.
OnlyRevokes ==
    \A t \in tokens' : \E u \in tokens : t = u \/ t = [u EXCEPT !.revoked = TRUE]

Inherits ==
    /\ OnlyRevokes /\ codes' \subseteq codes
    /\ UNCHANGED <<minted, exch, logins, issued>>

LEMMA TokenRevoked ==
    ASSUME NEW t \in Token
    PROVE  LET u == [t EXCEPT !.revoked = TRUE]
           IN  /\ u \in Token /\ u.revoked
               /\ u.code = t.code /\ u.client = t.client /\ u.session = t.session
  BY DEF Token

LEMMA RevokedTokens ==
    ASSUME tokens \subseteq Token, OnlyRevokes
    PROVE  /\ tokens' \subseteq Token
           /\ \A t \in tokens' : /\ ~t.revoked => t \in tokens
                                 /\ \E u \in tokens : /\ t.code = u.code
                                                      /\ t.client = u.client
                                                      /\ t.session = u.session
  <1> SUFFICES ASSUME NEW t \in tokens'
               PROVE  /\ t \in Token
                      /\ ~t.revoked => t \in tokens
                      /\ \E u \in tokens : /\ t.code = u.code
                                           /\ t.client = u.client
                                           /\ t.session = u.session
    OBVIOUS
  <1>1. PICK u \in tokens : t = u \/ t = [u EXCEPT !.revoked = TRUE]
    BY DEF OnlyRevokes
  <1>2. u \in Token
    OBVIOUS
  <1> QED
    BY <1>1, <1>2, TokenRevoked, Zenon

LEMMA RevokedGrants ==
    ASSUME tokens \subseteq Token, NEW P, RevokeGrants(P)
    PROVE  /\ OnlyRevokes
           /\ codes' \subseteq codes
           /\ \A t \in tokens' : ~t.revoked => t \in tokens /\ Scope(t) \notin P
           /\ \A g \in codes' : Scope(g) \notin P
  <1>1. OnlyRevokes
    BY DEF RevokeGrants, OnlyRevokes
  <1>2. ASSUME NEW t \in tokens', ~t.revoked
        PROVE  t \in tokens /\ Scope(t) \notin P
    <2>1. PICK u \in tokens : t = IF Scope(u) \in P THEN [u EXCEPT !.revoked = TRUE] ELSE u
      BY DEF RevokeGrants
    <2>2. u \in Token
      OBVIOUS
    <2> QED
      BY <1>2, <2>1, <2>2, TokenRevoked, Zenon
  <1> QED
    BY <1>1, <1>2 DEF RevokeGrants

\* The codes of rows and requests were minted.
LEMMA Descendants ==
    ASSUME Typed
    PROVE  /\ \A g \in codes : g.id \in 1 .. minted
           /\ \A t \in tokens : t.code \in 1 .. minted
           /\ \A x \in Exchanges : exch[x] # Idle => exch[x].code.id \in 1 .. minted
           /\ 1 .. minted \subseteq 1 .. MaxCodes
  <1>1. \A o \in Origins : o[1] \in 1 .. minted
    BY DEF Typed, OneOrigin
  <1>2. \A n, c, r : Tells(n, c, r) \in Origins => n \in 1 .. minted
    BY <1>1 DEF Tells
  <1>3. /\ \A g \in codes : Tells(g.id, g.client, g.session) \in Origins
        /\ \A t \in tokens : Tells(t.code, t.client, t.session) \in Origins
        /\ \A x \in Exchanges : exch[x] # Idle =>
              Tells(exch[x].code.id, exch[x].code.client, exch[x].code.session) \in Origins
    BY Zenon DEF Origins
  <1>4. 1 .. minted \subseteq 1 .. MaxCodes
    BY BoundAssumption DEF Typed, TypeOK
  <1> QED
    BY <1>2, <1>3, <1>4, Zenon

\* What is taken back was minted.
LEMMA TakenBack ==
    ASSUME NEW P, TakeBack(P), Typed
    PROVE  takenBack' \subseteq takenBack \cup 1 .. minted /\ takenBack' \subseteq 1 .. MaxCodes
  <1>1. takenBack \subseteq 1 .. MaxCodes
    BY DEF Typed, TypeOK
  <1>2. takenBack' \subseteq takenBack \cup 1 .. minted
    BY Descendants, Zenon DEF TakeBack
  <1> QED
    BY <1>1, <1>2, Descendants

LEMMA Queueing ==
    ASSUME TypeOK, NEW V \in SUBSET Views, NEW on, Enqueue(V, on)
    PROVE  /\ queued' \subseteq Clients \X Sessions \X Nat
           /\ queued \subseteq queued'
           /\ \A v \in V : sids[v] # 0 /\ v[1] \in on \cap Receivers =>
                 <<v[1], v[2], sids[v]>> \in queued'
  BY DEF TypeOK, Enqueue, Views

LEMMA Forgetting ==
    ASSUME TypeOK, NEW V, Forget(V)
    PROVE  /\ sids' \in [Views -> Nat]
           /\ \A v \in Views : sids'[v] = IF v \in V THEN 0 ELSE sids[v]
  BY DEF TypeOK, Forget

LEMMA EndedSessions ==
    ASSUME TypeOK, NEW S, EndSessions(S)
    PROVE  /\ OnlyRevokes
           /\ codes' \subseteq codes
           /\ sess' \in [Sessions -> SessionStatus]
           /\ sids' \in [Views -> Nat]
           /\ queued' \subseteq Clients \X Sessions \X Nat
  <1>1. {v \in Views : v[2] \in S} \in SUBSET Views
    OBVIOUS
  <1>2. OnlyRevokes /\ codes' \subseteq codes
    BY DEF EndSessions, OnlyRevokes
  <1>3. sess' \in [Sessions -> SessionStatus]
    BY DEF EndSessions, TypeOK, SessionStatus
  <1> QED
    BY <1>1, <1>2, <1>3, Queueing, Forgetting DEF EndSessions

-----------------------------------------------------------------------------
(* What the steps leave: types, and no new code, token or request           *)

LEMMA ExchangeTypes ==
    ASSUME Typed, NEW x \in Exchanges, ExchangeStep(x)
    PROVE  TypeOK'
  <1> USE DEF Typed
  <1>1. \A y \in Exchanges : exch[y] \in Busy \cup {Idle}
    BY DEF TypeOK
  <1>2. Idle.pc = "idle"
    BY DEF Idle
  <1>3. CASE ReadCode(x)
    <2>1. PICK g \in codes : exch' = [exch EXCEPT ![x] = [pc |-> "read", code |-> g, sid |-> 0]]
      BY <1>3 DEF ReadCode
    <2>2. [pc |-> "read", code |-> g, sid |-> 0] \in Busy
      BY DEF Busy, TypeOK
    <2>3. exch' \in [Exchanges -> Busy \cup {Idle}]
      BY <2>1, <2>2 DEF TypeOK
    <2> QED
      BY <1>3, <2>3 DEF ReadCode, Grants, directory, bounds, TypeOK
  <1>4. CASE Consume(x)
    <2>1. codes' \subseteq Code
      <3>1. \A g \in codes : [g EXCEPT !.used = TRUE] \in Code
        BY DEF TypeOK, Code
      <3> QED
        BY <1>4, <3>1 DEF Consume, TypeOK
    <2>2. exch' \in [Exchanges -> Busy \cup {Idle}]
      <3>1. exch[x] \in Busy
        BY <1>1, <1>2, <1>4 DEF Consume
      <3>2. [exch[x] EXCEPT !.pc = "spent"] \in Busy
        BY <3>1 DEF Busy
      <3> QED
        BY <1>4, <3>2 DEF Consume, Fail, TypeOK
    <2> QED
      BY <1>4, <2>1, <2>2 DEF Consume, Grants, directory, bounds, TypeOK
  <1>5. CASE RecordIssuedToken(x)
    <2>1. exch[x] \in Busy
      BY <1>1, <1>2, <1>5 DEF RecordIssuedToken
    <2>2. [exch[x] EXCEPT !.pc = "recorded"] \in Busy
      BY <2>1 DEF Busy
    <2>3. exch' \in [Exchanges -> Busy \cup {Idle}]
      BY <1>5, <2>2 DEF RecordIssuedToken, Fail, TypeOK
    <2>4. [code |-> exch[x].code.id, client |-> exch[x].code.client,
           session |-> exch[x].code.session, revoked |-> FALSE] \in Token
      BY <2>1 DEF Busy, Code, Token
    <2>5. tokens' \subseteq Token
      BY <1>5, <2>4 DEF RecordIssuedToken, TypeOK
    <2>6. issued' \in [1 .. MaxCodes -> Nat]
      BY <1>5 DEF RecordIssuedToken, TypeOK
    <2> QED
      BY <1>5, <2>3, <2>5, <2>6 DEF RecordIssuedToken, Grants, directory, bounds, TypeOK
  <1>6. CASE EnsureClientSession(x)
    <2> DEFINE v == <<exch[x].code.client, exch[x].code.session>>
    <2> DEFINE k == IF sids[v] # 0 THEN sids[v] ELSE lastSid[v] + 1
    <2>1. exch[x] \in Busy
      BY <1>1, <1>2, <1>6 DEF EnsureClientSession
    <2>2. v \in Views
      BY <2>1 DEF Busy, Code, Views
    <2>3. k \in Nat
      BY <2>2 DEF TypeOK
    <2>4. [exch[x] EXCEPT !.pc = "bound", !.sid = k] \in Busy
      BY <2>1, <2>3 DEF Busy
    <2> HIDE DEF k
    <2>5. exch' \in [Exchanges -> Busy \cup {Idle}]
      <3>1. \/ exch' = [exch EXCEPT ![x] = [exch[x] EXCEPT !.pc = "bound", !.sid = k]]
            \/ exch' = [exch EXCEPT ![x] = Idle]
        BY <1>6 DEF EnsureClientSession, Fail, k, TypeOK
      <3> QED
        BY <2>4, <3>1 DEF TypeOK
    <2>6. sids' \in [Views -> Nat] /\ lastSid' \in [Views -> Nat]
      BY <1>6, <2>2, <2>3 DEF EnsureClientSession, k, TypeOK
    <2> QED
      BY <1>6, <2>5, <2>6 DEF EnsureClientSession, directory, bounds, TypeOK
  <1>7. CASE Answer(x)
    <2>1. exch[x] \in Busy
      BY <1>1, <1>2, <1>7 DEF Answer
    <2>2. <<exch[x].code.client, exch[x].code.session, exch[x].sid>>
              \in Clients \X Sessions \X Nat
      BY <2>1 DEF Busy, Code
    <2>3. exch' \in [Exchanges -> Busy \cup {Idle}]
      BY <1>7 DEF Answer, Fail, TypeOK
    <2>4. logins' \subseteq Clients \X Sessions \X Nat
      BY <1>7, <2>2 DEF Answer, TypeOK
    <2> QED
      BY <1>7, <2>3, <2>4 DEF Answer, Grants, directory, bounds, TypeOK
  <1>8. CASE Abandon(x)
    <2>1. exch' \in [Exchanges -> Busy \cup {Idle}]
      BY <1>8 DEF Abandon, Fail, TypeOK
    <2> QED
      BY <1>8, <2>1 DEF Abandon, Grants, directory, bounds, TypeOK
  <1> QED
    BY <1>3, <1>4, <1>5, <1>6, <1>7, <1>8 DEF ExchangeStep

LEMMA SessionSteps ==
    ASSUME Typed, NEW s \in Sessions, SessionStep(s), ~\E c \in Clients : Authorize(s, c)
    PROVE  TypeOK' /\ Inherits
  <1> USE DEF Typed, Requests, directory, bounds
  <1>1. CASE SignIn(s)
    BY <1>1 DEF SignIn, TypeOK, SessionStatus, Inherits, OnlyRevokes
  <1>2. CASE \E S : /\ EndSessions(S)
                    /\ UNCHANGED <<directory, minted, lastSid, Requests, takenBack, bounds>>
    BY <1>2, EndedSessions, RevokedTokens DEF TypeOK, Inherits
  <1>3. CASE AssuranceLapses(s)
    BY <1>3 DEF AssuranceLapses, TypeOK, Inherits, OnlyRevokes
  <1>4. CASE SessionExpires(s)
    BY <1>4 DEF SessionExpires, TypeOK, SessionStatus, Inherits, OnlyRevokes
  <1> QED
    BY <1>1, <1>2, <1>3, <1>4 DEF SessionStep, RevokeSession, RevokeOtherSessions

LEMMA AuthorizeTypes ==
    ASSUME Typed, NEW s \in Sessions, NEW c \in Clients, Authorize(s, c)
    PROVE  TypeOK'
  <1> DEFINE g == [id |-> minted + 1, client |-> c, session |-> s, used |-> FALSE,
                   rev |-> revision[c]]
  <1>1. minted + 1 \in Nat /\ minted + 1 \in 0 .. MaxCodes
    BY BoundAssumption DEF Authorize, Typed, TypeOK
  <1>2. g \in Code
    BY <1>1 DEF Code, Typed, TypeOK
  <1>3. codes' \subseteq Code /\ minted' \in 0 .. MaxCodes
    BY <1>1, <1>2 DEF Authorize, Typed, TypeOK
  <1> QED
    BY <1>3 DEF Authorize, Typed, TypeOK, Requests, directory, bounds

LEMMA AccountEnds ==
    ASSUME Typed, NEW u \in Users, NEW to \in UserStatus, EndAccount(u, to)
    PROVE  /\ Inherits
           /\ changes' \in 0 .. MaxChanges => TypeOK'
  <1>1. RevokeGrants({u} \X Clients) /\ tokens \subseteq Token
    BY DEF EndAccount, Typed, TypeOK
  <1>2. OnlyRevokes /\ codes' \subseteq codes
    BY <1>1, RevokedGrants
  <1>3. takenBack' \subseteq 1 .. MaxCodes
    BY <1>1, TakenBack DEF RevokeGrants
  <1>4. queued' \subseteq Clients \X Sessions \X Nat /\ sids' \in [Views -> Nat]
    <2>1. {v \in Views : v[2] \in Of(u)} \in SUBSET Views
      OBVIOUS
    <2> QED
      BY <2>1, Queueing, Forgetting DEF EndAccount, Typed
  <1>5. user' \in [Users -> UserStatus] /\ sess' \in [Sessions -> SessionStatus]
    BY DEF EndAccount, Typed, TypeOK, SessionStatus
  <1>6. tokens' \subseteq Token
    BY <1>1, <1>2, RevokedTokens
  <1> QED
    BY <1>2, <1>3, <1>4, <1>5, <1>6 DEF EndAccount, Typed, TypeOK, Inherits, Requests

LEMMA AccountSteps ==
    ASSUME Typed, NEW u \in Users, AccountStep(u)
    PROVE  TypeOK' /\ Inherits
  <1> USE DEF Typed, Requests, directory, bounds
  <1>1. changes < MaxChanges => changes + 1 \in 0 .. MaxChanges
    BY BoundAssumption DEF TypeOK
  <1>2. user[u] \in UserStatus
    BY DEF TypeOK
  <1>3. CASE \E to \in UserStatus : EndAccount(u, to) /\ (MayChange \/ UNCHANGED changes)
    BY <1>1, <1>3, AccountEnds DEF MayChange, TypeOK
  <1>4. CASE HaltUser(u) \/ EnableUser(u) \/ AccountLapses(u) \/ ExtendAccount(u)
    <2>1. user' \in [Users -> UserStatus]
      BY <1>4 DEF HaltUser, EnableUser, AccountLapses, ExtendAccount, TypeOK, UserStatus
    <2> QED
      BY <1>1, <1>4, <2>1 DEF HaltUser, EnableUser, AccountLapses, ExtendAccount, MayChange,
         TypeOK, Inherits, OnlyRevokes
  <1>5. ASSUME NEW c \in Clients, RevokeUserClientAccess(u, c)
        PROVE  TypeOK' /\ Inherits
    <2>1. RevokeGrants({<<u, c>>}) /\ tokens \subseteq Token
      BY <1>5 DEF RevokeUserClientAccess, TypeOK
    <2>2. OnlyRevokes /\ codes' \subseteq codes /\ tokens' \subseteq Token
      BY <2>1, RevokedGrants, RevokedTokens
    <2>3. takenBack' \subseteq 1 .. MaxCodes
      BY <2>1, TakenBack DEF RevokeGrants
    <2>4. queued' \subseteq Clients \X Sessions \X Nat
      <3>1. {v \in Views : v[1] = c /\ Owner[v[2]] = u} \in SUBSET Views
        OBVIOUS
      <3> QED
        BY <1>5, <3>1, Queueing DEF RevokeUserClientAccess
    <2> QED
      BY <1>1, <1>5, <2>2, <2>3, <2>4 DEF RevokeUserClientAccess, MayChange, TypeOK, Inherits
  <1> QED
    BY <1>2, <1>3, <1>4, <1>5 DEF AccountStep, RevokeUserAccess, DisableUser, ExpireAccount,
       UserStatus

\* What revokeLostAppAccessTx leaves: no token in force without access, and logouts queued
\* for the logins it forgets.
LEMMA LostAccess ==
    ASSUME Typed, NEW has, NEW on, RevokeLost(has, on)
    PROVE  /\ OnlyRevokes /\ codes' \subseteq codes /\ tokens' \subseteq Token
           /\ takenBack' \subseteq 1 .. MaxCodes
           /\ queued' \subseteq Clients \X Sessions \X Nat
           /\ sids' \in [Views -> Nat]
           /\ \A t \in tokens' : ~t.revoked => t \in tokens /\ has[Scope(t)]
  <1> DEFINE lost == {p \in Scopes : ~has[p]}
  <1> DEFINE views == {v \in Views : Row(v[2]) /\ <<Owner[v[2]], v[1]>> \in lost}
  <1>1. tokens \subseteq Token /\ TypeOK
    BY DEF Typed, TypeOK
  <1>2. RevokeGrants(lost) /\ Enqueue(views, on) /\ Forget(views) /\ views \in SUBSET Views
    BY DEF RevokeLost
  <1>3. \A t \in tokens : Scope(t) \in Scopes
    BY <1>1, OwnerAssumption DEF Token, Scope, Scopes
  <1>4. /\ OnlyRevokes /\ codes' \subseteq codes
        /\ \A t \in tokens' : ~t.revoked => t \in tokens /\ Scope(t) \notin lost
    BY <1>1, <1>2, RevokedGrants
  <1>5. takenBack' \subseteq 1 .. MaxCodes
    BY <1>2, TakenBack DEF RevokeGrants
  <1>6. queued' \subseteq Clients \X Sessions \X Nat /\ sids' \in [Views -> Nat]
    BY <1>1, <1>2, Queueing, Forgetting
  <1> QED
    BY <1>1, <1>3, <1>4, <1>5, <1>6, RevokedTokens

LEMMA PolicySteps ==
    ASSUME Typed, PolicyStep
    PROVE  TypeOK' /\ Inherits
  <1> USE DEF Typed, Requests, directory, bounds
  <1>1. changes < MaxChanges => changes + 1 \in 0 .. MaxChanges
    BY BoundAssumption DEF TypeOK
  <1>2. toggles < ClientToggles => toggles + 1 \in 0 .. ClientToggles
    BY BoundAssumption DEF TypeOK
  <1>3. tokens \subseteq Token
    BY DEF TypeOK
  <1>4. ASSUME NEW p \in Scopes, ChangeGrant(p)
        PROVE  TypeOK' /\ Inherits
    BY <1>1, <1>4, LostAccess DEF ChangeGrant, MayChange, TypeOK, Inherits
  <1>5. ASSUME NEW p \in Scopes, GrantLapses(p)
        PROVE  TypeOK' /\ Inherits
    BY <1>1, <1>5 DEF GrantLapses, MayChange, TypeOK, Inherits, OnlyRevokes
  <1>6. CASE ExpiryTick
    BY <1>6, LostAccess DEF ExpiryTick, TypeOK, Inherits
  <1>7. ASSUME NEW c \in Clients, NEW us \in SUBSET Users,
               SetAppAuthenticationPolicy(c) \/ RoleChange(c, us)
        PROVE  TypeOK' /\ Inherits
    <2>1. PICK P \in {Users \X {c}, us \X {c}} : RevokeGrants(P)
      BY <1>7 DEF SetAppAuthenticationPolicy, RoleChange
    <2>2. OnlyRevokes /\ codes' \subseteq codes /\ tokens' \subseteq Token
      BY <1>3, <2>1, RevokedGrants, RevokedTokens
    <2>3. takenBack' \subseteq 1 .. MaxCodes
      BY <2>1, TakenBack DEF RevokeGrants
    <2>4. revision' = [revision EXCEPT ![c] = revision[c] + 1]
      BY <1>7 DEF SetAppAuthenticationPolicy, RoleChange
    <2>5. revision' \in [Clients -> Nat]
      BY <2>4 DEF TypeOK
    <2> QED
      BY <1>1, <1>7, <2>2, <2>3, <2>5
         DEF SetAppAuthenticationPolicy, RoleChange, MayChange, TypeOK, Inherits
  <1>8. ASSUME NEW us \in SUBSET Users, EnrollmentChange(us)
        PROVE  TypeOK' /\ Inherits
    <2>1. RevokeGrants(us \X Clients)
      BY <1>8 DEF EnrollmentChange
    <2>2. OnlyRevokes /\ codes' \subseteq codes /\ tokens' \subseteq Token
      BY <1>3, <2>1, RevokedGrants, RevokedTokens
    <2>3. takenBack' \subseteq 1 .. MaxCodes
      BY <2>1, TakenBack DEF RevokeGrants
    <2>4. allowed' \subseteq Sessions
      BY <1>8 DEF EnrollmentChange
    <2> QED
      BY <1>1, <1>8, <2>2, <2>3, <2>4 DEF EnrollmentChange, MayChange, TypeOK, Inherits
  <1>9. ASSUME NEW c \in Clients, DisableClient(c)
        PROVE  TypeOK' /\ Inherits
    <2>1. OnlyRevokes
      BY <1>9 DEF DisableClient, OnlyRevokes
    <2>2. takenBack' \subseteq 1 .. MaxCodes
      BY <1>9, TakenBack DEF DisableClient
    <2> QED
      BY <1>2, <1>3, <1>9, <2>1, <2>2, RevokedTokens DEF DisableClient, TypeOK, Inherits
  <1>10. ASSUME NEW c \in Clients, RotateClient(c)
         PROVE  TypeOK' /\ Inherits
    <2>1. OnlyRevokes
      BY <1>10 DEF RotateClient, OnlyRevokes
    <2> QED
      BY <1>1, <1>3, <1>10, <2>1, RevokedTokens DEF RotateClient, MayChange, TypeOK, Inherits
  <1>11. ASSUME NEW c \in Clients, EnableClient(c)
         PROVE  TypeOK' /\ Inherits
    BY <1>11 DEF EnableClient, TypeOK, Inherits, OnlyRevokes
  <1> QED
    BY <1>4, <1>5, <1>6, <1>7, <1>8, <1>9, <1>10, <1>11 DEF PolicyStep

\* RevokeToken and housekeeping.
RowStep ==
    \/ \E t \in tokens : RevokeToken(t) \/ TokenExpires(t)
    \/ \E g \in codes : CodeExpires(g)
    \/ CleanupExpiredSessions

LEMMA RowSteps ==
    ASSUME Typed, RowStep
    PROVE  TypeOK' /\ Inherits
  <1> USE DEF Typed, Requests, directory, bounds
  <1>1. ASSUME NEW t \in tokens, RevokeToken(t)
        PROVE  TypeOK' /\ Inherits
    <2>1. OnlyRevokes
      BY <1>1 DEF RevokeToken, OnlyRevokes
    <2>2. tokens' \subseteq Token
      BY <2>1, RevokedTokens DEF TypeOK
    <2> QED
      BY <1>1, <2>1, <2>2 DEF RevokeToken, TypeOK, Inherits
  <1>2. ASSUME NEW t \in tokens, TokenExpires(t)
        PROVE  TypeOK' /\ Inherits
    BY <1>2 DEF TokenExpires, TypeOK, Inherits, OnlyRevokes
  <1>3. ASSUME NEW g \in codes, CodeExpires(g)
        PROVE  TypeOK' /\ Inherits
    BY <1>3 DEF CodeExpires, TypeOK, Inherits, OnlyRevokes
  <1>4. CASE CleanupExpiredSessions
    <2>1. sids' \in [Views -> Nat]
      BY <1>4, Forgetting DEF CleanupExpiredSessions
    <2>2. sess' \in [Sessions -> SessionStatus]
      BY <1>4 DEF CleanupExpiredSessions, TypeOK, SessionStatus
    <2> QED
      BY <1>4, <2>1, <2>2 DEF CleanupExpiredSessions, TypeOK, Inherits, OnlyRevokes
  <1> QED
    BY <1>1, <1>2, <1>3, <1>4 DEF RowStep

\* Every step is a token request's, an authorization or one that makes no code, token or
\* request.
LEMMA StepKinds ==
    ASSUME Typed, [Next]_vars
    PROVE  /\ TypeOK'
           /\ \/ Inherits
              \/ \E x \in Exchanges : ExchangeStep(x)
              \/ \E s \in Sessions, c \in Clients : Authorize(s, c)
  <1>1. CASE UNCHANGED vars
    BY <1>1 DEF vars, Typed, TypeOK, Inherits, OnlyRevokes
  <1>2. ASSUME NEW x \in Exchanges, ExchangeStep(x) PROVE TypeOK'
    BY <1>2, ExchangeTypes
  <1>3. ASSUME NEW s \in Sessions, SessionStep(s)
        PROVE  TypeOK' /\ (Inherits \/ \E c \in Clients : Authorize(s, c))
    BY <1>3, SessionSteps, AuthorizeTypes
  <1> QED
    BY <1>1, <1>2, <1>3, AccountSteps, PolicySteps, RowSteps DEF Next, RowStep

-----------------------------------------------------------------------------
(* Where a code, token or request comes from                               *)

LEMMA InheritedOrigins ==
    ASSUME Typed, Inherits
    PROVE  Origins' \subseteq Origins
  <1>1. tokens \subseteq Token /\ OnlyRevokes /\ codes' \subseteq codes /\ exch' = exch
    BY DEF Typed, TypeOK, Inherits
  <1>2. ASSUME NEW t \in tokens'
        PROVE  Tells(t.code, t.client, t.session) \in Origins
    <2>1. PICK u \in tokens : t.code = u.code /\ t.client = u.client /\ t.session = u.session
      BY <1>1, RevokedTokens
    <2> QED
      BY <2>1, Zenon DEF Origins
  <1> QED
    BY <1>1, <1>2, Zenon DEF Origins

LEMMA ExchangeOrigins ==
    ASSUME Typed, NEW x \in Exchanges, ExchangeStep(x)
    PROVE  Origins' \subseteq Origins
  <1> DEFINE Same(g, h) == g.id = h.id /\ g.client = h.client /\ g.session = h.session
  <1> USE DEF Fail
  <1>1. exch \in [Exchanges -> Busy \cup {Idle}] /\ codes \subseteq Code
    BY DEF Typed, TypeOK
  <1>2. Idle.pc = "idle"
    BY DEF Idle
  <1>3. \A g \in codes' : \E h \in codes : Same(g, h)
    <2>1. ASSUME NEW g \in codes', Consume(x)
          PROVE  \E h \in codes : Same(g, h)
      <3>1. \/ g \in codes
            \/ \E h \in codes : g = [h EXCEPT !.used = TRUE]
        BY <2>1, Zenon DEF Consume
      <3> QED
        BY <1>1, <3>1 DEF Code
    <2>2. Consume(x) \/ codes' = codes
      BY DEF ExchangeStep, ReadCode, RecordIssuedToken, EnsureClientSession, Answer, Abandon
    <2> QED
      BY <2>1, <2>2
  <1>4. \A t \in tokens' : \/ t \in tokens
                          \/ /\ exch[x] # Idle
                             /\ t.code = exch[x].code.id /\ t.client = exch[x].code.client
                             /\ t.session = exch[x].code.session
    <2>1. CASE RecordIssuedToken(x)
      BY <1>2, <2>1 DEF RecordIssuedToken
    <2>2. RecordIssuedToken(x) \/ tokens' = tokens
      BY DEF ExchangeStep, ReadCode, Consume, EnsureClientSession, Answer, Abandon
    <2> QED
      BY <2>1, <2>2
  <1>5. \A y \in Exchanges : exch'[y] # Idle =>
           \/ exch[y] # Idle /\ exch'[y].code = exch[y].code
           \/ exch'[y].code \in codes
    <2>1. CASE ReadCode(x)
      <3>1. PICK g \in codes :
               exch' = [exch EXCEPT ![x] = [pc |-> "read", code |-> g, sid |-> 0]]
        BY <2>1 DEF ReadCode
      <3> QED
        BY <1>1, <3>1
    <2>2. CASE ~ReadCode(x)
      <3>1. exch[x] # Idle /\ exch[x] \in Busy
        BY <1>1, <1>2, <2>2 DEF ExchangeStep, Consume, RecordIssuedToken, EnsureClientSession,
           Answer, Abandon
      <3>2. /\ \A p : [exch[x] EXCEPT !.pc = p].code = exch[x].code
            /\ \A k : [exch[x] EXCEPT !.pc = "bound", !.sid = k].code = exch[x].code
        BY <3>1 DEF Busy
      <3>3. \/ exch' = [exch EXCEPT ![x] = Idle]
            \/ \E p : exch' = [exch EXCEPT ![x] = [exch[x] EXCEPT !.pc = p]]
            \/ \E k : exch' = [exch EXCEPT ![x] = [exch[x] EXCEPT !.pc = "bound", !.sid = k]]
        BY <1>1, <2>2, ZenonT(30) DEF ExchangeStep, Consume, RecordIssuedToken, EnsureClientSession, Answer,
           Abandon
      <3>4. \E q : exch' = [exch EXCEPT ![x] = q] /\ (q = Idle \/ q.code = exch[x].code)
        BY <3>2, <3>3, ZenonT(30)
      <3>5. \A y \in Exchanges : y # x => exch'[y] = exch[y]
        BY <1>1, <3>4
      <3>6. exch'[x] = Idle \/ exch'[x].code = exch[x].code
        BY <1>1, <3>4
      <3> QED
        BY <3>1, <3>5, <3>6, Zenon
    <2> QED
      BY <2>1, <2>2
  <1>6. ASSUME NEW g \in codes'
        PROVE  Tells(g.id, g.client, g.session) \in Origins
    BY <1>3, Zenon DEF Origins
  <1>7. ASSUME NEW t \in tokens'
        PROVE  Tells(t.code, t.client, t.session) \in Origins
    BY <1>4, Zenon DEF Origins
  <1>8. ASSUME NEW y \in Exchanges, exch'[y] # Idle
        PROVE  Tells(exch'[y].code.id, exch'[y].code.client, exch'[y].code.session) \in Origins
    <2>1. CASE exch[y] # Idle /\ exch'[y].code = exch[y].code
      BY <2>1, Zenon DEF Origins
    <2>2. CASE exch'[y].code \in codes
      BY <2>2, Zenon DEF Origins
    <2> QED
      BY <1>5, <1>8, <2>1, <2>2
  <1> QED
    BY <1>6, <1>7, <1>8, Zenon DEF Origins, Idle

\* Authorize mints a code that no row and no request names yet.
LEMMA MintedOrigin ==
    ASSUME Typed, NEW r \in Sessions, NEW d \in Clients, Authorize(r, d)
    PROVE  Origins' \subseteq Origins \cup {Tells(minted + 1, d, r)}
  <1> DEFINE g == [id |-> minted + 1, client |-> d, session |-> r, used |-> FALSE,
                   rev |-> revision[d]]
  <1>1. codes' = codes \cup {g} /\ UNCHANGED <<tokens, exch>>
    BY DEF Authorize, Requests
  <1>2. g.id = minted + 1 /\ g.client = d /\ g.session = r
    OBVIOUS
  <1> HIDE DEF g
  <1> QED
    BY <1>1, <1>2, Zenon DEF Origins

LEMMA OneOriginKept ==
    ASSUME Typed, [Next]_vars
    PROVE  OneOrigin'
  <1>1. minted \in Nat
    BY BoundAssumption DEF Typed, TypeOK
  <1>2. ASSUME minted' = minted, Origins' \subseteq Origins
        PROVE  OneOrigin'
    BY <1>2 DEF Typed, OneOrigin
  <1>3. CASE Inherits
    BY <1>2, <1>3, InheritedOrigins DEF Inherits
  <1>4. ASSUME NEW x \in Exchanges, ExchangeStep(x)
        PROVE  OneOrigin'
    <2>1. minted' = minted
      BY <1>4 DEF ExchangeStep, ReadCode, Consume, RecordIssuedToken, EnsureClientSession, Answer,
         Abandon, Grants
    <2> QED
      BY <1>2, <1>4, <2>1, ExchangeOrigins
  <1>5. ASSUME NEW r \in Sessions, NEW d \in Clients, Authorize(r, d)
        PROVE  OneOrigin'
    <2>1. minted' = minted + 1
      BY <1>5 DEF Authorize
    <2>2. Origins' \subseteq Origins \cup {Tells(minted + 1, d, r)}
      BY <1>5, MintedOrigin
    <2>3. Tells(minted + 1, d, r)[1] = minted + 1
      BY DEF Tells
    <2>4. \A o, p \in Origins : o[1] \in 1 .. minted /\ (o[1] = p[1] => o = p)
      BY DEF Typed, OneOrigin
    <2> QED
      BY <1>1, <2>1, <2>2, <2>3, <2>4 DEF OneOrigin
  <1> QED
    BY <1>3, <1>4, <1>5, StepKinds

LEMMA TypedInit == Init => Typed
  <1> SUFFICES ASSUME Init PROVE Typed
    OBVIOUS
  <1>1. TypeOK
    BY BoundAssumption DEF Init, TypeOK, UserStatus, SessionStatus, Scopes
  <1>2. OneOrigin
    BY DEF Init, OneOrigin, Origins
  <1> QED
    BY <1>1, <1>2 DEF Typed

LEMMA TypedStep == Typed /\ [Next]_vars => Typed'
  BY StepKinds, OneOriginKept DEF Typed

LEMMA TypedAlways == Spec => []Typed
  BY TypedInit, TypedStep, PTL DEF Spec

\* Every table row and every token request in progress keeps its shape, for any number of
\* accounts, clients and logins: what a revocation takes back, a request registers or a
\* housekeeping pass deletes is a code, token, sid or logout that Authorize minted.
THEOREM TypeCorrect == Spec => []TypeOK
  BY TypedAlways, PTL DEF Typed

-----------------------------------------------------------------------------
(* A token in force follows the access behind it                           *)

\* The account, the grants and the clients are as they were, or gave more.
LEMMA StillBacked ==
    ASSUME TokensBacked,
           \A t \in tokens' : ~t.revoked => t \in tokens,
           granted \subseteq granted', enabled \subseteq enabled', user' = user
    PROVE  TokensBacked'
  BY DEF TokensBacked, Backed

LEMMA ExchangeBacked ==
    ASSUME Typed, TokensBacked, NEW x \in Exchanges, ExchangeStep(x)
    PROVE  TokensBacked'
  <1>1. UNCHANGED directory
    BY DEF ExchangeStep, ReadCode, Consume, RecordIssuedToken, EnsureClientSession, Answer, Abandon,
       Grants
  <1>2. ASSUME NEW t \in tokens', t \notin tokens
        PROVE  Backed(t)
    <2>1. CASE RecordIssuedToken(x)
      BY <1>2, <2>1 DEF RecordIssuedToken, Registrable, Access, Backed, Scope
    <2>2. RecordIssuedToken(x) \/ tokens' = tokens
      BY DEF ExchangeStep, ReadCode, Consume, EnsureClientSession, Answer, Abandon
    <2> QED
      BY <1>2, <2>1, <2>2
  <1> QED
    BY <1>1, <1>2 DEF TokensBacked, Backed, directory

LEMMA SessionBacked ==
    ASSUME Typed, TokensBacked, NEW s \in Sessions, SessionStep(s)
    PROVE  TokensBacked'
  <1>1. UNCHANGED <<user, granted, enabled>>
    BY DEF SessionStep, SignIn, RevokeSession, RevokeOtherSessions, AssuranceLapses, SessionExpires,
       Authorize, directory
  <1>2. \A t \in tokens' : ~t.revoked => t \in tokens
    <2>1. CASE \E c \in Clients : Authorize(s, c)
      BY <2>1 DEF Authorize
    <2> QED
      BY <2>1, SessionSteps, RevokedTokens DEF Typed, TypeOK, Inherits
  <1> QED
    BY <1>1, <1>2, StillBacked

\* Ending an account takes back all it holds.
LEMMA AccountBacked ==
    ASSUME Typed, TokensBacked, NEW u \in Users, AccountStep(u)
    PROVE  TokensBacked'
  <1>1. /\ \A t \in tokens' : ~t.revoked => t \in tokens
        /\ UNCHANGED <<granted, enabled>> /\ user \in [Users -> UserStatus]
    BY AccountSteps, RevokedTokens DEF Typed, TypeOK, Inherits, AccountStep, RevokeUserAccess,
       DisableUser, ExpireAccount, EndAccount, HaltUser, EnableUser, AccountLapses, ExtendAccount,
       RevokeUserClientAccess, directory
  <1>2. \A t \in tokens : t.session \in Sessions /\ t.client \in Clients
    BY DEF Typed, TypeOK, Token
  <1>3. ASSUME NEW to, EndAccount(u, to)
        PROVE  TokensBacked'
    <2>1. \A t \in tokens' : ~t.revoked => Scope(t) \notin {u} \X Clients
      BY <1>3, RevokedGrants DEF EndAccount, Typed, TypeOK
    <2>2. \A t \in tokens' : ~t.revoked => Owner[t.session] # u
      BY <1>1, <1>2, <2>1 DEF Scope
    <2>3. user' = [user EXCEPT ![u] = to]
      BY <1>3 DEF EndAccount
    <2>4. \A w : w # u => user'[w] = user[w]
      BY <1>1, <2>3
    <2> QED
      BY <1>1, <2>2, <2>4, Zenon DEF TokensBacked, Backed
  <1>4. CASE HaltUser(u) \/ EnableUser(u) \/ AccountLapses(u) \/ ExtendAccount(u)
    <2>1. PICK to \in {"halted", "active", "ended"} : user' = [user EXCEPT ![u] = to]
      BY <1>4 DEF HaltUser, EnableUser, AccountLapses, ExtendAccount
    <2>2. \A w : user[w] # "disabled" => user'[w] # "disabled"
      BY <1>1, <2>1
    <2> QED
      BY <1>1, <2>2 DEF TokensBacked, Backed
  <1>5. CASE \E c \in Clients : RevokeUserClientAccess(u, c)
    BY <1>1, <1>5, StillBacked DEF RevokeUserClientAccess, directory
  <1> QED
    BY <1>3, <1>4, <1>5 DEF AccountStep, RevokeUserAccess, DisableUser, ExpireAccount

LEMMA PolicyBacked ==
    ASSUME Typed, TokensBacked, PolicyStep
    PROVE  TokensBacked'
  <1>1. /\ \A t \in tokens' : ~t.revoked => t \in tokens
        /\ \A t \in tokens : Scope(t) \in Scopes
    BY PolicySteps, RevokedTokens, OwnerAssumption
       DEF Typed, TypeOK, Inherits, Token, Scope, Scopes
  <1>2. ASSUME NEW g, NEW l, RevokeLost(Has(g, l), enabled), granted' = g,
               UNCHANGED <<user, enabled>>
        PROVE  TokensBacked'
    <2>1. \A t \in tokens' : ~t.revoked => t \in tokens /\ Has(g, l)[Scope(t)]
      BY <1>2, LostAccess
    <2>2. ASSUME NEW t \in tokens', ~t.revoked
          PROVE  /\ user[Owner[t.session]] = "active"
                 /\ Scope(t) \in g /\ t.client \in enabled
      BY <1>1, <2>1, <2>2 DEF Has, Scope
    <2> QED
      BY <1>2, <2>2 DEF TokensBacked, Backed
  <1>3. ASSUME NEW p \in Scopes, ChangeGrant(p)
        PROVE  TokensBacked'
    BY <1>2, <1>3 DEF ChangeGrant
  <1>4. CASE ExpiryTick
    BY <1>2, <1>4 DEF ExpiryTick
  <1>5. ASSUME NEW c \in Clients, DisableClient(c)
        PROVE  TokensBacked'
    <2>1. ASSUME NEW t \in tokens', ~t.revoked
          PROVE  t \in tokens /\ t.client # c
      <3>1. PICK w \in tokens : t = IF w.client = c THEN [w EXCEPT !.revoked = TRUE] ELSE w
        BY <1>5 DEF DisableClient
      <3> QED
        BY <2>1, <3>1, TokenRevoked, Zenon DEF Typed, TypeOK
    <2> QED
      BY <1>5, <2>1 DEF DisableClient, TokensBacked, Backed
  <1>6. ASSUME NEW c \in Clients,
               \/ SetAppAuthenticationPolicy(c) \/ RotateClient(c) \/ EnableClient(c)
               \/ \E us \in SUBSET Users : RoleChange(c, us)
        PROVE  TokensBacked'
    BY <1>1, <1>6, StillBacked
       DEF SetAppAuthenticationPolicy, RotateClient, EnableClient, RoleChange, directory
  <1>7. CASE \/ \E p \in Scopes : GrantLapses(p)
             \/ \E us \in SUBSET Users : EnrollmentChange(us)
    BY <1>1, <1>7, StillBacked DEF GrantLapses, EnrollmentChange
  <1> QED
    BY <1>3, <1>4, <1>5, <1>6, <1>7 DEF PolicyStep

LEMMA BackedStep == Typed /\ TokensBacked /\ [Next]_vars => TokensBacked'
  <1> SUFFICES ASSUME Typed, TokensBacked, [Next]_vars PROVE TokensBacked'
    OBVIOUS
  <1>1. CASE UNCHANGED vars
    BY <1>1, StillBacked DEF vars
  <1>2. CASE RowStep
    <2>1. \A t \in tokens' : ~t.revoked => t \in tokens
      BY <1>2, RowSteps, RevokedTokens DEF Typed, TypeOK, Inherits
    <2>2. UNCHANGED <<user, granted, enabled>>
      BY <1>2 DEF RowStep, RevokeToken, TokenExpires, CodeExpires, CleanupExpiredSessions, directory
    <2> QED
      BY <2>1, <2>2, StillBacked
  <1> QED
    BY <1>1, <1>2, ExchangeBacked, SessionBacked, AccountBacked, PolicyBacked DEF Next, RowStep

\* A token userinfo accepts belongs to an account that has access to its client now, for any
\* number of accounts, clients and token requests and at whatever point of an exchange the access
\* went; access that ended by the clock is the exception, until the expiry tick.
THEOREM UsableTokenHasAccessAlways == Spec => []UsableTokenHasAccess
  <1>1. Init => TokensBacked
    BY DEF Init, TokensBacked
  <1>2. Typed /\ TokensBacked => UsableTokenHasAccess
    <2> SUFFICES ASSUME Typed, TokensBacked, NEW t \in tokens, Usable(t)
                 PROVE  \/ Access(Owner[t.session], t.client)
                        \/ Scope(t) \in lapsed
                        \/ user[Owner[t.session]] \in {"ended", "halted"}
      BY DEF UsableTokenHasAccess
    <2>1. user[Owner[t.session]] \in UserStatus
      BY OwnerAssumption DEF Typed, TypeOK, Token
    <2> QED
      BY <2>1 DEF TokensBacked, Backed, Usable, Access, Scope, UserStatus
  <1> QED
    BY <1>1, <1>2, BackedStep, TypedAlways, PTL DEF Spec

-----------------------------------------------------------------------------
(* A code is redeemed once                                                 *)

\* A request other than the one that moves stays as it is.
LEMMA OtherRequests ==
    ASSUME Typed, NEW x \in Exchanges, ExchangeStep(x)
    PROVE  \A y \in Exchanges : y # x => exch'[y] = exch[y]
  <1>1. exch \in [Exchanges -> Busy \cup {Idle}]
    BY DEF Typed, TypeOK
  <1>2. \E q : exch' = [exch EXCEPT ![x] = q]
    BY DEF ExchangeStep, ReadCode, Consume, RecordIssuedToken, EnsureClientSession, Answer, Abandon,
       Fail
  <1> QED
    BY <1>1, <1>2

LEMMA SpentInherited ==
    ASSUME SpentOnce, codes' \subseteq codes, UNCHANGED <<minted, exch, issued>>
    PROVE  SpentOnce'
  <1>1. \A n : Unspent(n)' => Unspent(n)
    BY DEF Unspent
  <1> QED
    BY <1>1 DEF SpentOnce, Spent

LEMMA SpentByNew ==
    ASSUME Typed, SpentOnce, NEW s \in Sessions, NEW c \in Clients, Authorize(s, c)
    PROVE  SpentOnce'
  <1> USE DEF Requests
  <1>1. minted \in Nat /\ minted' = minted + 1
    BY BoundAssumption DEF Typed, TypeOK, Authorize
  <1>2. ASSUME NEW n \in 1 .. MaxCodes, Unspent(n)'
        PROVE  Unspent(n) \/ n = minted + 1
    BY <1>2 DEF Authorize, Unspent
  <1>3. \A x \in Exchanges : ~Spent(x, minted + 1)
    <2> SUFFICES ASSUME NEW x \in Exchanges, Spent(x, minted + 1) PROVE FALSE
      OBVIOUS
    <2>1. exch[x] # Idle
      BY DEF Spent, Idle
    <2>2. minted + 1 \in 1 .. minted
      BY <2>1, Descendants DEF Spent
    <2> QED
      BY <1>1, <2>2
  <1>4. UNCHANGED <<exch, issued>>
    BY DEF Authorize
  <1> QED
    BY <1>1, <1>2, <1>3, <1>4 DEF SpentOnce, Spent

LEMMA ExchangeSpends ==
    ASSUME Typed, SpentOnce, NEW x \in Exchanges, ExchangeStep(x)
    PROVE  SpentOnce'
  <1> DEFINE n == exch[x].code.id
  <1>1. /\ exch \in [Exchanges -> Busy \cup {Idle}] /\ issued \in [1 .. MaxCodes -> Nat]
        /\ minted \in Nat /\ codes \subseteq Code
    BY BoundAssumption DEF Typed, TypeOK
  <1>2. \A y \in Exchanges, m \in 1 .. MaxCodes : y # x => (Spent(y, m)' <=> Spent(y, m))
    BY OtherRequests DEF Spent
  <1>3. minted' = minted
    BY DEF ExchangeStep, ReadCode, Consume, RecordIssuedToken, EnsureClientSession, Answer,
       Abandon, Grants
  <1>4. CASE /\ codes' \subseteq codes /\ issued' = issued
             /\ \A m \in 1 .. MaxCodes : ~Spent(x, m)'
    <2>1. \A m : Unspent(m)' => Unspent(m)
      BY <1>4 DEF Unspent
    <2> QED
      BY <1>2, <1>3, <1>4, <2>1 DEF SpentOnce
  <1>5. ASSUME NEW q, exch' = [exch EXCEPT ![x] = q], q.pc # "spent"
        PROVE  \A m \in 1 .. MaxCodes : ~Spent(x, m)'
    BY <1>1, <1>5 DEF Spent
  <1>6. CASE ReadCode(x)
    <2>1. \E q : exch' = [exch EXCEPT ![x] = q] /\ q.pc # "spent"
      <3>1. PICK g \in codes :
               exch' = [exch EXCEPT ![x] = [pc |-> "read", code |-> g, sid |-> 0]]
        BY <1>6 DEF ReadCode
      <3>2. [pc |-> "read", code |-> g, sid |-> 0].pc # "spent"
        OBVIOUS
      <3> QED
        BY <3>1, <3>2, Zenon
    <2>2. \A m \in 1 .. MaxCodes : ~Spent(x, m)'
      BY <1>5, <2>1
    <2> QED
      BY <1>4, <1>6, <2>2 DEF ReadCode
  <1>7. CASE EnsureClientSession(x) \/ Answer(x) \/ Abandon(x)
    <2>1. exch[x] \in Busy \cup {Idle}
      BY <1>1
    <2>2. /\ exch[x] \in Busy => \A k : [exch[x] EXCEPT !.pc = "bound", !.sid = k].pc # "spent"
          /\ Idle.pc # "spent"
      BY <2>1 DEF Busy, Idle
    <2>3. \/ exch' = [exch EXCEPT ![x] = Idle]
          \/ exch[x] # Idle /\
             \E k : exch' = [exch EXCEPT ![x] = [exch[x] EXCEPT !.pc = "bound", !.sid = k]]
      <3>1. exch[x] # Idle
        BY <1>7 DEF EnsureClientSession, Answer, Abandon, Idle
      <3>2. CASE EnsureClientSession(x)
        <4>1. \/ exch' = [exch EXCEPT ![x] = Idle]
              \/ \E k : exch' = [exch EXCEPT ![x].pc = "bound", ![x].sid = k]
          BY <3>2, Zenon DEF EnsureClientSession, Fail
        <4> QED
          BY <1>1, <3>1, <4>1
      <3> QED
        BY <1>7, <3>1, <3>2 DEF Answer, Abandon, Fail
    <2>4. \E q : exch' = [exch EXCEPT ![x] = q] /\ q.pc # "spent"
      BY <2>1, <2>2, <2>3, Zenon
    <2>5. \A m \in 1 .. MaxCodes : ~Spent(x, m)'
      BY <1>5, <2>4
    <2> QED
      BY <1>4, <1>7, <2>5 DEF EnsureClientSession, Answer, Abandon
  <1>8. CASE Consume(x)
    <2> DEFINE mine == {g \in codes : g.id = n /\ ~g.used}
    <2>1. exch[x] \in Busy
      BY <1>1, <1>8 DEF Consume, Idle
    <2>2. issued' = issued
      BY <1>8 DEF Consume
    <2>3. codes' = (codes \ mine) \cup {[g EXCEPT !.used = TRUE] : g \in mine}
      BY <1>8 DEF Consume
    <2>4. \A g \in Code : [g EXCEPT !.used = TRUE].used /\ [g EXCEPT !.used = TRUE].id = g.id
      BY DEF Code
    <2>5. \A m \in 1 .. MaxCodes : Unspent(m)' => Unspent(m) /\ m # n
      <3> SUFFICES ASSUME NEW m \in 1 .. MaxCodes, NEW g \in codes', g.id = m, ~g.used
                   PROVE  Unspent(m) /\ m # n
        BY DEF Unspent
      <3>1. g \in codes \ mine
        BY <1>1, <2>3, <2>4
      <3> QED
        BY <3>1 DEF Unspent
    <2>6. CASE mine = {}
      <3>1. exch' = [exch EXCEPT ![x] = Idle] /\ Idle.pc # "spent"
        BY <1>8, <2>6 DEF Consume, Fail, Idle
      <3>2. codes' \subseteq codes
        BY <2>3, <2>6
      <3> QED
        BY <1>4, <1>5, <2>2, <3>1, <3>2
    <2>7. CASE mine # {}
      <3>1. \A m \in 1 .. MaxCodes : Spent(x, m)' => m = n
        <4>1. exch'[x] = [exch[x] EXCEPT !.pc = "spent"]
          BY <1>1, <1>8, <2>7 DEF Consume
        <4>2. exch'[x].code = exch[x].code
          BY <2>1, <4>1 DEF Busy
        <4> QED
          BY <4>2 DEF Spent
      <3>2. Unspent(n)
        BY <2>7 DEF Unspent
      <3> HIDE DEF n, mine
      <3> QED
        BY <1>2, <1>3, <2>2, <2>5, <3>1, <3>2 DEF SpentOnce
    <2> QED
      BY <2>6, <2>7
  <1>9. CASE RecordIssuedToken(x)
    <2>1. exch[x] \in Busy /\ exch[x] # Idle /\ exch[x].pc = "spent"
      BY <1>1, <1>9 DEF RecordIssuedToken, Idle
    <2>2. n \in 1 .. minted /\ n \in 1 .. MaxCodes
      BY <2>1, Descendants
    <2>3. codes' = codes
      BY <1>9 DEF RecordIssuedToken
    <2>4. CASE exch' = [exch EXCEPT ![x] = Idle] /\ issued' = issued
      <3>1. Idle.pc # "spent"
        BY DEF Idle
      <3> QED
        BY <1>4, <1>5, <2>3, <2>4, <3>1
    <2>5. CASE /\ exch' = [exch EXCEPT ![x].pc = "recorded"]
               /\ issued' = [issued EXCEPT ![n] = @ + 1]
      <3>1. [exch[x] EXCEPT !.pc = "recorded"].pc # "spent"
        BY <2>1 DEF Busy
      <3>2. \A m \in 1 .. MaxCodes : ~Spent(x, m)'
        BY <1>5, <2>5, <3>1
      <3>3. Spent(x, n)
        BY <2>1 DEF Spent
      <3>4. \A m \in 1 .. MaxCodes : issued'[m] = IF m = n THEN issued[n] + 1 ELSE issued[m]
        BY <1>1, <2>2, <2>5
      <3>5. \A m : Unspent(m)' <=> Unspent(m)
        BY <2>3 DEF Unspent
      <3> HIDE DEF n
      <3>6. issued[n] = 0 /\ ~Unspent(n) /\ \A y \in Exchanges : Spent(y, n) => y = x
        BY <2>2, <3>3 DEF SpentOnce
      <3> QED
        BY <1>1, <1>2, <1>3, <2>2, <3>2, <3>4, <3>5, <3>6 DEF SpentOnce
    <2> QED
      BY <1>9, <2>4, <2>5 DEF RecordIssuedToken, Fail
  <1> QED
    BY <1>6, <1>7, <1>8, <1>9 DEF ExchangeStep

LEMMA SpentStep == Typed /\ SpentOnce /\ [Next]_vars => SpentOnce'
  BY StepKinds, SpentInherited, SpentByNew, ExchangeSpends DEF Inherits

-----------------------------------------------------------------------------
(* What was taken back stays so                                            *)

\* The code of a row and the rows that name it are of one account and one client.
LEMMA OneScope ==
    ASSUME Typed
    PROVE  /\ \A g, h \in codes : g.id = h.id => Scope(g) = Scope(h)
           /\ \A g \in codes, t \in tokens : g.id = t.code => Scope(g) = Scope(t)
           /\ \A t, u \in tokens : t.code = u.code => Scope(t) = Scope(u)
  <1>1. \A n, c, s, d, r : Tells(n, c, s) \in Origins /\ Tells(n, d, r) \in Origins
                              => c = d /\ s = r
    BY DEF Typed, OneOrigin, Tells
  <1>2. /\ \A g \in codes : Tells(g.id, g.client, g.session) \in Origins
        /\ \A t \in tokens : Tells(t.code, t.client, t.session) \in Origins
    BY Zenon DEF Origins
  <1> QED
    BY <1>1, <1>2 DEF Scope

\* Taking back the grants of P leaves none of them and takes no other's code.
LEMMA TakingBack ==
    ASSUME Typed, NothingBack, NEW P, RevokeGrants(P), minted' = minted, toggles' = toggles
    PROVE  NothingBack'
  <1>1. tokens \subseteq Token
    BY DEF Typed, TypeOK
  <1>2. /\ \A t \in tokens' : ~t.revoked => t \in tokens /\ Scope(t) \notin P
        /\ \A g \in codes' : g \in codes /\ Scope(g) \notin P
    BY <1>1, RevokedGrants
  <1>3. \A n \in takenBack' :
           \/ n \in takenBack
           \/ \E g \in codes : g.id = n /\ Scope(g) \in P
           \/ \E t \in tokens : t.code = n /\ Scope(t) \in P
    BY DEF RevokeGrants, TakeBack
  <1>4. takenBack' \subseteq 1 .. minted
    BY <1>3, Descendants DEF NothingBack
  <1>5. ASSUME toggles = 0, NEW g \in codes' PROVE g.id \notin takenBack'
    <2>1. g \in codes /\ Scope(g) \notin P /\ g.id \notin takenBack
      BY <1>2, <1>5 DEF NothingBack
    <2>2. /\ \A h \in codes : h.id = g.id => Scope(h) \notin P
          /\ \A t \in tokens : t.code = g.id => Scope(t) \notin P
      BY <2>1, OneScope
    <2> QED
      BY <1>3, <2>1, <2>2, Zenon
  <1>6. ASSUME toggles = 0, NEW t \in tokens', ~t.revoked PROVE t.code \notin takenBack'
    BY <1>2, <1>3, <1>6, OneScope, Zenon DEF NothingBack
  <1> QED
    BY <1>4, <1>5, <1>6 DEF NothingBack

LEMMA NothingTakenBack ==
    ASSUME Typed, NothingBack, Inherits, UNCHANGED <<takenBack, toggles>>
    PROVE  NothingBack'
  <1>1. /\ \A t \in tokens' : ~t.revoked => t \in tokens
        /\ codes' \subseteq codes /\ minted' = minted
    BY RevokedTokens DEF Typed, TypeOK, Inherits
  <1> QED
    BY <1>1 DEF NothingBack

LEMMA BackBySteps ==
    ASSUME Typed, NothingBack, [Next]_vars, Inherits
    PROVE  NothingBack'
  <1> USE DEF directory, bounds, MayChange
  <1>1. minted' = minted
    BY DEF Inherits
  <1>2. CASE UNCHANGED <<takenBack, toggles>>
    BY <1>2, NothingTakenBack
  <1>3. CASE toggles' = toggles /\ \E P : RevokeGrants(P)
    BY <1>1, <1>3, TakingBack
  <1>4. CASE UNCHANGED vars
    BY <1>2, <1>4 DEF vars
  <1>5. ASSUME NEW x \in Exchanges, ExchangeStep(x) PROVE NothingBack'
    BY <1>2, <1>5 DEF ExchangeStep, ReadCode, Consume, RecordIssuedToken, EnsureClientSession,
       Answer, Abandon, Grants
  <1>6. ASSUME NEW s \in Sessions, SessionStep(s) PROVE NothingBack'
    BY <1>2, <1>6 DEF SessionStep, SignIn, RevokeSession, RevokeOtherSessions, AssuranceLapses,
       SessionExpires, Authorize
  <1>7. ASSUME NEW u \in Users, AccountStep(u) PROVE NothingBack'
    <2>1. CASE \E to : EndAccount(u, to)
      BY <1>3, <2>1 DEF EndAccount
    <2>2. CASE HaltUser(u) \/ EnableUser(u) \/ AccountLapses(u) \/ ExtendAccount(u)
      BY <1>2, <2>2 DEF HaltUser, EnableUser, AccountLapses, ExtendAccount
    <2>3. CASE \E c \in Clients : RevokeUserClientAccess(u, c)
      BY <1>3, <2>3 DEF RevokeUserClientAccess
    <2> QED
      BY <1>7, <2>1, <2>2, <2>3 DEF AccountStep, RevokeUserAccess, DisableUser, ExpireAccount
  <1>8. CASE PolicyStep
    <2>1. ASSUME NEW has, RevokeLost(has, enabled) PROVE \E P : RevokeGrants(P)
      BY <2>1 DEF RevokeLost
    <2>2. ASSUME NEW c \in Clients, DisableClient(c) PROVE NothingBack'
      <3>1. toggles' # 0
        BY <2>2 DEF DisableClient, Typed, TypeOK
      <3>2. takenBack' \subseteq takenBack \cup 1 .. minted
        BY <2>2, TakenBack DEF DisableClient
      <3> QED
        BY <1>1, <3>1, <3>2 DEF NothingBack
    <2>3. CASE ExpiryTick \/ \E p \in Scopes : ChangeGrant(p)
      BY <1>3, <2>1, <2>3 DEF ExpiryTick, ChangeGrant
    <2>4. CASE \E c \in Clients : RotateClient(c) \/ EnableClient(c)
      BY <1>2, <2>4 DEF RotateClient, EnableClient
    <2>5. CASE \E p \in Scopes : GrantLapses(p)
      BY <1>2, <2>5 DEF GrantLapses
    <2>6. CASE \/ \E c \in Clients : SetAppAuthenticationPolicy(c)
               \/ \E c \in Clients, us \in SUBSET Users : RoleChange(c, us)
               \/ \E us \in SUBSET Users : EnrollmentChange(us)
      BY <1>3, <2>6 DEF SetAppAuthenticationPolicy, RoleChange, EnrollmentChange
    <2> QED
      BY <1>8, <2>2, <2>3, <2>4, <2>5, <2>6 DEF PolicyStep
  <1>9. CASE RowStep
    BY <1>2, <1>9 DEF RowStep, RevokeToken, TokenExpires, CodeExpires, CleanupExpiredSessions
  <1> QED
    BY <1>4, <1>5, <1>6, <1>7, <1>8, <1>9 DEF Next, RowStep

LEMMA BackByExchange ==
    ASSUME Typed, NothingBack, NEW x \in Exchanges, ExchangeStep(x)
    PROVE  NothingBack'
  <1>1. UNCHANGED <<takenBack, toggles, minted>>
    BY DEF ExchangeStep, ReadCode, Consume, RecordIssuedToken, EnsureClientSession, Answer, Abandon,
       Grants, bounds
  <1>2. \A g \in codes' : \E h \in codes : g.id = h.id
    <2>1. \A h \in codes : [h EXCEPT !.used = TRUE].id = h.id
      BY DEF Typed, TypeOK, Code
    <2>2. ASSUME NEW g \in codes', Consume(x) PROVE \E h \in codes : g.id = h.id
      <3>1. \/ g \in codes
            \/ \E h \in codes : g = [h EXCEPT !.used = TRUE]
        BY <2>2, Zenon DEF Consume
      <3> QED
        BY <2>1, <3>1
    <2>3. Consume(x) \/ codes' = codes
      BY DEF ExchangeStep, ReadCode, RecordIssuedToken, EnsureClientSession, Answer, Abandon
    <2> QED
      BY <2>2, <2>3
  <1>3. \A t \in tokens' : t \in tokens \/ \E h \in codes : t.code = h.id
    <2>1. CASE RecordIssuedToken(x)
      BY <2>1 DEF RecordIssuedToken, Registrable
    <2>2. RecordIssuedToken(x) \/ tokens' = tokens
      BY DEF ExchangeStep, ReadCode, Consume, EnsureClientSession, Answer, Abandon
    <2> QED
      BY <2>1, <2>2
  <1> QED
    BY <1>1, <1>2, <1>3, Zenon DEF NothingBack

LEMMA BackByNew ==
    ASSUME Typed, NothingBack, NEW s \in Sessions, NEW c \in Clients, Authorize(s, c)
    PROVE  NothingBack'
  <1>1. minted \in Nat /\ minted' = minted + 1
    BY BoundAssumption DEF Typed, TypeOK, Authorize
  <1>2. \A g \in codes' : g \in codes \/ g.id = minted + 1
    BY DEF Authorize
  <1>3. UNCHANGED <<tokens, takenBack, toggles>>
    BY DEF Authorize, bounds
  <1>4. 1 .. minted \subseteq 1 .. minted' /\ minted + 1 \notin 1 .. minted
    BY <1>1
  <1> QED
    BY <1>2, <1>3, <1>4 DEF NothingBack

LEMMA BackStep == Typed /\ NothingBack /\ [Next]_vars => NothingBack'
  BY StepKinds, BackBySteps, BackByExchange, BackByNew

\* An authorization code is redeemed once however many token requests race on it, and granting
\* access again revives neither a code nor a token that was taken back; disabling a client, which
\* leaves its codes, is the exception.
THEOREM SpentStaysSpentAlways == Spec => []SpentStaysSpent
  <1>1. Init => SpentOnce /\ NothingBack
    BY DEF Init, SpentOnce, NothingBack, Spent, Unspent, Idle
  <1>2. SpentOnce /\ NothingBack => SpentStaysSpent
    BY DEF SpentOnce, NothingBack, SpentStaysSpent, CodeSpentOnce, NoRevivedGrant, Usable
  <1> QED
    BY <1>1, <1>2, SpentStep, BackStep, TypedAlways, PTL DEF Spec

-----------------------------------------------------------------------------
(* Logins handed out are announced when they end                           *)

\* A sid stays while its login does, and goes only with its logout queued or the login run out.
Follows ==
    /\ queued \subseteq queued'
    /\ toggles' = 0 => toggles = 0 /\ enabled \subseteq enabled'
    /\ \A v \in Views :
         /\ sids'[v] # 0 => Row(v[2])'
         /\ sess[v[2]] = "dropped" => sess'[v[2]] = "dropped"
         /\ toggles' = 0 /\ sids[v] # 0 /\ v[1] \in Receivers =>
               \/ sids'[v] = sids[v]
               \/ <<v[1], v[2], sids[v]>> \in queued'
               \/ sess'[v[2]] = "dropped"

LEMMA FollowedOn ==
    ASSUME LoginsFollowed, Follows, toggles' = 0, NEW c \in Clients, NEW s \in Sessions, NEW k,
           k # 0, Followed(c, s, k)
    PROVE  Followed(c, s, k)'
  <1> DEFINE v == <<c, s>>
  <1>1. v \in Views /\ v[1] = c /\ v[2] = s
    BY DEF Views
  <1> HIDE DEF v
  <1>2. /\ sids'[v] # 0 => Row(s)'
        /\ sess[s] = "dropped" => sess'[s] = "dropped"
        /\ sids[v] # 0 /\ c \in Receivers =>
              sids'[v] = sids[v] \/ <<c, s, sids[v]>> \in queued' \/ sess'[s] = "dropped"
    BY <1>1 DEF Follows
  <1>3. queued \subseteq queued'
    BY DEF Follows
  <1>4. c \in Receivers => sids[v] = k \/ <<c, s, k>> \in queued \/ sess[s] = "dropped"
    BY DEF Followed, v
  <1>5. c \in Receivers => \/ sids'[v] = k /\ Row(s)'
                           \/ <<c, s, k>> \in queued'
                           \/ sess'[s] = "dropped"
    BY <1>2, <1>3, <1>4
  <1> QED
    BY <1>5 DEF Followed, v

LEMMA HandedTypes ==
    ASSUME TypeOK
    PROVE  Handed \subseteq Clients \X Sessions \X Nat
  <1>1. ASSUME NEW x \in Exchanges, exch[x].pc = "bound"
        PROVE  <<exch[x].code.client, exch[x].code.session, exch[x].sid>>
                   \in Clients \X Sessions \X Nat
    <2>1. exch[x] \in Busy
      BY <1>1 DEF TypeOK, Idle
    <2> QED
      BY <2>1 DEF Busy, Code
  <1>2. logins \subseteq Clients \X Sessions \X Nat
    BY DEF TypeOK
  <1> QED
    BY <1>1, <1>2, Zenon DEF Handed

\* What was handed out stays followed, so a step answers only for what it hands out itself.
LEMMA HandedOn ==
    ASSUME Typed, LoginsFollowed, Follows, TypeOK',
           toggles' = 0 => \A l \in Handed' \ Handed : l[3] # 0 /\ Followed(l[1], l[2], l[3])'
    PROVE  LoginsFollowed'
  <1>1. ASSUME toggles' = 0, NEW l \in Handed
        PROVE  l[3] # 0 /\ Followed(l[1], l[2], l[3])'
    <2>1. l[1] \in Clients /\ l[2] \in Sessions
      BY HandedTypes DEF Typed
    <2>2. l[3] # 0 /\ Followed(l[1], l[2], l[3])
      BY <1>1 DEF Follows, LoginsFollowed
    <2> QED
      BY <1>1, <2>1, <2>2, FollowedOn
  <1>2. /\ \A v \in Views : sids'[v] # 0 => Row(v[2])'
        /\ toggles' = 0 => enabled' = Clients
    BY DEF Follows, LoginsFollowed, TypeOK
  <1> QED
    BY <1>1, <1>2 DEF LoginsFollowed

LEMMA QuietlyFollowed ==
    ASSUME Typed, LoginsFollowed, Follows, UNCHANGED <<logins, exch>>, TypeOK'
    PROVE  LoginsFollowed'
  <1>1. Handed' = Handed
    BY DEF Handed
  <1> QED
    BY <1>1, HandedOn

\* Sessions, sids and the queue stay, and no client is disabled.
LEMMA NothingToFollow ==
    ASSUME Typed, LoginsFollowed, UNCHANGED <<sess, sids>>, queued \subseteq queued',
           toggles' = 0 => toggles = 0 /\ enabled \subseteq enabled'
    PROVE  Follows
  BY DEF Follows, LoginsFollowed, Row

\* Logins that end by an action, with all their sids announced and forgotten.
LEMMA EndingLogins ==
    ASSUME Typed, LoginsFollowed, NEW S \in SUBSET {s \in Sessions : Row(s)},
           Enqueue({v \in Views : v[2] \in S}, enabled),
           Forget({v \in Views : v[2] \in S}),
           sess' = [s \in Sessions |-> IF s \in S THEN "ended" ELSE sess[s]],
           UNCHANGED <<toggles, enabled>>
    PROVE  Follows
  <1> DEFINE W == {v \in Views : v[2] \in S}
  <1>1. W \in SUBSET Views /\ TypeOK
    BY DEF Typed
  <1>2. /\ queued \subseteq queued'
        /\ \A v \in W : sids[v] # 0 /\ v[1] \in enabled \cap Receivers =>
              <<v[1], v[2], sids[v]>> \in queued'
        /\ \A v \in Views : sids'[v] = IF v \in W THEN 0 ELSE sids[v]
    BY <1>1, Queueing, Forgetting
  <1>3. \A v \in Views : v[1] \in Clients /\ v[2] \in Sessions
    BY DEF Views
  <1>4. \A s \in Sessions : Row(s)' <=> s \notin S /\ Row(s)
    BY DEF Row
  <1>5. \A s \in Sessions : sess[s] = "dropped" => sess'[s] = "dropped"
    BY DEF Row
  <1>6. toggles' = 0 => toggles = 0 /\ enabled = Clients /\ enabled' = enabled
    BY DEF LoginsFollowed
  <1>7. \A v \in Views : sids[v] # 0 => Row(v[2])
    BY DEF LoginsFollowed
  <1> QED
    BY <1>2, <1>3, <1>4, <1>5, <1>6, <1>7 DEF Follows

\* revokeLostAppAccessTx forgets the sids of lost access and queues their logouts.
LEMMA LosingAccess ==
    ASSUME Typed, LoginsFollowed, NEW has, RevokeLost(has, enabled),
           UNCHANGED <<sess, toggles, enabled>>
    PROVE  Follows
  <1> DEFINE W == {v \in Views : /\ Row(v[2])
                                 /\ <<Owner[v[2]], v[1]>> \in {p \in Scopes : ~has[p]}}
  <1>1. W \in SUBSET Views /\ TypeOK /\ Enqueue(W, enabled) /\ Forget(W)
    BY DEF Typed, RevokeLost
  <1>2. /\ queued \subseteq queued'
        /\ \A v \in W : sids[v] # 0 /\ v[1] \in enabled \cap Receivers =>
              <<v[1], v[2], sids[v]>> \in queued'
        /\ \A v \in Views : sids'[v] = IF v \in W THEN 0 ELSE sids[v]
    BY <1>1, Queueing, Forgetting
  <1>3. \A v \in Views : v[1] \in Clients
    BY DEF Views
  <1>4. toggles' = 0 => toggles = 0 /\ enabled = Clients
    BY DEF LoginsFollowed
  <1>5. \A v \in Views : sids[v] # 0 => Row(v[2])
    BY DEF LoginsFollowed
  <1>6. \A s : Row(s)' <=> Row(s)
    BY DEF Row
  <1> HIDE DEF W
  <1> QED
    BY <1>2, <1>3, <1>4, <1>5, <1>6 DEF Follows

LEMMA FollowedSteps ==
    ASSUME Typed, LoginsFollowed, [Next]_vars,
           ~\E x \in Exchanges : ExchangeStep(x)
    PROVE  Follows
  <1> USE DEF directory, bounds
  <1>1. CASE UNCHANGED vars
    BY <1>1, NothingToFollow DEF vars
  <1>2. ASSUME NEW s \in Sessions, SessionStep(s) PROVE Follows
    <2>1. CASE RevokeSession(s) \/ RevokeOtherSessions(s)
      <3>1. PICK S \in {{s}, Of(Owner[s]) \ {s}} : EndSessions(S) /\ UNCHANGED <<toggles, enabled>>
                                                    /\ S \subseteq {r \in Sessions : Row(r)}
        BY <2>1 DEF RevokeSession, RevokeOtherSessions, Of
      <3> QED
        BY <3>1, EndingLogins DEF EndSessions
    <2>2. CASE AssuranceLapses(s) \/ \E c \in Clients : Authorize(s, c)
      BY <2>2, NothingToFollow DEF AssuranceLapses, Authorize
    <2>3. CASE SignIn(s) \/ SessionExpires(s)
      <3>1. \A r \in Sessions : /\ Row(r) => Row(r)'
                                /\ sess[r] = "dropped" => sess'[r] = "dropped"
        BY <2>3 DEF SignIn, SessionExpires, Row, Typed, TypeOK
      <3>2. \A v \in Views : v[2] \in Sessions
        BY DEF Views
      <3>3. UNCHANGED <<queued, sids, toggles, enabled>>
        BY <2>3 DEF SignIn, SessionExpires
      <3> QED
        BY <3>1, <3>2, <3>3 DEF Follows, LoginsFollowed
    <2> QED
      BY <1>2, <2>1, <2>2, <2>3 DEF SessionStep
  <1>3. ASSUME NEW u \in Users, AccountStep(u) PROVE Follows
    <2>1. CASE \E to : EndAccount(u, to)
      BY <2>1, EndingLogins DEF EndAccount, Of
    <2>2. CASE HaltUser(u) \/ EnableUser(u) \/ AccountLapses(u) \/ ExtendAccount(u)
      BY <2>2, NothingToFollow DEF HaltUser, EnableUser, AccountLapses, ExtendAccount
    <2>3. CASE \E c \in Clients : RevokeUserClientAccess(u, c)
      BY <2>3, NothingToFollow DEF RevokeUserClientAccess, Enqueue
    <2> QED
      BY <1>3, <2>1, <2>2, <2>3 DEF AccountStep, RevokeUserAccess, DisableUser, ExpireAccount
  <1>4. CASE PolicyStep
    <2>1. CASE ExpiryTick \/ \E p \in Scopes : ChangeGrant(p)
      BY <2>1, LosingAccess DEF ExpiryTick, ChangeGrant
    <2>2. ASSUME NEW c \in Clients, DisableClient(c) PROVE Follows
      <3>1. toggles' # 0 /\ UNCHANGED <<sess, sids, queued>>
        BY <2>2 DEF DisableClient, Typed, TypeOK
      <3> QED
        BY <3>1, NothingToFollow
    <2>3. CASE \/ \E c \in Clients : \/ SetAppAuthenticationPolicy(c) \/ RotateClient(c)
                                     \/ EnableClient(c)
               \/ \E c \in Clients, us \in SUBSET Users : RoleChange(c, us)
               \/ \E us \in SUBSET Users : EnrollmentChange(us)
               \/ \E p \in Scopes : GrantLapses(p)
      BY <2>3, NothingToFollow DEF SetAppAuthenticationPolicy, RotateClient, EnableClient,
         RoleChange, EnrollmentChange, GrantLapses
    <2> QED
      BY <1>4, <2>1, <2>2, <2>3 DEF PolicyStep
  <1>5. CASE RowStep
    <2>1. CASE CleanupExpiredSessions
      <3> DEFINE W == {v \in Views : sess[v[2]] = "expired"}
      <3>1. \A v \in Views : v[2] \in Sessions
        BY DEF Views
      <3>2. Forget({v \in Views : v[2] \in {s \in Sessions : sess[s] = "expired"}}) /\ TypeOK
        BY <2>1 DEF CleanupExpiredSessions, Typed
      <3>3. \A v \in Views : sids'[v] = IF sess[v[2]] = "expired" THEN 0 ELSE sids[v]
        BY <3>1, <3>2, Forgetting
      <3>4. \A s \in Sessions : sess'[s] = IF sess[s] = "expired" THEN "dropped" ELSE sess[s]
        BY <2>1 DEF CleanupExpiredSessions
      <3>5. UNCHANGED <<queued, toggles, enabled>>
        BY <2>1 DEF CleanupExpiredSessions
      <3> QED
        BY <3>1, <3>3, <3>4, <3>5 DEF Follows, LoginsFollowed, Row
    <2>2. CASE \/ \E t \in tokens : RevokeToken(t) \/ TokenExpires(t)
               \/ \E g \in codes : CodeExpires(g)
      BY <2>2, NothingToFollow DEF RevokeToken, TokenExpires, CodeExpires
    <2> QED
      BY <1>5, <2>1, <2>2 DEF RowStep
  <1> QED
    BY <1>1, <1>2, <1>3, <1>4, <1>5 DEF Next, RowStep

\* A token request hands out the sid it bound, and binds the one that is mapped.
LEMMA ExchangeHands ==
    ASSUME Typed, NEW x \in Exchanges, ExchangeStep(x), NEW l \in Handed', l \notin Handed
    PROVE  /\ EnsureClientSession(x) /\ Row(exch[x].code.session)
           /\ \E c \in Clients, s \in Sessions, k \in Nat :
                 /\ c = exch[x].code.client /\ s = exch[x].code.session
                 /\ l = <<c, s, k>> /\ sids'[<<c, s>>] = k /\ k # 0
  <1>1. /\ exch \in [Exchanges -> Busy \cup {Idle}]
        /\ sids \in [Views -> Nat] /\ lastSid \in [Views -> Nat]
    BY DEF Typed, TypeOK
  <1>2. logins' \subseteq Handed
    BY DEF ExchangeStep, ReadCode, Consume, RecordIssuedToken, EnsureClientSession, Answer, Abandon,
       Handed
  <1>3. PICK y \in Exchanges :
           /\ exch'[y].pc = "bound"
           /\ l = <<exch'[y].code.client, exch'[y].code.session, exch'[y].sid>>
    BY <1>2, Zenon DEF Handed
  <1>4. y = x
    <2>1. y # x => exch'[y] = exch[y]
      BY OtherRequests
    <2> QED
      BY <1>3, <2>1, Zenon DEF Handed
  <1>5. EnsureClientSession(x) /\ Row(exch[x].code.session)
    <2>1. ~ReadCode(x)
      BY <1>1, <1>3, <1>4 DEF ReadCode
    <2>2. exch'[x] # Idle
      BY <1>3, <1>4 DEF Idle
    <2>3. ~Answer(x) /\ ~Abandon(x)
      BY <1>1, <2>2 DEF Answer, Abandon, Fail
    <2>4. \A p : p # "bound" => exch' # [exch EXCEPT ![x].pc = p]
      BY <1>1, <1>3, <1>4 DEF Busy, Idle
    <2>5. ~Consume(x) /\ ~RecordIssuedToken(x)
      BY <1>1, <2>2, <2>4 DEF Consume, RecordIssuedToken, Fail
    <2>6. EnsureClientSession(x)
      BY <2>1, <2>3, <2>5 DEF ExchangeStep
    <2> QED
      BY <1>1, <2>2, <2>6 DEF EnsureClientSession, Fail
  <1>6. exch[x] \in Busy
    BY <1>1, <1>5 DEF EnsureClientSession, Idle
  <1>7. PICK c \in Clients, s \in Sessions : c = exch[x].code.client /\ s = exch[x].code.session
    BY <1>6 DEF Busy, Code
  <1>8. <<c, s>> \in Views
    BY DEF Views
  <1>9. PICK k : k = IF sids[<<c, s>>] # 0 THEN sids[<<c, s>>] ELSE lastSid[<<c, s>>] + 1
    OBVIOUS
  <1>10. k \in Nat /\ k # 0
    BY <1>1, <1>8, <1>9
  <1>11. /\ sids' = [sids EXCEPT ![<<c, s>>] = k]
         /\ exch' = [exch EXCEPT ![x] = [exch[x] EXCEPT !.pc = "bound", !.sid = k]]
    BY <1>1, <1>5, <1>7, <1>9 DEF EnsureClientSession
  <1>12. /\ [exch[x] EXCEPT !.pc = "bound", !.sid = k].sid = k
         /\ [exch[x] EXCEPT !.pc = "bound", !.sid = k].code = exch[x].code
    BY <1>6 DEF Busy
  <1>13. l = <<c, s, k>> /\ sids'[<<c, s>>] = k
    BY <1>1, <1>3, <1>4, <1>7, <1>8, <1>11, <1>12
  <1> QED
    BY <1>5, <1>7, <1>10, <1>13

LEMMA ExchangeFollowed ==
    ASSUME Typed, LoginsFollowed, NEW x \in Exchanges, ExchangeStep(x), TypeOK'
    PROVE  LoginsFollowed'
  <1>1. UNCHANGED <<sess, toggles, enabled, queued>>
    BY DEF ExchangeStep, ReadCode, Consume, RecordIssuedToken, EnsureClientSession, Answer, Abandon,
       Grants, directory, bounds
  <1>2. \A s : Row(s)' <=> Row(s)
    BY <1>1 DEF Row
  <1>3. Follows
    <2>1. CASE UNCHANGED sids
      BY <1>1, <2>1, NothingToFollow
    <2>2. CASE EnsureClientSession(x) /\ Row(exch[x].code.session)
      <3>1. PICK c, s : c = exch[x].code.client /\ s = exch[x].code.session
        OBVIOUS
      <3>2. \E k : /\ sids[<<c, s>>] # 0 => k = sids[<<c, s>>]
                   /\ sids' = [sids EXCEPT ![<<c, s>>] = k]
        BY <2>2, <3>1 DEF EnsureClientSession
      <3>3. /\ sids[<<c, s>>] # 0 => sids'[<<c, s>>] = sids[<<c, s>>]
            /\ \A w \in Views : w # <<c, s>> => sids'[w] = sids[w]
        BY <3>2 DEF Typed, TypeOK
      <3>4. Row(s)
        BY <2>2, <3>1
      <3> QED
        BY <1>1, <1>2, <3>3, <3>4 DEF Follows, LoginsFollowed
    <2>3. (EnsureClientSession(x) /\ Row(exch[x].code.session)) \/ UNCHANGED sids
      BY DEF ExchangeStep, ReadCode, Consume, RecordIssuedToken, EnsureClientSession, Answer,
         Abandon
    <2> QED
      BY <2>1, <2>2, <2>3
  <1>4. ASSUME NEW l \in Handed', l \notin Handed
        PROVE  l[3] # 0 /\ Followed(l[1], l[2], l[3])'
    <2>1. PICK c \in Clients, s \in Sessions, k \in Nat :
             /\ Row(s) /\ l = <<c, s, k>> /\ sids'[<<c, s>>] = k /\ k # 0
      BY <1>4, ExchangeHands, ZenonT(30)
    <2> QED
      BY <1>2, <2>1 DEF Followed
  <1> QED
    BY <1>3, <1>4, HandedOn

LEMMA FollowedStep == Typed /\ LoginsFollowed /\ [Next]_vars => LoginsFollowed'
  <1> SUFFICES ASSUME Typed, LoginsFollowed, [Next]_vars PROVE LoginsFollowed'
    OBVIOUS
  <1>1. TypeOK'
    BY StepKinds
  <1>2. ASSUME NEW x \in Exchanges, ExchangeStep(x) PROVE LoginsFollowed'
    BY <1>1, <1>2, ExchangeFollowed
  <1>3. CASE ~\E x \in Exchanges : ExchangeStep(x)
    <2>1. UNCHANGED <<logins, exch>>
      BY <1>3, StepKinds DEF Inherits, Authorize, Requests
    <2> QED
      BY <1>1, <1>3, <2>1, FollowedSteps, QuietlyFollowed
  <1> QED
    BY <1>2, <1>3

\* A login a client holds an ID token for is queued for logout once its session was ended by a
\* sign-out, a revocation or an offboarding, for any number of sessions and however a token
\* request interleaves with it, unless a client was disabled meanwhile.
THEOREM EndedLoginsAnnouncedAlways == Spec => []EndedLoginsAnnounced
  <1>1. Init => LoginsFollowed
    BY DEF Init, LoginsFollowed, Handed, Idle
  <1>2. Typed /\ LoginsFollowed => EndedLoginsAnnounced
    <2> SUFFICES ASSUME Typed, LoginsFollowed, toggles = 0, NEW l \in logins,
                        l[1] \in Receivers, sess[l[2]] = "ended"
                 PROVE  l \in queued
      BY DEF EndedLoginsAnnounced
    <2>1. l = <<l[1], l[2], l[3]>>
      BY DEF Typed, TypeOK
    <2>2. Followed(l[1], l[2], l[3])
      BY DEF LoginsFollowed, Handed
    <2> QED
      BY <2>1, <2>2 DEF Followed, Row
  <1> QED
    BY <1>1, <1>2, FollowedStep, TypedAlways, PTL DEF Spec
=============================================================================
