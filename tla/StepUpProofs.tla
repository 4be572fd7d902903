---------------------------- MODULE StepUpProofs ----------------------------
(***************************************************************************)
(* What StepUp guarantees for any number of logins, step-ups and requests: *)
(* it implements OneTimeProof, and a proof keeps its limits.               *)
(***************************************************************************)
EXTENDS StepUp, FiniteSetTheorems, TLAPS

-----------------------------------------------------------------------------
(* The inductive invariants                                                *)

Holding == {"asked", "proved"}             \* proving a factor, no row yet
Reading == {"read", "verified", "missed"}  \* answering a challenge that was read
Paying == {"authorised", "enabled", "coded"}  \* at work on the operation

\* What a row, and what was done on the strength of it, may be.
Sound(t) ==
    /\ row[t].op \in Operations \cup {None}
    /\ row[t].challenge = "open" => row[t].grant = "none"
    /\ (row[t].challenge = "open" \/ row[t].grant = "live") =>
          row[t].session # None /\ row[t].op # None
    /\ uses[t].n \in {0, 1} /\ changed[t] \in {0, 1}
    /\ row[t].grant # "used" => uses[t].n = 0
    /\ uses[t].n = 0 => changed[t] = 0
    /\ pairing[t] = "live" => uses[t].n = 1 /\ changed[t] = 0 /\ row[t].op = "device/pair"
    /\ row[t].by = "recovery" => row[t].op \in Enrolments

\* What a request may carry, given its step-up's row.
Fits(q) ==
    /\ q.op \in Operations \cup {None}
    /\ q.at # "idle" => session[q.session] # "new"
    /\ q.at \in Holding =>
         /\ row[q.token] = NoRow
         /\ q.by = "recovery" => q.op \in Enrolments
    /\ q.at = "verified" => q.by # "recovery"
    /\ q.at = "authorised" =>
         /\ uses[q.token].n = 1 /\ changed[q.token] = 0
         /\ pairing[q.token] # "live" /\ row[q.token].op = q.op
    /\ q.at \in Paying /\ q.by = "recovery" => q.op \in Enrolments
    /\ q.at = "enabled" => changed[q.token] = 1

\* Two requests neither prove nor act on one step-up.
Apart(q, p) ==
    q.token = p.token =>
        /\ ~(q.at \in Holding /\ p.at # "idle")
        /\ ~(q.at = "authorised" /\ p.at = "authorised")

Proven ==
    /\ \A t \in Tokens : Sound(t)
    /\ \A r \in Requests : Fits(req[r])
    /\ \A r, p \in Requests : r # p => Apart(req[r], req[p])

\* A cancelled step-up is over.
Cancelled ==
    \A t \in cancelled : row[t].challenge = "used" /\ row[t].grant # "live"

\* A step-up from before a revocation is over, and what is still proving it has no login.
Voided ==
    /\ \A t \in voided : row[t].challenge # "open" /\ row[t].grant # "live"
    /\ \A r \in Requests :
          (req[r].at \in Holding /\ req[r].token \in voided) => session[req[r].session] = "ended"

\* Wrong assertions are counted while the challenge is open; a request that has read it may
\* still add one.
Readers(t) == {r \in Requests : req[r].at \in Reading /\ req[r].token = t}
Counted ==
    /\ \A r \in Requests : req[r].at \in Reading => row[req[r].token].challenge # "none"
    /\ \A t \in Tokens :
          /\ row[t] = NoRow => guesses[t] = 0
          /\ row[t].challenge = "open" => guesses[t] = row[t].attempts
          /\ guesses[t] + Cardinality(Readers(t)) < MaxAttempts + Cardinality(Requests)

-----------------------------------------------------------------------------
(* Rows and requests                                                       *)

\* What the updates of a step-up's row write.
LEMMA BurntRow ==
    ASSUME NEW x \in Row
    PROVE  /\ Burnt(x) \in Row /\ WithoutChallenge(x) \in Row
           /\ Burnt(x).challenge = IF x.challenge = "none" THEN "none" ELSE "used"
           /\ WithoutChallenge(x).challenge = IF x.challenge = "none" THEN "none" ELSE "used"
           /\ Burnt(x).grant = IF x.grant = "none" THEN "none" ELSE "used"
           /\ WithoutChallenge(x).grant = x.grant
           /\ \A y \in {Burnt(x), WithoutChallenge(x)} :
                 /\ y.session = x.session /\ y.op = x.op /\ y.by = x.by
                 /\ y.attempts = x.attempts
  <1> DEFINE c == IF x.challenge = "none" THEN x.challenge ELSE "used"
  <1> DEFINE g == IF x.grant = "none" THEN x.grant ELSE "used"
  <1> DEFINE w == [x EXCEPT !.challenge = c]
  <1>1. c \in {"none", "used"} /\ g \in {"none", "used"}
    OBVIOUS
  <1>2. WithoutChallenge(x) = w /\ Burnt(x) = [w EXCEPT !.grant = IF @ = "none" THEN @ ELSE "used"]
    BY DEF WithoutChallenge, Burnt
  <1>3. /\ w \in Row /\ w.challenge = c /\ w.grant = x.grant /\ w.session = x.session
        /\ w.op = x.op /\ w.by = x.by /\ w.attempts = x.attempts
    BY <1>1 DEF Row
  <1>4. Burnt(x) = [w EXCEPT !.grant = g]
    BY <1>2, <1>3, Zenon
  <1> HIDE DEF w, c, g
  <1>5. /\ Burnt(x) \in Row /\ Burnt(x).challenge = c /\ Burnt(x).grant = g
        /\ Burnt(x).session = x.session /\ Burnt(x).op = x.op /\ Burnt(x).by = x.by
        /\ Burnt(x).attempts = x.attempts
    BY <1>1, <1>3, <1>4 DEF Row
  <1> QED
    BY <1>2, <1>3, <1>5 DEF c, g

LEMMA GrantedRow ==
    ASSUME NEW x \in Row, NEW q \in Request
    PROVE  /\ GrantRow(q, x) \in Row
           /\ GrantRow(q, x).challenge = x.challenge /\ GrantRow(q, x).grant = "live"
           /\ GrantRow(q, x).session = q.session /\ GrantRow(q, x).op = q.op
           /\ GrantRow(q, x).by = q.by /\ GrantRow(q, x).attempts = x.attempts
           /\ LET y == [GrantRow(q, x) EXCEPT !.challenge = "used"]
              IN  /\ y \in Row /\ y.challenge = "used" /\ y.grant = "live"
                  /\ y.session = q.session /\ y.op = q.op /\ y.by = q.by
                  /\ y.attempts = x.attempts
  BY DEF GrantRow, Row, Request

LEMMA EmptyRow ==
    /\ NoRow \in Row /\ NoRow.challenge = "none" /\ NoRow.grant = "none"
    /\ NoRow.session = None /\ NoRow.op = None /\ NoRow.by = None /\ NoRow.attempts = 0
  BY DEF NoRow, Row

LEMMA OpenRow ==
    ASSUME NEW q \in Request
    PROVE  LET y == [NoRow EXCEPT !.challenge = "open", !.session = q.session, !.op = q.op,
                                  !.by = q.by]
           IN  /\ y \in Row /\ y.challenge = "open" /\ y.grant = "none"
               /\ y.session = q.session /\ y.op = q.op /\ y.by = q.by /\ y.attempts = 0
  BY DEF NoRow, Row, Request

LEMMA OtherRows ==
    ASSUME NEW x \in Row
    PROVE  /\ LET y == [x EXCEPT !.attempts = @ + 1]
              IN  /\ y \in Row /\ y.challenge = x.challenge /\ y.grant = x.grant
                  /\ y.session = x.session /\ y.op = x.op /\ y.by = x.by
                  /\ y.attempts = x.attempts + 1
           /\ LET y == [x EXCEPT !.grant = "used"]
              IN  /\ y \in Row /\ y.challenge = x.challenge /\ y.grant = "used"
                  /\ y.session = x.session /\ y.op = x.op /\ y.by = x.by
                  /\ y.attempts = x.attempts
  <1>1. LET y == [x EXCEPT !.attempts = @ + 1]
        IN  /\ y \in Row /\ y.challenge = x.challenge /\ y.grant = x.grant
            /\ y.session = x.session /\ y.op = x.op /\ y.by = x.by
            /\ y.attempts = x.attempts + 1
    BY DEF Row
  <1>2. LET y == [x EXCEPT !.grant = "used"]
        IN  /\ y \in Row /\ y.challenge = x.challenge /\ y.grant = "used"
            /\ y.session = x.session /\ y.op = x.op /\ y.by = x.by
            /\ y.attempts = x.attempts
    BY DEF Row
  <1> QED
    BY <1>1, <1>2, Zenon

\* A request under way names its token, login and operation.
Carrying(q) == q.at # "idle" => q.token # None /\ q.session # None /\ q.op # None

LEMMA RequestMoves ==
    ASSUME req \in [Requests -> Request], \A r \in Requests : Carrying(req[r]),
           NEW r \in Requests, NEW q \in Request, Carrying(q), Goes(r, q)
    PROVE  /\ req' \in [Requests -> Request] /\ \A p \in Requests : Carrying(req'[p])
           /\ \A p \in Requests : req'[p] = IF p = r THEN q ELSE req[p]
  BY DEF Goes

LEMMA IdleRequest == Idle \in Request /\ Carrying(Idle) /\ Idle.at = "idle" /\ Idle.token = None
  BY DEF Idle, Request, Carrying, Stages

LEMMA RequestAt ==
    ASSUME NEW q \in Request, NEW at \in Stages, q.at # "idle", Carrying(q)
    PROVE  LET p == [q EXCEPT !.at = at]
           IN  /\ p \in Request /\ Carrying(p) /\ p.at = at /\ p.token = q.token
               /\ p.session = q.session /\ p.op = q.op /\ p.by = q.by
  BY DEF Request, Carrying

LEMMA NewRequest ==
    ASSUME NEW at \in Stages, NEW t \in Tokens, NEW s \in Sessions, NEW o \in AllOperations,
           NEW by \in Factors \cup {"password", "recovery", None}
    PROVE  LET q == [at |-> at, token |-> t, session |-> s, op |-> o, by |-> by]
           IN  /\ q \in Request /\ Carrying(q) /\ q.at = at /\ q.token = t
               /\ q.session = s /\ q.op = o /\ q.by = by
  BY NoneIsNothing DEF Request, Carrying

-----------------------------------------------------------------------------
(* Types                                                                   *)

\* The tables other than the requests.
Tables ==
    /\ active \in BOOLEAN /\ factors \subseteq Factors /\ codes \in BOOLEAN
    /\ session \in [Sessions -> {"new", "live", "ended"}]
    /\ row \in [Tokens -> Row]
    /\ push \in [Tokens -> {"none", "pending", "approved", "denied"}]
    /\ nonce \in BOOLEAN
    /\ pairing \in [Tokens -> {"none", "live", "used"}]
    /\ changes \in 0 .. MaxChanges

Ghosts ==
    /\ uses \in [Tokens -> [n : Nat, session : Sessions \cup {None},
                            op : AllOperations \cup {None}]]
    /\ changed \in [Tokens -> Nat]
    /\ cancelled \subseteq Tokens /\ voided \subseteq Tokens
    /\ guesses \in [Tokens -> Nat]

Inbox == req \in [Requests -> Request] /\ \A r \in Requests : Carrying(req[r])

Typed == Tables /\ Ghosts /\ Inbox

LEMMA TypeParts == TypeOK <=> Typed
  BY DEF TypeOK, Typed, Tables, Ghosts, Inbox, Carrying

\* A request under way carries a token, a login and an operation.
LEMMA UnderWay ==
    ASSUME Inbox, NEW r \in Requests, req[r].at # "idle"
    PROVE  /\ req[r] \in Request /\ req[r].token \in Tokens /\ req[r].session \in Sessions
           /\ req[r].op \in AllOperations
  BY DEF Inbox, Carrying, Request

\* What a handler makes of its own request, and that the others stay.
Stays == req' = req

Answers(r) ==
    \/ Stays
    \/ Ends(r)
    \/ \E at \in Stages : req[r].at # "idle" /\ At(r, at)

LEMMA AnswerTypes ==
    ASSUME Inbox, NEW r \in Requests, Answers(r)
    PROVE  Inbox'
  <1>1. CASE Stays
    BY <1>1 DEF Stays, Inbox
  <1>2. CASE Ends(r)
    BY <1>2, IdleRequest, RequestMoves DEF Ends, Inbox
  <1>3. ASSUME NEW at \in Stages, req[r].at # "idle", At(r, at) PROVE Inbox'
    <2>1. req[r] \in Request /\ Carrying(req[r])
      BY DEF Inbox
    <2>2. [req[r] EXCEPT !.at = at] \in Request /\ Carrying([req[r] EXCEPT !.at = at])
      BY <1>3, <2>1, RequestAt
    <2> QED
      BY <1>3, <2>2, RequestMoves DEF At, Inbox
  <1> QED
    BY <1>1, <1>2, <1>3 DEF Answers

\* Steps that read and leave a request behind.
Moves(r) ==
    \/ \E s \in Sessions, o \in Operations, t \in Tokens :
          \/ \E m \in Factors \cup {"password", "recovery"} : AskStepUp(r, s, o, m, t)
          \/ CallOperation(r, s, o, t)
    \/ \E s \in Sessions, t \in Tokens : ReadStepUpChallenge(r, s, t)
    \/ ProveTOTP(r) \/ ProveRecoveryCode(r)
    \/ ApprovedPush(r) \/ VerifyStepUpAssertion(r) \/ Abandon(r)

LEMMA MoveTypes ==
    ASSUME Typed, Proven, NEW r \in Requests, Moves(r)
    PROVE  Typed'
  <1> USE DEF account, tables, ghosts
  <1>1. Tables /\ Ghosts /\ Inbox /\ Operations \subseteq AllOperations
    BY OperationsAreKnown DEF Typed
  <1>2. Tables' /\ Ghosts'
    BY <1>1, ZenonT(30) DEF Moves, AskStepUp, CallOperation, ReadStepUpChallenge, ProveTOTP, ProveRecoveryCode,
       ApprovedPush, VerifyStepUpAssertion, Abandon, Tables, Ghosts
  <1>3. ASSUME NEW s \in Sessions, NEW o \in Operations, NEW t \in Tokens,
               NEW m \in Factors \cup {"password", "recovery"}, AskStepUp(r, s, o, m, t)
        PROVE  Inbox'
    <2>1. PICK at \in {"proved", "asked"} :
             Goes(r, [at |-> at, token |-> t, session |-> s, op |-> o, by |-> m])
      BY <1>3 DEF AskStepUp
    <2>2. at \in Stages
      BY DEF Stages
    <2> QED
      BY <1>1, <2>1, <2>2, NewRequest, RequestMoves DEF Inbox
  <1>4. ASSUME NEW s \in Sessions, NEW o \in Operations, NEW t \in Tokens, CallOperation(r, s, o, t)
        PROVE  Inbox'
    <2>1. "called" \in Stages
      BY DEF Stages
    <2> QED
      BY <1>1, <1>4, <2>1, NewRequest, RequestMoves DEF Inbox, CallOperation
  <1>5. ASSUME NEW s \in Sessions, NEW t \in Tokens, ReadStepUpChallenge(r, s, t)
        PROVE  Inbox'
    <2>1. "read" \in Stages
      BY DEF Stages
    <2>2. row[t].op \in AllOperations /\ row[t].by \in Factors \cup {"password", "recovery", None}
      <3>1. row[t] \in Row
        BY <1>1 DEF Tables
      <3>2. row[t].by \in Factors \cup {"recovery"}
        BY <1>1, <1>5 DEF ReadStepUpChallenge, StepUpMethods, Tables
      <3>3. row[t].challenge = "open"
        BY <1>5 DEF ReadStepUpChallenge, GetStepUpChallenge
      <3> QED
        BY <3>1, <3>2, <3>3 DEF Proven, Sound, Row
    <2> QED
      BY <1>1, <1>5, <2>1, <2>2, NewRequest, RequestMoves DEF Inbox, ReadStepUpChallenge
  <1>6. ProveTOTP(r) \/ ProveRecoveryCode(r) \/ ApprovedPush(r) \/ VerifyStepUpAssertion(r)
           \/ Abandon(r) => Answers(r)
    BY DEF ProveTOTP, ProveRecoveryCode, ApprovedPush, VerifyStepUpAssertion, Abandon, Answers,
       Stages
  <1>7. Inbox'
    BY <1>1, <1>3, <1>4, <1>5, <1>6, AnswerTypes DEF Moves
  <1> QED
    BY <1>2, <1>7 DEF Typed

\* Rows are ended, none is opened, and pairing tokens are at most used up.
BurnsRows ==
    /\ row' \in [Tokens -> Row]
    /\ \A t \in Tokens :
          /\ row'[t] \in {row[t], Burnt(row[t]), WithoutChallenge(row[t])}
          /\ pairing'[t] = pairing[t] \/ (pairing[t] = "live" /\ pairing'[t] = "used")
    /\ \A s \in Sessions : /\ session[s] # "new" => session'[s] # "new"
                           /\ session[s] = "ended" => session'[s] = "ended"
    /\ UNCHANGED <<uses, changed, guesses>>

LEMMA NoRowStays ==
    ASSUME NEW x \in Row
    PROVE  /\ Burnt(x) = NoRow <=> x = NoRow
           /\ WithoutChallenge(x) = NoRow <=> x = NoRow
  <1>1. \A y \in Row :
           y = NoRow <=> /\ y.challenge = "none" /\ y.grant = "none" /\ y.session = None
                         /\ y.op = None /\ y.by = None /\ y.attempts = 0
    BY DEF Row, NoRow
  <1>2. Burnt(x) \in Row /\ WithoutChallenge(x) \in Row
    BY BurntRow
  <1>3. ASSUME NEW y \in {Burnt(x), WithoutChallenge(x)}
        PROVE  y = NoRow <=> x = NoRow
    <2>1. /\ y \in Row /\ y.session = x.session /\ y.op = x.op /\ y.by = x.by
          /\ y.attempts = x.attempts
      BY BurntRow
    <2>2. /\ y.challenge = "none" <=> x.challenge = "none"
          /\ y.grant = "none" <=> x.grant = "none"
      BY BurntRow
    <2> QED
      BY <1>1, <2>1, <2>2
  <1> QED
    BY <1>3

LEMMA EndedLogins ==
    ASSUME Typed, NEW S, EndSessions(S)
    PROVE  /\ session' \in [Sessions -> {"new", "live", "ended"}]
           /\ row' \in [Tokens -> Row]
           /\ \A t \in Tokens :
                 row'[t] = IF row[t].session \in S THEN Burnt(row[t]) ELSE row[t]
           /\ \A s \in Sessions :
                 session'[s] = IF s \in S /\ session[s] = "live" THEN "ended" ELSE session[s]
  <1>1. row \in [Tokens -> Row] /\ session \in [Sessions -> {"new", "live", "ended"}]
    BY DEF Typed, Tables
  <1>2. \A t \in Tokens : Burnt(row[t]) \in Row
    BY <1>1, BurntRow
  <1> QED
    BY <1>1, <1>2 DEF EndSessions

\* Steps that end step-ups, by whoever takes them.
Burn ==
    \/ \E r \in Requests : DeniedPush(r) \/ RevokeOtherSessions(r)
    \/ \E s \in Sessions, t \in Tokens : CancelStepUp(s, t)
    \/ \E t \in Tokens : ExpireStepUp(t)
    \/ \E s \in Sessions : RevokeSession(s) \/ SessionExpires(s)
    \/ ResetUserMFA \/ DisableUser

LEMMA BurnTypes ==
    ASSUME Typed, Burn
    PROVE  Typed' /\ BurnsRows /\ (Stays \/ \E r \in Requests : Ends(r))
  <1> USE DEF account, tables, ghosts
  <1>1. Tables /\ Ghosts /\ Inbox
    BY DEF Typed
  <1>2. row \in [Tokens -> Row] /\ session \in [Sessions -> {"new", "live", "ended"}]
        /\ pairing \in [Tokens -> {"none", "live", "used"}]
    BY <1>1 DEF Tables
  <1>3. \A t \in Tokens : Burnt(row[t]) \in Row /\ WithoutChallenge(row[t]) \in Row
    BY <1>2, BurntRow
  <1>4. Changes => changes' \in 0 .. MaxChanges
    BY <1>1, BoundsAreNatural DEF Changes, Tables
  <1>5. Stays \/ \E r \in Requests : Ends(r)
    BY DEF Burn, DeniedPush, RevokeOtherSessions, CancelStepUp, ExpireStepUp, RevokeSession,
       SessionExpires, ResetUserMFA, DisableUser, RevokeUserAccess, Stays
  <1>6. Inbox'
    <2>1. Stays => Inbox'
      BY <1>1 DEF Stays, Inbox
    <2> QED
      BY <1>1, <1>5, <2>1, AnswerTypes DEF Answers
  <1>7. ASSUME NEW t, row' = [row EXCEPT ![t] = Burnt(@)], UNCHANGED <<session, pairing>>,
               UNCHANGED <<uses, changed, guesses>>
        PROVE  BurnsRows
    <2>1. \A u \in Tokens : row'[u] = IF u = t THEN Burnt(row[u]) ELSE row[u]
      BY <1>2, <1>7
    <2>2. row' \in [Tokens -> Row]
      BY <1>2, <1>3, <1>7, <2>1
    <2> QED
      BY <1>7, <2>1, <2>2 DEF BurnsRows
  <1>8. ASSUME NEW S, EndSessions(S), UNCHANGED <<uses, changed, guesses>>,
               \A t \in Tokens : \/ pairing'[t] = pairing[t]
                                 \/ pairing[t] = "live" /\ pairing'[t] = "used"
        PROVE  BurnsRows /\ session' \in [Sessions -> {"new", "live", "ended"}]
    BY <1>2, <1>8, EndedLogins DEF BurnsRows
  <1>9. ASSUME NEW r \in Requests, DeniedPush(r)
        PROVE  Typed' /\ BurnsRows
    <2>1. BurnsRows
      BY <1>7, <1>9 DEF DeniedPush
    <2> QED
      BY <1>1, <1>6, <1>9, <2>1 DEF DeniedPush, BurnsRows, Tables, Ghosts, Typed
  <1>10. ASSUME NEW r \in Requests, RevokeOtherSessions(r)
         PROVE  Typed' /\ BurnsRows
    <2>1. BurnsRows /\ session' \in [Sessions -> {"new", "live", "ended"}]
      BY <1>8, <1>10 DEF RevokeOtherSessions
    <2> QED
      BY <1>1, <1>6, <1>10, <2>1 DEF RevokeOtherSessions, BurnsRows, Tables, Ghosts, Typed
  <1>11. ASSUME NEW s \in Sessions, NEW t \in Tokens, CancelStepUp(s, t)
         PROVE  Typed' /\ BurnsRows
    <2>1. BurnsRows
      BY <1>7, <1>11 DEF CancelStepUp
    <2> QED
      BY <1>1, <1>6, <1>11, <2>1 DEF CancelStepUp, BurnsRows, Tables, Ghosts, Typed
  <1>12. ASSUME NEW t \in Tokens, ExpireStepUp(t)
         PROVE  Typed' /\ BurnsRows
    <2>1. BurnsRows
      BY <1>7, <1>12 DEF ExpireStepUp
    <2> QED
      BY <1>1, <1>6, <1>12, <2>1 DEF ExpireStepUp, BurnsRows, Tables, Ghosts, Typed
  <1>13. ASSUME NEW s \in Sessions, RevokeSession(s)
         PROVE  Typed' /\ BurnsRows
    <2>1. BurnsRows /\ session' \in [Sessions -> {"new", "live", "ended"}]
      BY <1>8, <1>13 DEF RevokeSession
    <2> QED
      BY <1>1, <1>4, <1>6, <1>13, <2>1 DEF RevokeSession, BurnsRows, Tables, Ghosts, Typed
  <1>14. ASSUME NEW s \in Sessions, SessionExpires(s)
         PROVE  Typed' /\ BurnsRows
    <2>1. /\ row' \in [Tokens -> Row]
          /\ \A t \in Tokens :
                row'[t] = IF row[t].session = s THEN WithoutChallenge(row[t]) ELSE row[t]
      BY <1>2, <1>3, <1>14 DEF SessionExpires
    <2>2. /\ session' \in [Sessions -> {"new", "live", "ended"}]
          /\ \A q \in Sessions : /\ session[q] # "new" => session'[q] # "new"
                                 /\ session[q] = "ended" => session'[q] = "ended"
      BY <1>2, <1>14 DEF SessionExpires
    <2>3. BurnsRows
      BY <1>14, <2>1, <2>2 DEF SessionExpires, BurnsRows
    <2> QED
      BY <1>1, <1>4, <1>6, <1>14, <2>2, <2>3 DEF SessionExpires, BurnsRows, Tables, Ghosts, Typed
  <1>15. ASSUME RevokeUserAccess
         PROVE  /\ BurnsRows /\ session' \in [Sessions -> {"new", "live", "ended"}]
                /\ pairing' \in [Tokens -> {"none", "live", "used"}]
                /\ changes' \in 0 .. MaxChanges /\ voided' \subseteq Tokens
    <2>1. BurnsRows /\ session' \in [Sessions -> {"new", "live", "ended"}]
      BY <1>8, <1>15 DEF RevokeUserAccess
    <2>2. pairing' \in [Tokens -> {"none", "live", "used"}] /\ voided' \subseteq Tokens
      BY <1>2, <1>15 DEF RevokeUserAccess
    <2> QED
      BY <1>4, <1>15, <2>1, <2>2 DEF RevokeUserAccess
  <1>16. CASE ResetUserMFA \/ DisableUser
    <2>1. RevokeUserAccess
      BY <1>16 DEF ResetUserMFA, DisableUser
    <2>2. active' \in BOOLEAN /\ factors' \subseteq Factors /\ codes' \in BOOLEAN
      BY <1>1, <1>16 DEF ResetUserMFA, DisableUser, Tables
    <2>3. UNCHANGED <<push, nonce, uses, changed, cancelled, guesses>>
      BY <2>1 DEF RevokeUserAccess
    <2> QED
      BY <1>1, <1>5, <1>6, <1>15, <2>1, <2>2, <2>3 DEF BurnsRows, Tables, Ghosts, Typed
  <1> QED
    BY <1>5, <1>9, <1>10, <1>11, <1>12, <1>13, <1>14, <1>16 DEF Burn, BurnsRows

LEMMA OneRow ==
    ASSUME row \in [Tokens -> Row], NEW t \in Tokens, NEW y \in Row, row' = [row EXCEPT ![t] = y]
    PROVE  /\ row' \in [Tokens -> Row]
           /\ \A u \in Tokens : row'[u] = IF u = t THEN y ELSE row[u]
  OBVIOUS

\* What the steps that grant, count and spend write, and that they end or move on.
LEMMA GrantSteps ==
    ASSUME Typed, Proven, NEW r \in Requests, NEW q, q = req[r], NEW t, t = q.token,
           CreateStepUpToken(r) \/ CreateStepUpChallenge(r)
    PROVE  /\ q.at \in Holding /\ t \in Tokens /\ q.session \in Sessions /\ q.op \in Operations
           /\ row[t] = NoRow /\ session[q.session] = "live" /\ Ends(r)
           /\ row' \in [Tokens -> Row] /\ \A u \in Tokens \ {t} : row'[u] = row[u]
           /\ row'[t].session = q.session /\ row'[t].op = q.op /\ row'[t].by = q.by
           /\ row'[t].attempts = 0 /\ row'[t] # NoRow
           /\ \/ CreateStepUpToken(r) /\ row'[t].challenge = "none" /\ row'[t].grant = "live"
              \/ CreateStepUpChallenge(r) /\ row'[t].challenge = "open" /\ row'[t].grant = "none"
           /\ push' \in [Tokens -> {"none", "pending", "approved", "denied"}]
           /\ UNCHANGED <<account, session, nonce, pairing, changes, ghosts>>
  <1>1. q.at \in Holding
    BY DEF CreateStepUpToken, CreateStepUpChallenge, Holding
  <1>2. /\ q \in Request /\ t \in Tokens /\ q.session \in Sessions /\ q.op \in Operations
        /\ row[t] = NoRow
    BY <1>1, UnderWay DEF Holding, Typed, Inbox, Carrying, Proven, Fits
  <1>3. row \in [Tokens -> Row] /\ push \in [Tokens -> {"none", "pending", "approved", "denied"}]
    BY DEF Typed, Tables
  <1>4. NoRow \in Row /\ NoRow.challenge = "none" /\ NoRow.grant = "none" /\ NoRow.attempts = 0
    BY EmptyRow
  <1>5. CASE CreateStepUpToken(r)
    <2> DEFINE y == GrantRow(q, row[t])
    <2>1. /\ y \in Row /\ y.challenge = "none" /\ y.grant = "live" /\ y.session = q.session
          /\ y.op = q.op /\ y.by = q.by /\ y.attempts = 0
      <3>1. row[t] \in Row
        BY <1>2, <1>3
      <3>2. /\ y \in Row /\ y.challenge = row[t].challenge /\ y.grant = "live"
            /\ y.session = q.session /\ y.op = q.op /\ y.by = q.by
            /\ y.attempts = row[t].attempts
        BY <1>2, <3>1, GrantedRow, ZenonT(30)
      <3> HIDE DEF y
      <3> QED
        BY <1>2, <1>4, <3>2
    <2>2. row' = [row EXCEPT ![t] = y]
      BY <1>5 DEF CreateStepUpToken
    <2> HIDE DEF y
    <2>3. row' \in [Tokens -> Row] /\ \A u \in Tokens : row'[u] = IF u = t THEN y ELSE row[u]
      BY <1>2, <1>3, <2>1, <2>2, OneRow
    <2> QED
      BY <1>1, <1>2, <1>3, <1>4, <1>5, <2>1, <2>3 DEF CreateStepUpToken, Live
  <1>6. CASE CreateStepUpChallenge(r)
    <2> DEFINE y == [NoRow EXCEPT !.challenge = "open", !.session = q.session, !.op = q.op,
                                  !.by = q.by]
    <2>1. /\ y \in Row /\ y.challenge = "open" /\ y.grant = "none" /\ y.session = q.session
          /\ y.op = q.op /\ y.by = q.by /\ y.attempts = 0
      BY <1>2, OpenRow
    <2>2. row' = [row EXCEPT ![t] = y]
      BY <1>6 DEF CreateStepUpChallenge
    <2> HIDE DEF y
    <2>3. row' \in [Tokens -> Row] /\ \A u \in Tokens : row'[u] = IF u = t THEN y ELSE row[u]
      BY <1>2, <1>3, <2>1, <2>2, OneRow
    <2> QED
      BY <1>1, <1>2, <1>3, <1>4, <1>6, <2>1, <2>3 DEF CreateStepUpChallenge
  <1> QED
    BY <1>5, <1>6

LEMMA FailSteps ==
    ASSUME Typed, Proven, NEW r \in Requests, NEW q, q = req[r], NEW t, t = q.token,
           FailStepUpChallenge(r)
    PROVE  /\ q.at = "missed" /\ t \in Tokens /\ Ends(r)
           /\ row' \in [Tokens -> Row] /\ \A u \in Tokens \ {t} : row'[u] = row[u]
           /\ row'[t].session = row[t].session /\ row'[t].op = row[t].op
           /\ row'[t].by = row[t].by
           /\ row'[t].challenge = row[t].challenge /\ row'[t].grant = row[t].grant
           /\ row[t].challenge = "open" => row'[t].attempts = row[t].attempts + 1
           /\ row[t].challenge # "open" => row'[t] = row[t]
           /\ guesses' = [guesses EXCEPT ![t] = @ + 1]
           /\ UNCHANGED <<account, session, push, nonce, pairing, changes, uses,
                          changed, cancelled, voided>>
  <1>1. q.at = "missed" /\ t \in Tokens /\ q \in Request
    BY UnderWay DEF FailStepUpChallenge, Typed
  <1>2. row \in [Tokens -> Row]
    BY DEF Typed, Tables
  <1>3. CASE row[t].challenge = "open"
    <2> DEFINE y == [row[t] EXCEPT !.attempts = @ + 1]
    <2>1. /\ y \in Row /\ y.challenge = row[t].challenge /\ y.grant = row[t].grant
          /\ y.session = row[t].session /\ y.op = row[t].op /\ y.by = row[t].by
          /\ y.attempts = row[t].attempts + 1
      BY <1>1, <1>2, OtherRows
    <2>2. row' = [row EXCEPT ![t] = y]
      BY <1>2, <1>3 DEF FailStepUpChallenge
    <2> HIDE DEF y
    <2>3. row' \in [Tokens -> Row] /\ \A u \in Tokens : row'[u] = IF u = t THEN y ELSE row[u]
      BY <1>1, <1>2, <2>1, <2>2, OneRow
    <2> QED
      BY <1>1, <1>3, <2>1, <2>3 DEF FailStepUpChallenge
  <1>4. CASE row[t].challenge # "open"
    BY <1>1, <1>2, <1>4 DEF FailStepUpChallenge
  <1> QED
    BY <1>3, <1>4

LEMMA CompleteSteps ==
    ASSUME Typed, Proven, NEW r \in Requests, NEW q, q = req[r], NEW t, t = q.token,
           CompleteStepUpChallenge(r)
    PROVE  /\ q.at = "verified" /\ t \in Tokens /\ q.session \in Sessions /\ q.op \in Operations
           /\ row[t].challenge = "open" /\ row[t].session = q.session /\ row[t].op = q.op
           /\ Ends(r)
           /\ row' \in [Tokens -> Row] /\ \A u \in Tokens \ {t} : row'[u] = row[u]
           /\ row'[t].session = q.session /\ row'[t].op = q.op /\ row'[t].by = q.by
           /\ row'[t].challenge = "used" /\ row'[t].grant = "live" /\ row'[t] # NoRow
           /\ UNCHANGED <<account, session, push, nonce, pairing, changes, ghosts>>
  <1>1. q.at = "verified" /\ t \in Tokens /\ q \in Request /\ q.session \in Sessions
    BY UnderWay DEF CompleteStepUpChallenge, Typed
  <1>2. q.op \in Operations
    BY <1>1 DEF Proven, Fits, Typed, Inbox, Carrying
  <1>3. row \in [Tokens -> Row] /\ NoRow.challenge = "none"
    BY DEF Typed, Tables, NoRow
  <1> DEFINE y == [GrantRow(q, row[t]) EXCEPT !.challenge = "used"]
  <1>4. /\ y \in Row /\ y.challenge = "used" /\ y.grant = "live" /\ y.session = q.session
        /\ y.op = q.op /\ y.by = q.by
    BY <1>1, <1>3, GrantedRow
  <1>5. row' = [row EXCEPT ![t] = y]
    BY DEF CompleteStepUpChallenge
  <1> HIDE DEF y
  <1>6. row' \in [Tokens -> Row] /\ \A u \in Tokens : row'[u] = IF u = t THEN y ELSE row[u]
    BY <1>1, <1>3, <1>4, <1>5, OneRow
  <1> QED
    BY <1>1, <1>2, <1>3, <1>4, <1>6 DEF CompleteStepUpChallenge, MayComplete

LEMMA ConsumeSteps ==
    ASSUME Typed, Proven, NEW r \in Requests, NEW q, q = req[r], NEW t, t = q.token,
           ConsumeStepUpToken(r)
    PROVE  /\ q.at = "called" /\ t \in Tokens /\ q.session \in Sessions /\ q.op \in AllOperations
           /\ row[t].grant = "live" /\ row[t].session = q.session /\ row[t].op = q.op
           /\ row' \in [Tokens -> Row] /\ \A u \in Tokens \ {t} : row'[u] = row[u]
           /\ row'[t].session = q.session /\ row'[t].op = q.op /\ row'[t].by = row[t].by
           /\ row'[t].challenge = row[t].challenge /\ row'[t].grant = "used"
           /\ row'[t].attempts = row[t].attempts
           /\ UNCHANGED <<account, session, push, nonce, pairing, changes, changed,
                          cancelled, voided, guesses>>
  <1>1. q.at = "called" /\ t \in Tokens /\ q \in Request /\ q.session \in Sessions
           /\ q.op \in AllOperations
    BY UnderWay DEF ConsumeStepUpToken, Typed
  <1>2. row \in [Tokens -> Row]
    BY DEF Typed, Tables
  <1> DEFINE y == [row[t] EXCEPT !.grant = "used"]
  <1>3. /\ y \in Row /\ y.challenge = row[t].challenge /\ y.grant = "used"
        /\ y.session = row[t].session /\ y.op = row[t].op /\ y.by = row[t].by
        /\ y.attempts = row[t].attempts
    BY <1>1, <1>2, OtherRows
  <1>4. row' = [row EXCEPT ![t] = y]
    BY <1>2 DEF ConsumeStepUpToken
  <1> HIDE DEF y
  <1>5. row' \in [Tokens -> Row] /\ \A u \in Tokens : row'[u] = IF u = t THEN y ELSE row[u]
    BY <1>1, <1>2, <1>3, <1>4, OneRow
  <1> QED
    BY <1>1, <1>3, <1>5 DEF ConsumeStepUpToken, GrantFor

LEMMA GrantTypes ==
    ASSUME Typed, Proven, NEW r \in Requests,
           \/ CreateStepUpToken(r) \/ CreateStepUpChallenge(r) \/ FailStepUpChallenge(r)
           \/ CompleteStepUpChallenge(r) \/ ConsumeStepUpToken(r)
    PROVE  Typed'
  <1> USE DEF account, tables, ghosts
  <1>1. Tables /\ Ghosts /\ Inbox
    BY DEF Typed
  <1>2. PICK q, t : q = req[r] /\ t = q.token
    OBVIOUS
  <1>3. CASE CreateStepUpToken(r) \/ CreateStepUpChallenge(r)
    <2>1. Inbox'
      BY <1>1, <1>2, <1>3, GrantSteps, AnswerTypes DEF Answers
    <2> QED
      BY <1>1, <1>2, <1>3, <2>1, GrantSteps DEF Tables, Ghosts, Typed
  <1>4. CASE FailStepUpChallenge(r)
    <2>1. Inbox'
      BY <1>1, <1>2, <1>4, FailSteps, AnswerTypes DEF Answers
    <2>2. guesses' \in [Tokens -> Nat]
      <3>1. guesses' = [guesses EXCEPT ![t] = @ + 1]
        BY <1>2, <1>4 DEF FailStepUpChallenge
      <3>2. t \in Tokens
        BY <1>2, <1>4, FailSteps
      <3> QED
        BY <1>1, <3>1, <3>2 DEF Ghosts
    <2> QED
      BY <1>1, <1>2, <1>4, <2>1, <2>2, FailSteps DEF Tables, Ghosts, Typed
  <1>5. CASE CompleteStepUpChallenge(r)
    <2>1. Inbox'
      BY <1>1, <1>2, <1>5, CompleteSteps, AnswerTypes DEF Answers
    <2> QED
      BY <1>1, <1>2, <1>5, <2>1, CompleteSteps DEF Tables, Ghosts, Typed
  <1>6. CASE ConsumeStepUpToken(r)
    <2>1. Inbox'
      <3> DEFINE p == [q EXCEPT !.at = "authorised", !.by = row[t].by]
      <3>1. /\ q \in Request /\ Carrying(q) /\ q.at = "called"
            /\ Goes(r, p) /\ t \in Tokens
        BY <1>1, <1>2, <1>6, ConsumeSteps DEF Inbox, ConsumeStepUpToken
      <3>2. row[t].by \in Factors \cup {"password", "recovery", None}
        BY <1>1, <3>1 DEF Tables, Row
      <3>3. p \in Request /\ Carrying(p)
        BY <3>1, <3>2 DEF Request, Carrying, Stages
      <3> HIDE DEF p
      <3> QED
        BY <1>1, <3>1, <3>3, RequestMoves DEF Inbox
    <2>2. uses' \in [Tokens -> [n : Nat, session : Sessions \cup {None},
                                op : AllOperations \cup {None}]]
      <3>1. uses' = [uses EXCEPT ![t] = [n |-> uses[t].n + 1, session |-> q.session,
                                         op |-> q.op]]
        BY <1>2, <1>6 DEF ConsumeStepUpToken
      <3>2. t \in Tokens /\ q.session \in Sessions /\ q.op \in AllOperations
        BY <1>2, <1>6, ConsumeSteps
      <3> QED
        BY <1>1, <3>1, <3>2 DEF Ghosts
    <2> QED
      BY <1>1, <1>2, <1>6, <2>1, <2>2, ConsumeSteps DEF Tables, Ghosts, Typed
  <1> QED
    BY <1>3, <1>4, <1>5, <1>6

\* Transactions a request makes on the strength of what it spent.
Pays(r) ==
    \/ SaveUserTOTP(r) \/ GenerateRecoveryCodes(r) \/ FinishRegistration(r) \/ DeletePasskey(r)
    \/ GenerateDevicePairingToken(r)

LEMMA PayTypes ==
    ASSUME Typed, NEW r \in Requests, Pays(r)
    PROVE  Typed' /\ Answers(r)
  <1> USE DEF account, tables, ghosts
  <1>1. Tables /\ Ghosts /\ Inbox
    BY DEF Typed
  <1>2. Answers(r)
    BY DEF Pays, SaveUserTOTP, GenerateRecoveryCodes, FinishRegistration, DeletePasskey,
       GenerateDevicePairingToken, Answers, Carries, Stages
  <1>3. changed' \in [Tokens -> Nat]
    BY <1>1 DEF Pays, SaveUserTOTP, GenerateRecoveryCodes, FinishRegistration, DeletePasskey,
       GenerateDevicePairingToken, Changed, Ghosts
  <1>4. /\ factors' \subseteq Factors /\ codes' \in BOOLEAN /\ nonce' \in BOOLEAN
        /\ pairing' \in [Tokens -> {"none", "live", "used"}]
    BY <1>1 DEF Pays, SaveUserTOTP, GenerateRecoveryCodes, FinishRegistration, DeletePasskey,
       GenerateDevicePairingToken, Tables, Factors
  <1>5. UNCHANGED <<active, session, row, push, changes, uses, cancelled, voided, guesses>>
    BY DEF Pays, SaveUserTOTP, GenerateRecoveryCodes, FinishRegistration, DeletePasskey,
       GenerateDevicePairingToken
  <1> QED
    BY <1>1, <1>2, <1>3, <1>4, <1>5, AnswerTypes DEF Tables, Ghosts, Typed

\* Steps outside the requests that leave every step-up as it is.
Aside ==
    \/ \E s \in Sessions, t \in Tokens : BeginRegistration(s, t)
    \/ \E t \in Tokens, answer \in {"approved", "denied"} : RespondPush(t, answer)
    \/ \E s \in Sessions : SignIn(s)
    \/ \E f \in Factors : OtherChange(f)
    \/ EnableUser

LEMMA AsideTypes ==
    ASSUME Typed, Aside
    PROVE  /\ Typed' /\ Stays
           /\ UNCHANGED <<row, pairing, ghosts>>
           /\ \A s \in Sessions : /\ session[s] # "new" => session'[s] # "new"
                                  /\ session[s] = "ended" => session'[s] = "ended"
  <1> USE DEF account, tables, ghosts
  <1>1. Tables /\ Ghosts /\ Inbox
    BY DEF Typed
  <1>2. Stays /\ UNCHANGED <<row, pairing, uses, changed, cancelled, voided, guesses>>
    BY DEF Aside, BeginRegistration, RespondPush, SignIn, OtherChange, EnableUser, Stays
  <1>3. /\ session' \in [Sessions -> {"new", "live", "ended"}]
        /\ \A s \in Sessions : /\ session[s] # "new" => session'[s] # "new"
                               /\ session[s] = "ended" => session'[s] = "ended"
    BY <1>1 DEF Aside, BeginRegistration, RespondPush, SignIn, OtherChange, EnableUser, Tables
  <1>4. /\ active' \in BOOLEAN /\ factors' \subseteq Factors /\ codes' \in BOOLEAN
        /\ push' \in [Tokens -> {"none", "pending", "approved", "denied"}] /\ nonce' \in BOOLEAN
    BY <1>1 DEF Aside, BeginRegistration, RespondPush, SignIn, OtherChange, EnableUser, Tables,
       Factors
  <1>5. changes' \in 0 .. MaxChanges
    BY <1>1, BoundsAreNatural DEF Aside, BeginRegistration, RespondPush, SignIn, OtherChange,
       EnableUser, Changes, Tables
  <1>6. Inbox'
    BY <1>1, <1>2 DEF Stays, Inbox
  <1> QED
    BY <1>1, <1>2, <1>3, <1>4, <1>5, <1>6 DEF Tables, Ghosts, Typed

LEMMA DeviceTypes ==
    ASSUME Typed, NEW t \in Tokens, RegisterNativeDevice(t)
    PROVE  /\ Typed' /\ Stays
           /\ pairing' = [pairing EXCEPT ![t] = "used"]
           /\ changed' = [changed EXCEPT ![t] = changed[t] + 1]
           /\ factors \subseteq factors' /\ pairing[t] = "live"
           /\ UNCHANGED <<active, codes, session, row, push, nonce, changes, uses, cancelled,
                          voided, guesses>>
  BY DEF RegisterNativeDevice, PairingSpent, Changed, Stays, Typed, Tables, Ghosts, Inbox, Factors

\* The kinds of steps, for the case splits below.
LEMMA StepKinds ==
    ASSUME Next
    PROVE  \/ \E r \in Requests : \/ Moves(r) \/ Pays(r)
                                  \/ CreateStepUpToken(r) \/ CreateStepUpChallenge(r)
                                  \/ FailStepUpChallenge(r) \/ CompleteStepUpChallenge(r)
                                  \/ ConsumeStepUpToken(r)
           \/ \E t \in Tokens : RegisterNativeDevice(t)
           \/ Burn \/ Aside
  BY DEF Next, Handle, Moves, Pays, Burn, Aside

LEMMA TypedStep ==
    ASSUME Typed, Proven, [Next]_vars
    PROVE  Typed'
  <1>1. CASE UNCHANGED vars
    BY <1>1 DEF vars, account, tables, ghosts, Typed, Tables, Ghosts, Inbox
  <1> QED
    BY <1>1, StepKinds, MoveTypes, PayTypes, GrantTypes, DeviceTypes, BurnTypes, AsideTypes

-----------------------------------------------------------------------------
(* One proof, one operation, one change                                    *)

\* What a step makes of the requests it does not answer for: they stay, or one ends.
LEMMA Leaves ==
    ASSUME Inbox, NEW r \in Requests, Stays \/ Ends(r)
    PROVE  \A p \in Requests : req'[p] = req[p] \/ (p = r /\ req'[p] = Idle)
  BY DEF Stays, Ends, Goes, Inbox

LEMMA IdleFits == Fits(Idle)' /\ \A q : Apart(Idle, q) /\ Apart(q, Idle)
  BY DEF Fits, Apart, Idle, Holding, Paying

\* Requests stay apart while none is added and one at most moves on.
LEMMA ApartOn ==
    ASSUME Proven, NEW r \in Requests, NEW q,
           \A p \in Requests : req'[p] = IF p = r THEN q ELSE req[p],
           \A p \in Requests \ {r} : Apart(q, req[p]) /\ Apart(req[p], q)
    PROVE  \A p, s \in Requests : p # s => Apart(req'[p], req'[s])
  BY DEF Proven

LEMMA ApartLess ==
    ASSUME Proven, \A p \in Requests : req'[p] = req[p] \/ req'[p] = Idle
    PROVE  \A p, s \in Requests : p # s => Apart(req'[p], req'[s])
  BY IdleFits DEF Proven

LEMMA ProvenParts ==
    ASSUME \A t \in Tokens : Sound(t)',
           \A r \in Requests : Fits(req[r])',
           \A p, s \in Requests : p # s => Apart(req'[p], req'[s])
    PROVE  Proven'
  BY DEF Proven, Apart

LEMMA ProvenBurns ==
    ASSUME Typed, Proven, Burn
    PROVE  Proven'
  <1>1. BurnsRows /\ (Stays \/ \E r \in Requests : Ends(r))
    BY BurnTypes
  <1>2. row \in [Tokens -> Row] /\ Inbox
    BY DEF Typed, Tables
  <1>3. ASSUME NEW t \in Tokens
        PROVE  /\ row'[t].session = row[t].session /\ row'[t].op = row[t].op
               /\ row'[t].by = row[t].by
               /\ row'[t].challenge = "open" => row' [t] = row[t]
               /\ row'[t].grant # "used" => row'[t].grant = row[t].grant /\ row[t].grant # "used"
               /\ row[t] = NoRow => row'[t] = NoRow
    <2>1. row[t] \in Row /\ row'[t] \in {row[t], Burnt(row[t]), WithoutChallenge(row[t])}
      BY <1>1, <1>2 DEF BurnsRows
    <2> QED
      BY <2>1, BurntRow, NoRowStays
  <1>4. ASSUME NEW t \in Tokens PROVE Sound(t)'
    BY <1>1, <1>3 DEF BurnsRows, Proven, Sound
  <1>5. \A p \in Requests : req'[p] = req[p] \/ req'[p] = Idle
    BY <1>1, <1>2, Leaves DEF Stays
  <1>6. ASSUME NEW q, q \in Request, Carrying(q), Fits(q) PROVE Fits(q)'
    <2>1. q.at # "idle" => q.token \in Tokens /\ q.session \in Sessions
      BY <1>6 DEF Request, Carrying
    <2>2. q.at # "idle" => /\ row[q.token] = NoRow => row'[q.token] = NoRow
                           /\ row'[q.token].op = row[q.token].op
                           /\ pairing[q.token] # "live" => pairing'[q.token] # "live"
                           /\ session[q.session] # "new" => session'[q.session] # "new"
      BY <1>1, <1>3, <2>1 DEF BurnsRows
    <2> QED
      BY <1>1, <1>6, <2>2 DEF Fits, BurnsRows, Holding, Paying
  <1>7. ASSUME NEW r \in Requests PROVE Fits(req[r])'
    <2>1. PICK q : q = req'[r] /\ (q = req[r] \/ q = Idle)
      BY <1>5
    <2>2. Fits(q)'
      BY <1>2, <1>6, <2>1, IdleFits DEF Proven, Inbox
    <2> QED
      BY <2>1, <2>2 DEF Fits
  <1> QED
    BY <1>4, <1>5, <1>7, ApartLess, ProvenParts

LEMMA ProvenAside ==
    ASSUME Typed, Proven, Aside
    PROVE  Proven'
  <1>1. /\ Stays /\ UNCHANGED <<row, pairing, uses, changed>>
        /\ \A s \in Sessions : session[s] # "new" => session'[s] # "new"
    BY AsideTypes DEF ghosts
  <1>2. \A t \in Tokens : Sound(t)'
    BY <1>1 DEF Proven, Sound
  <1>3. ASSUME NEW r \in Requests PROVE Fits(req[r])'
    <2>1. req[r].at # "idle" => req[r].session \in Sessions
      BY UnderWay DEF Typed
    <2> QED
      BY <1>1, <2>1 DEF Proven, Fits, Stays
  <1> QED
    BY <1>1, <1>2, <1>3 DEF Stays, Proven, Apart

\* A request that moves without writing a row.
LEMMA MoveKinds ==
    ASSUME Typed, Proven, NEW r \in Requests, Moves(r)
    PROVE  /\ UNCHANGED <<session, tables, changes, ghosts>>
           /\ \E q \in Request :
                 /\ Carrying(q) /\ \A p \in Requests : req'[p] = IF p = r THEN q ELSE req[p]
                 /\ Fits(q) /\ q.at # "authorised"
                 /\ \/ q = Idle
                    \/ q.token = req[r].token /\ (q.at \in Holding <=> req[r].at \in Holding)
                         /\ (q.at \in Reading <=> req[r].at \in Reading)
                         /\ q.session = req[r].session /\ req[r].at # "idle"
                    \/ Unissued(q.token) /\ q.at \in Holding /\ session[q.session] = "live"
                    \/ q.at = "called" /\ row[q.token].grant = "live"
                    \/ /\ q.at = "read" /\ row[q.token].challenge = "open"
                       /\ row[q.token].attempts < MaxAttempts
  <1> USE DEF account, tables, ghosts
  <1>1. Inbox /\ Operations \subseteq AllOperations /\ row \in [Tokens -> Row]
    BY OperationsAreKnown DEF Typed, Tables
  <1>2. UNCHANGED <<session, tables, changes, ghosts>>
    BY DEF Moves, AskStepUp, CallOperation, ReadStepUpChallenge, ProveTOTP, ProveRecoveryCode,
       ApprovedPush, VerifyStepUpAssertion, Abandon
  <1>3. ASSUME NEW s \in Sessions, NEW o \in Operations, NEW t \in Tokens,
               NEW m \in Factors \cup {"password", "recovery"}, AskStepUp(r, s, o, m, t)
        PROVE  \E q \in Request :
                 /\ Carrying(q) /\ \A p \in Requests : req'[p] = IF p = r THEN q ELSE req[p]
                 /\ Fits(q) /\ q.at # "authorised"
                 /\ Unissued(q.token) /\ q.at \in Holding /\ session[q.session] = "live"
    <2>1. PICK at \in {"proved", "asked"} :
             Goes(r, [at |-> at, token |-> t, session |-> s, op |-> o, by |-> m])
      BY <1>3 DEF AskStepUp
    <2> DEFINE q == [at |-> at, token |-> t, session |-> s, op |-> o, by |-> m]
    <2>2. at \in Stages
      BY DEF Stages
    <2>3. /\ q \in Request /\ Carrying(q) /\ q.at = at /\ q.token = t /\ q.session = s
          /\ q.op = o /\ q.by = m
      BY <1>1, <2>2, NewRequest
    <2>4. Goes(r, q)
      BY <2>1
    <2> HIDE DEF q
    <2>5. m = "recovery" => o \in Enrolments
      BY <1>3 DEF AskStepUp, StepUpMethods, Factors, Typed, Tables
    <2>6. Unissued(t) /\ row[t] = NoRow /\ session[s] = "live"
      BY <1>3 DEF AskStepUp, Unissued, Live
    <2>7. Fits(q)
      BY <2>3, <2>5, <2>6 DEF Fits, Holding, Paying
    <2> QED
      BY <1>1, <2>3, <2>4, <2>6, <2>7, RequestMoves DEF Inbox, Holding
  <1>4. ASSUME NEW s \in Sessions, NEW o \in Operations, NEW t \in Tokens, CallOperation(r, s, o, t)
        PROVE  \E q \in Request :
                 /\ Carrying(q) /\ \A p \in Requests : req'[p] = IF p = r THEN q ELSE req[p]
                 /\ Fits(q) /\ q.at = "called" /\ row[q.token].grant = "live"
    <2> DEFINE q == [at |-> "called", token |-> t, session |-> s, op |-> o, by |-> None]
    <2>1. "called" \in Stages
      BY DEF Stages
    <2>2. /\ q \in Request /\ Carrying(q) /\ q.at = "called" /\ q.token = t /\ q.session = s
          /\ q.op = o
      BY <1>1, <2>1, NewRequest
    <2>3. Goes(r, q)
      BY <1>4 DEF CallOperation
    <2> HIDE DEF q
    <2>4. row[t].grant = "live" /\ session[s] = "live"
      BY <1>4 DEF CallOperation, Live
    <2>5. Fits(q)
      BY <2>2, <2>4 DEF Fits, Holding, Paying
    <2> QED
      BY <1>1, <2>2, <2>3, <2>4, <2>5, RequestMoves DEF Inbox
  <1>5. ASSUME NEW s \in Sessions, NEW t \in Tokens, ReadStepUpChallenge(r, s, t)
        PROVE  \E q \in Request :
                 /\ Carrying(q) /\ \A p \in Requests : req'[p] = IF p = r THEN q ELSE req[p]
                 /\ Fits(q) /\ q.at = "read" /\ row[q.token].challenge = "open"
                 /\ row[q.token].attempts < MaxAttempts
    <2> DEFINE q == [at |-> "read", token |-> t, session |-> s, op |-> row[t].op,
                     by |-> row[t].by]
    <2>1. "read" \in Stages
      BY DEF Stages
    <2>2. row[t].challenge = "open" /\ row[t].attempts < MaxAttempts /\ session[s] = "live"
      BY <1>5 DEF ReadStepUpChallenge, GetStepUpChallenge, Live
    <2>3. row[t].op \in Operations
      BY <2>2 DEF Proven, Sound
    <2>4. row[t].by \in Factors \cup {"password", "recovery", None}
      BY <1>1 DEF Row
    <2>5. /\ q \in Request /\ Carrying(q) /\ q.at = "read" /\ q.token = t /\ q.session = s
          /\ q.op = row[t].op
      BY <1>1, <2>1, <2>3, <2>4, NewRequest
    <2>6. Goes(r, q)
      BY <1>5 DEF ReadStepUpChallenge
    <2> HIDE DEF q
    <2>7. Fits(q)
      BY <2>2, <2>3, <2>5 DEF Fits, Holding, Paying
    <2> QED
      BY <1>1, <2>2, <2>5, <2>6, <2>7, RequestMoves DEF Inbox
  <1>6. ASSUME NEW at \in {"proved", "verified", "missed"}, At(r, at),
               req[r].at # "idle", at = "proved" <=> req[r].at = "asked",
               at \in Reading <=> req[r].at = "read",
               at = "verified" => req[r].by # "recovery"
        PROVE  \E q \in Request :
                 /\ Carrying(q) /\ \A p \in Requests : req'[p] = IF p = r THEN q ELSE req[p]
                 /\ Fits(q) /\ q.at # "authorised"
                 /\ q.token = req[r].token /\ (q.at \in Holding <=> req[r].at \in Holding)
                 /\ (q.at \in Reading <=> req[r].at \in Reading)
                 /\ q.session = req[r].session
    <2> DEFINE q == [req[r] EXCEPT !.at = at]
    <2>1. req[r] \in Request /\ Carrying(req[r]) /\ Fits(req[r]) /\ at \in Stages
      BY <1>1 DEF Inbox, Proven, Stages
    <2>2. /\ q \in Request /\ Carrying(q) /\ q.at = at /\ q.token = req[r].token
          /\ q.session = req[r].session /\ q.op = req[r].op /\ q.by = req[r].by
      BY <1>6, <2>1, RequestAt
    <2>3. Goes(r, q)
      BY <1>6 DEF At
    <2> HIDE DEF q
    <2>4. Fits(q)
      BY <1>6, <2>1, <2>2 DEF Fits, Holding, Paying, Reading
    <2>5. \A p \in Requests : req'[p] = IF p = r THEN q ELSE req[p]
      BY <1>1, <2>2, <2>3, RequestMoves DEF Inbox
    <2>6. (q.at \in Holding <=> req[r].at \in Holding)
             /\ (q.at \in Reading <=> req[r].at \in Reading) /\ q.at # "authorised"
      BY <1>6, <2>2 DEF Holding, Reading
    <2> QED
      BY <2>2, <2>4, <2>5, <2>6
  <1>7. CASE ProveTOTP(r) \/ ProveRecoveryCode(r)
    <2>1. At(r, "proved") /\ req[r].at = "asked"
      BY <1>7 DEF ProveTOTP, ProveRecoveryCode
    <2> QED
      BY <1>2, <1>6, <2>1 DEF Reading
  <1>8. CASE ApprovedPush(r) \/ VerifyStepUpAssertion(r)
    <2>1. PICK at \in {"verified", "missed"} : At(r, at)
      BY <1>8 DEF ApprovedPush, VerifyStepUpAssertion
    <2>2. req[r].at = "read" /\ req[r].by # "recovery"
      BY <1>8 DEF ApprovedPush, VerifyStepUpAssertion
    <2> QED
      BY <1>2, <1>6, <2>1, <2>2 DEF Reading
  <1>9. CASE Abandon(r)
    <2>1. Idle \in Request /\ Carrying(Idle) /\ Fits(Idle) /\ Idle.at # "authorised"
      BY IdleRequest DEF Fits, Idle, Holding, Paying
    <2> QED
      BY <1>1, <1>2, <1>9, <2>1, RequestMoves DEF Abandon, Ends, Inbox
  <1> QED
    BY <1>2, <1>3, <1>4, <1>5, <1>7, <1>8, <1>9 DEF Moves

LEMMA ProvenMoves ==
    ASSUME Typed, Proven, NEW r \in Requests, Moves(r)
    PROVE  Proven'
  <1>1. UNCHANGED <<session, row, pairing, uses, changed>>
    BY MoveKinds DEF tables, ghosts
  <1>2. PICK q \in Request :
           /\ \A p \in Requests : req'[p] = IF p = r THEN q ELSE req[p]
           /\ Fits(q) /\ q.at # "authorised"
           /\ \/ q = Idle
              \/ q.token = req[r].token /\ (q.at \in Holding <=> req[r].at \in Holding)
                   /\ req[r].at # "idle"
              \/ Unissued(q.token) /\ q.at \in Holding
              \/ q.at = "called" /\ row[q.token].grant = "live"
              \/ q.at = "read" /\ row[q.token].challenge = "open"
    BY MoveKinds
  <1>3. \A t \in Tokens : Sound(t)'
    BY <1>1 DEF Proven, Sound
  <1>4. \A p \in Requests : Fits(req[p])'
    BY <1>1, <1>2 DEF Proven, Fits
  <1>5. ASSUME NEW p \in Requests, p # r
        PROVE  Apart(q, req[p]) /\ Apart(req[p], q)
    <2>1. CASE q = Idle
      BY <2>1, IdleFits
    <2>2. CASE q.token = req[r].token /\ (q.at \in Holding <=> req[r].at \in Holding)
                 /\ req[r].at # "idle"
      BY <1>2, <1>5, <2>2 DEF Proven, Apart
    <2>3. CASE Unissued(q.token)
      BY <2>3 DEF Unissued, Apart
    <2>4. CASE /\ row[q.token].grant = "live" \/ row[q.token].challenge = "open"
               /\ q.at \in {"called", "read"}
      <3>1. row[q.token] # NoRow
        BY <2>4, EmptyRow
      <3> QED
        BY <2>4, <3>1 DEF Apart, Proven, Fits, Holding
    <2> QED
      BY <1>2, <2>1, <2>2, <2>3, <2>4
  <1>6. \A p, s \in Requests : p # s => Apart(req'[p], req'[s])
    BY <1>2, <1>5, ApartOn
  <1> QED
    BY <1>3, <1>4, <1>6, ProvenParts

LEMMA ProvenGrants ==
    ASSUME Typed, Proven, NEW r \in Requests,
           \/ CreateStepUpToken(r) \/ CreateStepUpChallenge(r) \/ FailStepUpChallenge(r)
           \/ CompleteStepUpChallenge(r)
    PROVE  Proven'
  <1>1. PICK q, t : q = req[r] /\ t = q.token
    OBVIOUS
  <1>2. /\ q.at # "idle" /\ t \in Tokens /\ Ends(r)
        /\ row' \in [Tokens -> Row] /\ \A u \in Tokens \ {t} : row'[u] = row[u]
        /\ UNCHANGED <<session, pairing, uses, changed>>
    BY <1>1, GrantSteps, FailSteps, CompleteSteps DEF ghosts, Holding
  <1>3. Sound(t)'
    <2>1. CASE CreateStepUpToken(r) \/ CreateStepUpChallenge(r)
      <3>1. /\ row[t] = NoRow /\ row'[t].op = q.op /\ row'[t].session = q.session
            /\ row'[t].by = q.by /\ q.op \in Operations /\ q.session \in Sessions
            /\ q.at \in Holding
            /\ \/ row'[t].challenge = "open" /\ row'[t].grant = "none"
               \/ row'[t].challenge = "none" /\ row'[t].grant = "live"
        BY <1>1, <2>1, GrantSteps
      <3>2. row[t].grant = "none" /\ uses[t].n = 0 /\ changed[t] = 0 /\ pairing[t] # "live"
        BY <1>2, <3>1, EmptyRow DEF Proven, Sound
      <3>3. q.by = "recovery" => q.op \in Enrolments
        BY <1>1, <3>1 DEF Proven, Fits
      <3> QED
        BY <1>2, <3>1, <3>2, <3>3, NoneIsNothing, OperationsAreKnown DEF Sound
    <2>2. CASE FailStepUpChallenge(r)
      <3>1. /\ row'[t].session = row[t].session /\ row'[t].op = row[t].op
            /\ row'[t].by = row[t].by
            /\ row'[t].challenge = row[t].challenge /\ row'[t].grant = row[t].grant
        BY <1>1, <2>2, FailSteps
      <3> QED
        BY <1>2, <3>1 DEF Proven, Sound
    <2>3. CASE CompleteStepUpChallenge(r)
      <3>1. /\ row[t].challenge = "open" /\ row'[t].op = q.op /\ row'[t].session = q.session
            /\ row'[t].by = q.by /\ q.op \in Operations /\ q.session \in Sessions
            /\ row'[t].challenge = "used" /\ row'[t].grant = "live" /\ q.at = "verified"
        BY <1>1, <2>3, CompleteSteps
      <3>2. row[t].grant = "none" /\ uses[t].n = 0 /\ changed[t] = 0 /\ pairing[t] # "live"
        BY <1>2, <3>1 DEF Proven, Sound
      <3>3. q.by # "recovery"
        BY <1>1, <3>1 DEF Proven, Fits
      <3> QED
        BY <1>2, <3>1, <3>2, <3>3, NoneIsNothing, OperationsAreKnown DEF Sound
    <2> QED
      BY <2>1, <2>2, <2>3
  <1>4. ASSUME NEW u \in Tokens PROVE Sound(u)'
    BY <1>2, <1>3, <1>4 DEF Proven, Sound
  <1>5. \A p \in Requests : req'[p] = req[p] \/ (p = r /\ req'[p] = Idle)
    BY <1>2, Leaves DEF Typed
  <1>6. ASSUME NEW p \in Requests PROVE Fits(req[p])'
    <2>1. CASE req'[p] = Idle
      BY <2>1, IdleFits DEF Fits
    <2>2. CASE p # r
      <3>1. req'[p] = req[p] /\ Fits(req[p]) /\ Apart(req[p], q)
        BY <1>1, <1>5, <2>2 DEF Proven
      <3>2. req[p].at # "idle" => req[p].token \in Tokens
        BY UnderWay DEF Typed
      <3>3. CASE req[p].token # t
        BY <1>2, <3>1, <3>2, <3>3 DEF Fits, Holding, Paying
      <3>4. CASE req[p].token = t
        <4>1. req[p].at \notin Holding
          BY <1>1, <1>2, <3>1, <3>4 DEF Apart
        <4>2. req[p].at = "authorised" => row'[t].op = row[t].op
          <5>1. CASE q.at \in Holding
            BY <1>1, <1>2, <3>4, <5>1, <2>2 DEF Proven, Apart
          <5>2. CASE q.at \notin Holding
            BY <1>1, <5>2, FailSteps, CompleteSteps, GrantSteps
          <5> QED
            BY <5>1, <5>2
        <4> QED
          BY <1>2, <3>1, <3>4, <4>1, <4>2 DEF Fits
      <3> QED
        BY <3>3, <3>4
    <2> QED
      BY <1>2, <1>5, <2>1, <2>2 DEF Ends, Goes, Typed, Inbox
  <1> QED
    BY <1>4, <1>5, <1>6, ApartLess, ProvenParts

\* Spending a grant: nobody has spent it, so nobody else acts on it.
LEMMA ProvenConsumes ==
    ASSUME Typed, Proven, NEW r \in Requests, NEW q, q = req[r], NEW t, t = q.token,
           ConsumeStepUpToken(r)
    PROVE  Proven'
  <1>2. /\ q.at = "called" /\ t \in Tokens /\ q.session \in Sessions /\ q.op \in AllOperations
        /\ row[t].grant = "live" /\ row[t].session = q.session /\ row[t].op = q.op
        /\ row' \in [Tokens -> Row] /\ \A u \in Tokens \ {t} : row'[u] = row[u]
        /\ row'[t].session = q.session /\ row'[t].op = q.op /\ row'[t].by = row[t].by
        /\ row'[t].challenge = row[t].challenge /\ row'[t].grant = "used"
        /\ UNCHANGED <<session, pairing, changed>>
    <2>1. /\ q.at = "called" /\ t \in Tokens /\ q.session \in Sessions /\ q.op \in AllOperations
          /\ row[t].grant = "live" /\ row[t].session = q.session /\ row[t].op = q.op
      BY ConsumeSteps
    <2>2. row' \in [Tokens -> Row] /\ \A u \in Tokens \ {t} : row'[u] = row[u]
      BY ConsumeSteps
    <2>3. /\ row'[t].session = q.session /\ row'[t].op = q.op /\ row'[t].by = row[t].by
          /\ row'[t].challenge = row[t].challenge /\ row'[t].grant = "used"
      BY ConsumeSteps
    <2>4. UNCHANGED <<session, pairing, changed>>
      BY DEF ConsumeStepUpToken
    <2> QED
      BY <2>1, <2>2, <2>3, <2>4
  <1>3. uses[t].n = 0 /\ changed[t] = 0 /\ pairing[t] # "live" /\ row[t].challenge # "open"
    BY <1>2 DEF Proven, Sound
  <1>4. uses'[t].n = 1 /\ \A u \in Tokens \ {t} : uses'[u] = uses[u]
    <2>1. uses' = [uses EXCEPT ![t] = [n |-> uses[t].n + 1, session |-> q.session, op |-> q.op]]
      BY DEF ConsumeStepUpToken
    <2> QED
      BY <1>2, <1>3, <2>1 DEF Typed, Ghosts
  <1>5. Sound(t)'
    BY <1>2, <1>3, <1>4 DEF Proven, Sound
  <1>6. ASSUME NEW u \in Tokens PROVE Sound(u)'
    BY <1>2, <1>4, <1>5, <1>6 DEF Proven, Sound
  <1> DEFINE a == [q EXCEPT !.at = "authorised", !.by = row[t].by]
  <1>7. q \in Request /\ Fits(q) /\ Carrying(q) /\ req \in [Requests -> Request]
    BY DEF Proven, Typed, Inbox
  <1>8. a.at = "authorised" /\ a.token = t /\ a.op = q.op /\ a.session = q.session
           /\ a.by = row[t].by
    BY <1>7 DEF Request
  <1>9. \A p \in Requests : req'[p] = IF p = r THEN a ELSE req[p]
    BY <1>7 DEF ConsumeStepUpToken, Goes
  <1> HIDE DEF a
  <1>10. \A p \in Requests : req[p].token = t => req[p].at \notin Holding \cup {"authorised"}
    BY <1>2, <1>3, EmptyRow DEF Proven, Fits
  <1>11. \A p \in Requests \ {r} : Apart(a, req[p]) /\ Apart(req[p], a)
    BY <1>8, <1>10 DEF Apart, Holding
  <1>12. ASSUME NEW p \in Requests PROVE Fits(req[p])'
    <2>1. CASE p = r
      <3>1. req'[p] = a
        BY <1>9, <2>1
      <3> QED
        BY <1>2, <1>3, <1>4, <1>5, <1>7, <1>8, <3>1 DEF Fits, Sound, Holding, Paying
    <2>2. CASE p # r
      <3>1. req'[p] = req[p] /\ Fits(req[p])
        BY <1>9, <2>2 DEF Proven
      <3>2. req[p].at # "idle" => req[p].token \in Tokens
        BY UnderWay DEF Typed
      <3> QED
        BY <1>2, <1>4, <1>10, <3>1, <3>2 DEF Fits, Holding, Paying
    <2> QED
      BY <2>1, <2>2
  <1>13. \A p, s \in Requests : p # s => Apart(req'[p], req'[s])
    BY <1>9, <1>11, ApartOn
  <1> QED
    BY <1>6, <1>12, <1>13, ProvenParts

\* A request that pays moves on, alone on its step-up, with a change, a pairing or new codes.
LEMMA PaySteps ==
    ASSUME Typed, Proven, NEW r \in Requests, Pays(r), NEW t, t = req[r].token
    PROVE  /\ t \in Tokens /\ req[r].at \in {"authorised", "enabled"}
           /\ \/ req[r].at = "authorised" /\ UNCHANGED pairing
                   /\ changed' = [changed EXCEPT ![t] = changed[t] + 1]
              \/ req[r].at = "authorised" /\ req[r].op = "device/pair" /\ UNCHANGED changed
                   /\ pairing' = [pairing EXCEPT ![t] = "live"]
              \/ req[r].at = "enabled" /\ UNCHANGED <<changed, pairing>>
           /\ \A p \in Requests \ {r} : req'[p] = req[p]
           /\ \/ req'[r] = Idle
              \/ /\ req'[r].at \in {"enabled", "coded"}
                 /\ req'[r].token = t /\ req'[r].session = req[r].session
                 /\ req'[r].op = req[r].op /\ req'[r].by = req[r].by
                 /\ req'[r].at = "enabled" =>
                      req[r].at = "authorised" /\ changed' = [changed EXCEPT ![t] = changed[t] + 1]
           /\ UNCHANGED <<active, session, row, push, uses, cancelled, voided, guesses>>
  <1> USE DEF account, tables, ghosts
  <1>1. req[r].at \in {"authorised", "enabled"}
    BY DEF Pays, SaveUserTOTP, GenerateRecoveryCodes, FinishRegistration, DeletePasskey,
       GenerateDevicePairingToken, Carries
  <1>2. t \in Tokens /\ req \in [Requests -> Request]
    BY <1>1, UnderWay DEF Typed, Inbox
  <1>3. \/ req[r].at = "authorised" /\ UNCHANGED pairing
             /\ changed' = [changed EXCEPT ![t] = changed[t] + 1]
        \/ req[r].at = "authorised" /\ req[r].op = "device/pair" /\ UNCHANGED changed
             /\ pairing' = [pairing EXCEPT ![t] = "live"]
        \/ req[r].at = "enabled" /\ UNCHANGED <<changed, pairing>>
    BY DEF Pays, SaveUserTOTP, GenerateRecoveryCodes, FinishRegistration, DeletePasskey,
       GenerateDevicePairingToken, Carries, Changed
  <1>4. Ends(r) \/ At(r, "enabled") \/ At(r, "coded")
    BY DEF Pays, SaveUserTOTP, GenerateRecoveryCodes, FinishRegistration, DeletePasskey,
       GenerateDevicePairingToken
  <1>5. \A p \in Requests \ {r} : req'[p] = req[p]
    BY <1>2, <1>4 DEF Ends, At, Goes
  <1>6. CASE Ends(r)
    <2>1. req'[r] = Idle
      BY <1>2, <1>6 DEF Ends, Goes
    <2>2. UNCHANGED <<active, session, row, push, uses, cancelled, voided, guesses>>
      BY DEF Pays, SaveUserTOTP, GenerateRecoveryCodes, FinishRegistration, DeletePasskey,
         GenerateDevicePairingToken
    <2> QED
      BY <1>1, <1>2, <1>3, <1>5, <2>1, <2>2
  <1>7. ASSUME NEW at \in {"enabled", "coded"}, At(r, at)
        PROVE  /\ req'[r].at = at /\ req'[r].token = t /\ req'[r].session = req[r].session
               /\ req'[r].op = req[r].op /\ req'[r].by = req[r].by
    <2>1. req'[r] = [req[r] EXCEPT !.at = at]
      BY <1>2, <1>7 DEF At, Goes
    <2> QED
      BY <1>2, <2>1 DEF Request
  <1>8. UNCHANGED <<active, session, row, push, uses, cancelled, voided, guesses>>
    BY DEF Pays, SaveUserTOTP, GenerateRecoveryCodes, FinishRegistration, DeletePasskey,
       GenerateDevicePairingToken
  <1>9. CASE At(r, "enabled")
    <2>1. ~GenerateRecoveryCodes(r) /\ ~Ends(r)
      BY <1>7, <1>9, IdleRequest, <1>2 DEF GenerateRecoveryCodes, Ends, At, Goes, Request
    <2>2. SaveUserTOTP(r)
      BY <2>1 DEF Pays, FinishRegistration, DeletePasskey, GenerateDevicePairingToken
    <2>3. req[r].at = "authorised" /\ changed' = [changed EXCEPT ![t] = changed[t] + 1]
      BY <2>2 DEF SaveUserTOTP, Carries, Changed
    <2> QED
      BY <1>1, <1>2, <1>3, <1>5, <1>7, <1>8, <1>9, <2>3
  <1>10. CASE At(r, "coded")
    BY <1>1, <1>2, <1>3, <1>5, <1>7, <1>8, <1>10
  <1> QED
    BY <1>4, <1>6, <1>9, <1>10

LEMMA ProvenPays ==
    ASSUME Typed, Proven, NEW r \in Requests, Pays(r)
    PROVE  Proven'
  <1>1. PICK t : t = req[r].token
    OBVIOUS
  <1>2. /\ t \in Tokens /\ req[r].at \in {"authorised", "enabled"}
        /\ \A p \in Requests \ {r} : req'[p] = req[p]
        /\ UNCHANGED <<session, row, uses>>
    BY <1>1, PaySteps
  <1>3. \/ req[r].at = "authorised" /\ UNCHANGED pairing
             /\ changed' = [changed EXCEPT ![t] = changed[t] + 1]
        \/ req[r].at = "authorised" /\ req[r].op = "device/pair" /\ UNCHANGED changed
             /\ pairing' = [pairing EXCEPT ![t] = "live"]
        \/ req[r].at = "enabled" /\ UNCHANGED <<changed, pairing>>
    BY <1>1, PaySteps
  <1>4. \/ req'[r] = Idle
        \/ /\ req'[r].at \in {"enabled", "coded"}
           /\ req'[r].token = t /\ req'[r].session = req[r].session /\ req'[r].op = req[r].op
           /\ req'[r].by = req[r].by
           /\ req'[r].at = "enabled" =>
                req[r].at = "authorised" /\ changed' = [changed EXCEPT ![t] = changed[t] + 1]
    BY <1>1, PaySteps
  <1>5. changed \in [Tokens -> Nat] /\ pairing \in [Tokens -> {"none", "live", "used"}]
    BY DEF Typed, Ghosts, Tables
  <1>6. Fits(req[r]) /\ Sound(t)
    BY <1>2 DEF Proven
  <1>7. /\ \A u \in Tokens \ {t} : changed'[u] = changed[u] /\ pairing'[u] = pairing[u]
        /\ req[r].at # "authorised" => UNCHANGED <<changed, pairing>>
        /\ req[r].at = "authorised" =>
             \/ changed'[t] = 1 /\ pairing'[t] = pairing[t]
             \/ req[r].op = "device/pair" /\ changed'[t] = 0 /\ pairing'[t] = "live"
    BY <1>1, <1>2, <1>3, <1>5, <1>6 DEF Fits
  <1>8. Sound(t)'
    BY <1>1, <1>2, <1>6, <1>7 DEF Sound, Fits
  <1>9. ASSUME NEW u \in Tokens PROVE Sound(u)'
    BY <1>2, <1>7, <1>8, <1>9 DEF Proven, Sound
  <1>10. ASSUME NEW p \in Requests, p # r
         PROVE  Fits(req[p])'
    <2>1. req'[p] = req[p] /\ Fits(req[p]) /\ Apart(req[p], req[r])
      BY <1>2, <1>10 DEF Proven
    <2>2. req[p].at # "idle" => req[p].token \in Tokens
      BY UnderWay DEF Typed
    <2>3. ASSUME req[p].at # "idle" PROVE changed[req[p].token] = 1 => changed'[req[p].token] = 1
      BY <1>1, <1>2, <1>6, <1>7, <2>2, <2>3 DEF Fits
    <2> QED
      BY <1>1, <1>2, <1>7, <2>1, <2>2, <2>3 DEF Fits, Apart, Holding, Paying
  <1>11. Fits(req[r])'
    <2>1. CASE req'[r] = Idle
      BY <2>1, IdleFits DEF Fits
    <2>2. CASE req'[r] # Idle
      <3>1. req'[r].at = "enabled" => changed'[t] = 1
        BY <1>1, <1>2, <1>4, <1>5, <1>6, <2>2 DEF Fits
      <3> QED
        BY <1>2, <1>4, <1>6, <2>2, <3>1 DEF Fits, Holding, Paying
    <2> QED
      BY <2>1, <2>2
  <1>12. ASSUME NEW p \in Requests \ {r}
         PROVE  Apart(req'[r], req[p]) /\ Apart(req[p], req'[r])
    <2>1. CASE req'[r] = Idle
      BY <2>1, IdleFits
    <2>2. CASE req'[r] # Idle
      BY <1>1, <1>2, <1>4, <2>2 DEF Apart, Proven, Holding
    <2> QED
      BY <2>1, <2>2
  <1>13. \A p, s \in Requests : p # s => Apart(req'[p], req'[s])
    BY <1>2, <1>12, ApartOn
  <1> QED
    BY <1>9, <1>10, <1>11, <1>13, ProvenParts

\* A pairing that is live has been paid for by an operation of which nothing else came.
LEMMA ProvenDevice ==
    ASSUME Typed, Proven, NEW t \in Tokens, RegisterNativeDevice(t)
    PROVE  Proven'
  <1>1. /\ Stays /\ pairing[t] = "live" /\ UNCHANGED <<session, row, uses>>
        /\ pairing' = [pairing EXCEPT ![t] = "used"]
        /\ changed' = [changed EXCEPT ![t] = changed[t] + 1]
    BY DeviceTypes
  <1>2. changed \in [Tokens -> Nat] /\ pairing \in [Tokens -> {"none", "live", "used"}]
    BY DEF Typed, Ghosts, Tables
  <1>3. Sound(t)
    BY DEF Proven
  <1>4. /\ \A u \in Tokens \ {t} : changed'[u] = changed[u] /\ pairing'[u] = pairing[u]
        /\ changed'[t] = 1 /\ pairing'[t] = "used"
    BY <1>1, <1>2, <1>3 DEF Sound
  <1>5. Sound(t)'
    BY <1>1, <1>3, <1>4 DEF Sound
  <1>6. ASSUME NEW u \in Tokens PROVE Sound(u)'
    BY <1>1, <1>4, <1>5, <1>6 DEF Proven, Sound
  <1>7. ASSUME NEW p \in Requests PROVE Fits(req[p])'
    <2>1. req[p].at # "idle" => req[p].token \in Tokens
      BY UnderWay DEF Typed
    <2> QED
      BY <1>1, <1>4, <2>1 DEF Stays, Proven, Fits, Holding, Paying
  <1>8. \A p, s \in Requests : p # s => Apart(req'[p], req'[s])
    BY <1>1 DEF Stays, Proven
  <1> QED
    BY <1>6, <1>7, <1>8, ProvenParts

LEMMA ProvenStep ==
    ASSUME Typed, Proven, [Next]_vars
    PROVE  Proven'
  <1>1. CASE UNCHANGED vars
    BY <1>1 DEF vars, tables, ghosts, Proven, Sound, Fits, Apart
  <1>2. ASSUME NEW r \in Requests, ConsumeStepUpToken(r) PROVE Proven'
    <2>1. PICK q, t : q = req[r] /\ t = q.token
      OBVIOUS
    <2> QED
      BY <1>2, <2>1, ProvenConsumes
  <1> QED
    BY <1>1, <1>2, StepKinds, ProvenMoves, ProvenPays, ProvenGrants, ProvenDevice, ProvenBurns,
       ProvenAside

LEMMA AtFirst == Init => Typed /\ Proven
  <1> SUFFICES ASSUME Init PROVE Typed /\ Proven
    OBVIOUS
  <1>1. NoRow \in Row /\ NoRow.challenge = "none" /\ NoRow.grant = "none" /\ NoRow.op = None
           /\ NoRow.by = None
    BY EmptyRow
  <1>2. Tables
    <2>1. active \in BOOLEAN /\ factors \subseteq Factors /\ codes \in BOOLEAN
      BY DEF Init, Factors
    <2>2. session \in [Sessions -> {"new", "live", "ended"}] /\ row \in [Tokens -> Row]
      BY <1>1 DEF Init
    <2>3. /\ push \in [Tokens -> {"none", "pending", "approved", "denied"}] /\ nonce \in BOOLEAN
          /\ pairing \in [Tokens -> {"none", "live", "used"}]
      BY DEF Init
    <2>4. changes \in 0 .. MaxChanges
      BY BoundsAreNatural DEF Init
    <2> QED
      BY <2>1, <2>2, <2>3, <2>4 DEF Tables
  <1>3. Ghosts
    BY DEF Init, Ghosts
  <1>4. Inbox
    BY IdleRequest DEF Init, Inbox
  <1>5. \A t \in Tokens : Sound(t)
    BY <1>1, NoneIsNothing DEF Init, Sound
  <1>6. Fits(Idle) /\ \A q : Apart(Idle, q)
    BY DEF Fits, Apart, Idle, Holding, Paying
  <1> QED
    BY <1>2, <1>3, <1>4, <1>5, <1>6 DEF Init, Typed, Proven

LEMMA Always == Spec => [](Typed /\ Proven)
  <1>1. Typed /\ Proven /\ [Next]_vars => (Typed /\ Proven)'
    BY TypedStep, ProvenStep
  <1> QED
    BY <1>1, AtFirst, PTL DEF Spec

\* The tables, the requests and the counts keep their shape, and a request under way
\* always carries the token, the login and the operation it is about (TypeOK).
THEOREM TypeCorrect == Spec => []TypeOK
  BY Always, TypeParts, PTL

-----------------------------------------------------------------------------
(* The limits of a proof                                                   *)

LEMMA ConsumeMoves ==
    ASSUME Typed, NEW r \in Requests, ConsumeStepUpToken(r)
    PROVE  /\ req[r].at = "called" /\ req'[r].at = "authorised" /\ req'[r].token = req[r].token
           /\ \A p \in Requests \ {r} : req'[p] = req[p]
  <1>1. req \in [Requests -> Request]
    BY DEF Typed, Inbox
  <1>2. req' = [req EXCEPT ![r] = [req[r] EXCEPT !.at = "authorised",
                                                 !.by = row[req[r].token].by]]
    BY DEF ConsumeStepUpToken, Goes
  <1> QED
    BY <1>1, <1>2 DEF ConsumeStepUpToken, Request

\* What ending a step-up makes of its row.
LEMMA BurntRows ==
    ASSUME Typed, BurnsRows, NEW t \in Tokens
    PROVE  /\ row'[t].session = row[t].session /\ row'[t].op = row[t].op
           /\ row'[t].by = row[t].by /\ row'[t].attempts = row[t].attempts
           /\ \/ row'[t].challenge = row[t].challenge
              \/ row[t].challenge = "open" /\ row'[t].challenge = "used"
           /\ row'[t].grant = row[t].grant \/ (row[t].grant = "live" /\ row'[t].grant = "used")
           /\ row'[t] = NoRow <=> row[t] = NoRow
  <1>1. row[t] \in Row /\ row'[t] \in {row[t], Burnt(row[t]), WithoutChallenge(row[t])}
    BY DEF Typed, Tables, BurnsRows
  <1>2. row[t].challenge \in {"none", "open", "used"} /\ row[t].grant \in {"none", "live", "used"}
    BY <1>1 DEF Row
  <1>3. ASSUME NEW y \in {row[t], Burnt(row[t]), WithoutChallenge(row[t])}
        PROVE  /\ y.session = row[t].session /\ y.op = row[t].op
               /\ y.by = row[t].by /\ y.attempts = row[t].attempts
               /\ y = NoRow <=> row[t] = NoRow
    BY <1>1, BurntRow, NoRowStays
  <1>4. ASSUME NEW y \in {row[t], Burnt(row[t]), WithoutChallenge(row[t])}
        PROVE  /\ \/ y.challenge = row[t].challenge
                  \/ row[t].challenge = "open" /\ y.challenge = "used"
               /\ y.grant = row[t].grant \/ (row[t].grant = "live" /\ y.grant = "used")
    BY <1>1, <1>2, BurntRow
  <1> QED
    BY <1>1, <1>3, <1>4

\* A step-up is opened or granted by who proved it just now, in a live login, or granted from
\* its open challenge; a challenge that was used stays used.
LEMMA Reopened ==
    ASSUME Typed, Proven, [Next]_vars, NEW t \in Tokens
    PROVE  /\ \/ row'[t].challenge = "open" => row[t].challenge = "open"
              \/ \E r \in Requests : /\ req[r].at \in Holding /\ req[r].token = t
                                     /\ row[t] = NoRow /\ session[req[r].session] = "live"
           /\ \/ row'[t].grant = "live" => row[t].grant = "live" \/ row[t].challenge = "open"
              \/ \E r \in Requests : /\ req[r].at \in Holding /\ req[r].token = t
                                     /\ row[t] = NoRow /\ session[req[r].session] = "live"
           /\ row[t].challenge = "used" => row'[t].challenge = "used"
           /\ uses'[t] = uses[t] \/ row[t].grant = "live"
  <1>1. CASE UNCHANGED vars
    BY <1>1 DEF vars, tables, ghosts
  <1>2. ASSUME NEW r \in Requests, Moves(r)
        PROVE  UNCHANGED <<row, uses>>
    BY <1>2, MoveKinds DEF tables, ghosts
  <1>3. ASSUME NEW r \in Requests, Pays(r)
        PROVE  UNCHANGED <<row, uses>>
    BY <1>3, PaySteps
  <1>4. ASSUME NEW r \in Requests, CreateStepUpToken(r) \/ CreateStepUpChallenge(r)
        PROVE  /\ row'[t] = row[t] \/ /\ req[r].at \in Holding /\ req[r].token = t
                                      /\ row[t] = NoRow /\ session[req[r].session] = "live"
               /\ uses' = uses
    <2>1. /\ req[r].at \in Holding /\ row[req[r].token] = NoRow
          /\ session[req[r].session] = "live"
          /\ \A u \in Tokens \ {req[r].token} : row'[u] = row[u]
      BY <1>4, GrantSteps
    <2>2. uses' = uses
      BY <1>4 DEF CreateStepUpToken, CreateStepUpChallenge, ghosts
    <2> QED
      BY <2>1, <2>2
  <1>5. ASSUME NEW r \in Requests, FailStepUpChallenge(r)
        PROVE  /\ row'[t].challenge = row[t].challenge /\ row'[t].grant = row[t].grant
               /\ uses' = uses
    <2>1. /\ \A u \in Tokens \ {req[r].token} : row'[u] = row[u]
          /\ row'[req[r].token].challenge = row[req[r].token].challenge
          /\ row'[req[r].token].grant = row[req[r].token].grant
      BY <1>5, FailSteps
    <2>2. uses' = uses
      BY <1>5 DEF FailStepUpChallenge
    <2> QED
      BY <2>1, <2>2
  <1>6. ASSUME NEW r \in Requests, CompleteStepUpChallenge(r)
        PROVE  /\ row'[t] = row[t] \/ (row[t].challenge = "open" /\ row'[t].challenge = "used")
               /\ uses' = uses
    <2>1. /\ \A u \in Tokens \ {req[r].token} : row'[u] = row[u]
          /\ row[req[r].token].challenge = "open" /\ row'[req[r].token].challenge = "used"
      BY <1>6, CompleteSteps
    <2>2. uses' = uses
      BY <1>6 DEF CompleteStepUpChallenge, ghosts
    <2> QED
      BY <2>1, <2>2
  <1>7. ASSUME NEW r \in Requests, ConsumeStepUpToken(r)
        PROVE  /\ row'[t].challenge = row[t].challenge
               /\ row'[t].grant = "live" => row[t].grant = "live"
               /\ uses'[t] = uses[t] \/ row[t].grant = "live"
    <2>1. /\ \A u \in Tokens \ {req[r].token} : row'[u] = row[u]
          /\ row[req[r].token].grant = "live"
          /\ row'[req[r].token].challenge = row[req[r].token].challenge
      BY <1>7, ConsumeSteps
    <2>2. uses \in [Tokens -> [n : Nat, session : Sessions \cup {None},
                               op : AllOperations \cup {None}]]
      BY DEF Typed, Ghosts
    <2>3. \A u \in Tokens \ {req[r].token} : uses'[u] = uses[u]
      BY <1>7, <2>2 DEF ConsumeStepUpToken
    <2> QED
      BY <2>1, <2>3
  <1>8. ASSUME NEW u \in Tokens, RegisterNativeDevice(u)
        PROVE  UNCHANGED <<row, uses>>
    BY <1>8 DEF RegisterNativeDevice
  <1>9. CASE Aside
    BY <1>9, AsideTypes DEF ghosts
  <1>10. CASE Burn
    BY <1>10, BurnTypes, BurntRows DEF BurnsRows
  <1>11. NoRow.challenge = "none"
    BY EmptyRow
  <1> QED
    BY <1>1, <1>2, <1>3, <1>4, <1>5, <1>6, <1>7, <1>8, <1>9, <1>10, <1>11, StepKinds

\* Only a cancel adds to the cancelled, and only a reset or revocation to the voided.
LEMMA WhoEnds ==
    ASSUME Typed, Proven, [Next]_vars
    PROVE  /\ cancelled' = cancelled \/ \E s \in Sessions, t \in Tokens : CancelStepUp(s, t)
           /\ voided' = voided \/ RevokeUserAccess
  <1> USE DEF tables, account, ghosts
  <1>1. CASE UNCHANGED vars
    BY <1>1 DEF vars
  <1>2. ASSUME NEW r \in Requests, Moves(r)
        PROVE  UNCHANGED <<cancelled, voided>>
    BY <1>2, MoveKinds
  <1>3. ASSUME NEW r \in Requests, Pays(r)
        PROVE  UNCHANGED <<cancelled, voided>>
    BY <1>3, PaySteps
  <1>4. ASSUME NEW r \in Requests,
               \/ CreateStepUpToken(r) \/ CreateStepUpChallenge(r) \/ FailStepUpChallenge(r)
               \/ CompleteStepUpChallenge(r) \/ ConsumeStepUpToken(r)
        PROVE  UNCHANGED <<cancelled, voided>>
    BY <1>4 DEF CreateStepUpToken, CreateStepUpChallenge, FailStepUpChallenge,
       CompleteStepUpChallenge, ConsumeStepUpToken
  <1>5. ASSUME NEW u \in Tokens, RegisterNativeDevice(u)
        PROVE  UNCHANGED <<cancelled, voided>>
    BY <1>5 DEF RegisterNativeDevice
  <1>6. CASE Aside
    BY <1>6, AsideTypes
  <1>7. CASE Burn
    BY <1>7 DEF Burn, DeniedPush, RevokeOtherSessions, CancelStepUp, ExpireStepUp, RevokeSession,
       SessionExpires, ResetUserMFA, DisableUser, RevokeUserAccess
  <1> QED
    BY <1>1, <1>2, <1>3, <1>4, <1>5, <1>6, <1>7, StepKinds

LEMMA CancelledStep ==
    ASSUME Typed, Proven, Cancelled, [Next]_vars
    PROVE  Cancelled' /\ \A t \in cancelled : uses'[t] = uses[t]
  <1>1. cancelled \subseteq Tokens /\ NoRow.challenge = "none"
    BY EmptyRow DEF Typed, Ghosts
  <1>2. ASSUME NEW t \in cancelled
        PROVE  /\ row'[t].challenge = "used" /\ row'[t].grant # "live"
               /\ uses'[t] = uses[t]
    <2>1. t \in Tokens /\ row[t].challenge = "used" /\ row[t].grant # "live" /\ row[t] # NoRow
      BY <1>1 DEF Cancelled
    <2> QED
      BY <2>1, Reopened
  <1>3. ASSUME NEW s \in Sessions, NEW t \in Tokens, CancelStepUp(s, t)
        PROVE  /\ cancelled' = cancelled \cup {t}
               /\ row'[t].challenge = "used" /\ row'[t].grant # "live"
    <2>1. cancelled' = cancelled \cup {t} /\ row' = [row EXCEPT ![t] = Burnt(@)]
             /\ row[t].challenge # "none"
      BY <1>3 DEF CancelStepUp
    <2>2. row \in [Tokens -> Row]
      BY DEF Typed, Tables
    <2>3. Burnt(row[t]).challenge = "used" /\ Burnt(row[t]).grant # "live"
      BY <2>1, <2>2, BurntRow
    <2> QED
      BY <2>1, <2>2, <2>3
  <1> QED
    BY <1>2, <1>3, WhoEnds DEF Cancelled

\* Where a request that is proving a factor came from.
LEMMA HoldsBefore ==
    ASSUME Typed, Proven, [Next]_vars, NEW r \in Requests, req'[r].at \in Holding
    PROVE  /\ req'[r].token \in Tokens
           /\ \/ /\ req[r].at \in Holding /\ req'[r].token = req[r].token
                 /\ req'[r].session = req[r].session
              \/ /\ Unissued(req'[r].token) /\ voided' = voided
  <1> DEFINE Before == /\ req[r].at \in Holding /\ req'[r].token = req[r].token
                       /\ req'[r].session = req[r].session
  <1>1. CASE req'[r] = req[r]
    <2>1. req[r].at # "idle"
      BY <1>1 DEF Holding
    <2> QED
      BY <1>1, <2>1, UnderWay DEF Typed
  <1>2. ASSUME NEW p \in Requests, Moves(p), req'[r] # req[r]
        PROVE  Before \/ (Unissued(req'[r].token) /\ voided' = voided)
    <2>1. voided' = voided
      BY <1>2, MoveKinds DEF ghosts
    <2>2. PICK q \in Request :
             /\ \A s \in Requests : req'[s] = IF s = p THEN q ELSE req[s]
             /\ \/ q = Idle
                \/ q.token = req[p].token /\ (q.at \in Holding <=> req[p].at \in Holding)
                     /\ q.session = req[p].session
                \/ Unissued(q.token)
                \/ q.at = "called"
                \/ q.at = "read"
      BY <1>2, MoveKinds
    <2>3. p = r /\ req'[r] = q
      BY <1>2, <2>2
    <2>4. q # Idle /\ q.at \notin {"called", "read"}
      BY <2>3, IdleRequest DEF Holding
    <2> QED
      BY <2>1, <2>2, <2>3, <2>4
  <1>3. ASSUME NEW p \in Requests, Pays(p) PROVE req'[r] = req[r]
    BY <1>3, PaySteps, IdleRequest DEF Holding
  <1>4. ASSUME NEW p \in Requests, ConsumeStepUpToken(p) PROVE req'[r] = req[r]
    BY <1>4, ConsumeMoves DEF Holding
  <1>5. ASSUME NEW p \in Requests, Stays \/ Ends(p) PROVE req'[r] = req[r]
    BY <1>5, Leaves, IdleRequest DEF Holding, Typed
  <1>6. ASSUME NEW p \in Requests,
               \/ CreateStepUpToken(p) \/ CreateStepUpChallenge(p) \/ FailStepUpChallenge(p)
               \/ CompleteStepUpChallenge(p)
        PROVE  req'[r] = req[r]
    <2>1. Ends(p)
      BY <1>6 DEF CreateStepUpToken, CreateStepUpChallenge, FailStepUpChallenge,
         CompleteStepUpChallenge
    <2> QED
      BY <1>5, <2>1
  <1>7. ASSUME NEW t \in Tokens, RegisterNativeDevice(t) PROVE req'[r] = req[r]
    BY <1>5, <1>7, DeviceTypes
  <1>8. CASE Aside
    BY <1>1, <1>5, <1>8, AsideTypes
  <1>9. CASE Burn
    BY <1>1, <1>5, <1>9, BurnTypes
  <1>10. CASE UNCHANGED vars
    BY <1>1, <1>10 DEF vars
  <1>11. req'[r] = req[r] \/ Before \/ (Unissued(req'[r].token) /\ voided' = voided)
    BY <1>2, <1>3, <1>4, <1>6, <1>7, <1>8, <1>9, <1>10, StepKinds
  <1>12. req'[r].token \in Tokens
    <2>1. Inbox' /\ req'[r].at # "idle"
      BY TypedStep DEF Typed, Holding
    <2> QED
      BY <2>1 DEF Inbox, Carrying, Request
  <1> QED
    BY <1>1, <1>11, <1>12

LEMMA VoidedStep ==
    ASSUME Typed, Proven, Voided, [Next]_vars
    PROVE  Voided' /\ \A t \in voided : uses'[t] = uses[t]
  <1>1. voided \subseteq Tokens /\ row \in [Tokens -> Row]
           /\ session \in [Sessions -> {"new", "live", "ended"}]
    BY DEF Typed, Ghosts, Tables
  <1>2. ASSUME NEW s \in Sessions, session[s] = "ended" PROVE session'[s] = "ended"
    <2>1. CASE UNCHANGED session
      BY <1>2, <2>1
    <2>2. CASE Aside
      BY <1>2, <2>2, AsideTypes
    <2>3. CASE Burn
      BY <1>2, <2>3, BurnTypes DEF BurnsRows
    <2>4. ASSUME NEW r \in Requests,
                 \/ CreateStepUpToken(r) \/ CreateStepUpChallenge(r) \/ FailStepUpChallenge(r)
                 \/ CompleteStepUpChallenge(r) \/ ConsumeStepUpToken(r)
          PROVE  UNCHANGED session
      BY <2>4 DEF CreateStepUpToken, CreateStepUpChallenge, FailStepUpChallenge,
         CompleteStepUpChallenge, ConsumeStepUpToken
    <2>5. ASSUME NEW r \in Requests, Moves(r) \/ Pays(r) PROVE UNCHANGED session
      BY <2>5, MoveKinds, PaySteps
    <2>6. ASSUME NEW t \in Tokens, RegisterNativeDevice(t) PROVE UNCHANGED session
      BY <2>6, DeviceTypes
    <2>7. UNCHANGED vars => UNCHANGED session
      BY DEF vars
    <2> QED
      BY <2>1, <2>2, <2>3, <2>4, <2>5, <2>6, <2>7, StepKinds
  <1>3. ASSUME NEW t \in voided
        PROVE  /\ row'[t].challenge # "open" /\ row'[t].grant # "live"
               /\ uses'[t] = uses[t]
    <2>1. t \in Tokens /\ row[t].challenge # "open" /\ row[t].grant # "live"
      BY <1>1 DEF Voided
    <2>2. ~\E r \in Requests : req[r].at \in Holding /\ req[r].token = t
                                 /\ session[req[r].session] = "live"
      BY DEF Voided
    <2> QED
      BY <2>1, <2>2, Reopened
  <1>4. CASE voided' = voided
    <2>1. ASSUME NEW r \in Requests, req'[r].at \in Holding, req'[r].token \in voided
          PROVE  session'[req'[r].session] = "ended"
      <3>1. ~Unissued(req'[r].token)
        BY <2>1 DEF Unissued
      <3>2. /\ req[r].at \in Holding /\ req'[r].token = req[r].token
            /\ req'[r].session = req[r].session
        BY <2>1, <3>1, HoldsBefore
      <3>3. req[r].session \in Sessions
        BY <3>2, UnderWay DEF Typed, Holding
      <3> QED
        BY <1>2, <2>1, <3>2, <3>3 DEF Voided
    <2> QED
      BY <1>3, <1>4, <2>1 DEF Voided
  <1>5. CASE RevokeUserAccess
    <2>1. EndSessions(Sessions) /\ voided' \subseteq Tokens /\ req' = req
      BY <1>5 DEF RevokeUserAccess
    <2>2. ASSUME NEW t \in Tokens
          PROVE  row'[t].challenge # "open" /\ row'[t].grant # "live"
      <3>1. row'[t] = IF row[t].session \in Sessions THEN Burnt(row[t]) ELSE row[t]
        BY <2>1, EndedLogins
      <3>2. row[t] \in Row /\ Sound(t)
        BY <1>1 DEF Proven
      <3>3. CASE row[t].session \in Sessions
        BY <3>1, <3>2, <3>3, BurntRow
      <3>4. CASE row[t].session \notin Sessions
        BY <3>1, <3>2, <3>4 DEF Sound, Row
      <3> QED
        BY <3>3, <3>4
    <2>3. ASSUME NEW r \in Requests, req[r].at \in Holding
          PROVE  session'[req[r].session] = "ended"
      <3>1. req[r].session \in Sessions /\ session[req[r].session] # "new"
        BY <2>3, UnderWay DEF Proven, Fits, Typed, Holding
      <3> QED
        BY <1>1, <2>1, <3>1, EndedLogins
    <2> QED
      BY <1>3, <2>1, <2>2, <2>3 DEF Voided
  <1> QED
    BY <1>4, <1>5, WhoEnds

\* No request starts to read.
LessReading ==
    \A p \in Requests :
       req'[p].at \in Reading => req[p].at \in Reading /\ req'[p].token = req[p].token

LEMMA ReaderCount ==
    ASSUME NEW S, NEW T, S \subseteq T, T \subseteq Requests
    PROVE  /\ IsFiniteSet(S) /\ IsFiniteSet(T)
           /\ Cardinality(S) \in Nat /\ Cardinality(T) \in Nat /\ Cardinality(S) <= Cardinality(T)
  <1>1. IsFiniteSet(T)
    BY RequestsAreFinite, FS_Subset
  <1>2. IsFiniteSet(S) /\ Cardinality(S) <= Cardinality(T)
    BY <1>1, FS_Subset
  <1> QED
    BY <1>1, <1>2, FS_CardinalityType

LEMMA AllReaders == \A u \in Tokens : Readers(u) \subseteq Requests /\ Readers(u)' \subseteq Requests
  BY DEF Readers

LEMMA FewerReaders ==
    ASSUME LessReading
    PROVE  \A u \in Tokens : Readers(u)' \subseteq Readers(u)
  BY DEF LessReading, Readers

\* The count of a challenge goes on being right when no request starts to read, no challenge
\* opens and nothing is counted.
LEMMA CountedOn ==
    ASSUME Typed, Counted, LessReading, UNCHANGED guesses,
           \A u \in Tokens :
              /\ row[u].challenge # "none" => row'[u].challenge # "none"
              /\ row'[u] = NoRow => row[u] = NoRow
              /\ row'[u].challenge = "open" =>
                    \/ row[u].challenge = "open" /\ row'[u].attempts = row[u].attempts
                    \/ row[u] = NoRow /\ row'[u].attempts = 0
    PROVE  Counted'
  <1>1. ASSUME NEW p \in Requests, req'[p].at \in Reading
        PROVE  row'[req'[p].token].challenge # "none"
    <2>1. req[p].at \in Reading /\ req'[p].token = req[p].token
      BY <1>1 DEF LessReading
    <2>2. req[p].token \in Tokens /\ row[req[p].token].challenge # "none"
      BY <2>1, UnderWay DEF Counted, Typed, Reading
    <2> QED
      BY <2>1, <2>2
  <1>2. ASSUME NEW u \in Tokens
        PROVE  /\ row'[u] = NoRow => guesses'[u] = 0
               /\ row'[u].challenge = "open" => guesses'[u] = row'[u].attempts
    BY <1>2 DEF Counted
  <1>3. ASSUME NEW u \in Tokens
        PROVE  guesses'[u] + Cardinality(Readers(u)') < MaxAttempts + Cardinality(Requests)
    <2>1. /\ Cardinality(Readers(u)') \in Nat /\ Cardinality(Readers(u)) \in Nat
          /\ Cardinality(Readers(u)') <= Cardinality(Readers(u))
      BY ReaderCount, AllReaders, FewerReaders
    <2>2. Cardinality(Requests) \in Nat
      BY RequestsAreFinite, FS_CardinalityType
    <2>3. guesses[u] \in Nat /\ guesses'[u] = guesses[u]
      BY DEF Typed, Ghosts
    <2>4. guesses[u] + Cardinality(Readers(u)) < MaxAttempts + Cardinality(Requests)
      BY DEF Counted
    <2> QED
      BY <2>1, <2>2, <2>3, <2>4, BoundsAreNatural
  <1> QED
    BY <1>1, <1>2, <1>3 DEF Counted

\* A challenge is read while it is open and attempts are left.
LEMMA CountedMoves ==
    ASSUME Typed, Proven, Counted, NEW r \in Requests, Moves(r)
    PROVE  Counted'
  <1>1. UNCHANGED <<row, guesses>>
    BY MoveKinds DEF tables, ghosts
  <1>2. PICK q \in Request :
           /\ Carrying(q) /\ \A p \in Requests : req'[p] = IF p = r THEN q ELSE req[p]
           /\ \/ q = Idle
              \/ q.token = req[r].token /\ (q.at \in Reading <=> req[r].at \in Reading)
              \/ q.at \in Holding
              \/ q.at = "called"
              \/ /\ q.at = "read" /\ row[q.token].challenge = "open"
                 /\ row[q.token].attempts < MaxAttempts
    BY MoveKinds
  <1>3. CASE q.at \notin Reading \/ (q.token = req[r].token /\ req[r].at \in Reading)
    <2>1. LessReading
      BY <1>2, <1>3 DEF LessReading
    <2> QED
      BY <1>1, <2>1, CountedOn
  <1>4. CASE /\ q.at = "read" /\ row[q.token].challenge = "open"
             /\ row[q.token].attempts < MaxAttempts
    <2>1. PICK t : t = q.token
      OBVIOUS
    <2>2. t \in Tokens
      BY <1>2, <1>4, <2>1 DEF Carrying, Request
    <2>3. ASSUME NEW u \in Tokens
          PROVE  guesses[u] + Cardinality(Readers(u)') < MaxAttempts + Cardinality(Requests)
      <3>1. guesses[u] \in Nat /\ MaxAttempts \in Nat /\ Cardinality(Requests) \in Nat
        BY RequestsAreFinite, FS_CardinalityType, BoundsAreNatural DEF Typed, Ghosts
      <3>2. CASE u = t
        <4>1. guesses[u] < MaxAttempts
          <5>1. guesses[u] = row[u].attempts
            BY <1>4, <2>1, <3>2 DEF Counted
          <5> QED
            BY <1>4, <2>1, <3>2, <5>1
        <4>2. Cardinality(Readers(u)') \in Nat /\ Cardinality(Readers(u)') <= Cardinality(Requests)
          BY ReaderCount, AllReaders
        <4> QED
          BY <3>1, <4>1, <4>2
      <3>3. CASE u # t
        <4>1. Readers(u)' \subseteq Readers(u)
          BY <1>2, <2>1, <3>3 DEF Readers
        <4>2. /\ Cardinality(Readers(u)') \in Nat /\ Cardinality(Readers(u)) \in Nat
              /\ Cardinality(Readers(u)') <= Cardinality(Readers(u))
          BY <4>1, ReaderCount, AllReaders
        <4>3. guesses[u] + Cardinality(Readers(u)) < MaxAttempts + Cardinality(Requests)
          BY DEF Counted
        <4> QED
          BY <3>1, <4>2, <4>3
      <3> QED
        BY <3>2, <3>3
    <2>4. ASSUME NEW p \in Requests, req'[p].at \in Reading
          PROVE  row[req'[p].token].challenge # "none"
      BY <1>2, <1>4, <2>4 DEF Counted
    <2> QED
      BY <1>1, <2>3, <2>4 DEF Counted
  <1>5. q.at = "called" \/ q.at \in Holding \/ q = Idle => q.at \notin Reading
    BY IdleRequest DEF Holding, Reading
  <1> QED
    BY <1>2, <1>3, <1>4, <1>5

\* The answer to a wrong assertion counts it, and one request fewer has read the challenge.
LEMMA CountedFails ==
    ASSUME Typed, Proven, Counted, NEW r \in Requests, FailStepUpChallenge(r)
    PROVE  Counted'
  <1>1. PICK q, t : q = req[r] /\ t = q.token
    OBVIOUS
  <1>2. /\ q.at = "missed" /\ t \in Tokens /\ Ends(r)
        /\ \A u \in Tokens \ {t} : row'[u] = row[u]
        /\ row'[t].challenge = row[t].challenge
        /\ row[t].challenge = "open" => row'[t].attempts = row[t].attempts + 1
    BY <1>1, FailSteps
  <1>3. guesses' = [guesses EXCEPT ![t] = @ + 1] /\ guesses \in [Tokens -> Nat]
    BY <1>1 DEF FailStepUpChallenge, Typed, Ghosts
  <1>4. /\ \A u \in Tokens \ {t} : guesses'[u] = guesses[u]
        /\ guesses'[t] = guesses[t] + 1
    BY <1>2, <1>3
  <1>5. row[t].challenge # "none" /\ row'[t] # NoRow
    BY <1>1, <1>2, EmptyRow DEF Counted, Reading
  <1>6. \A p \in Requests : req'[p] = req[p] \/ (p = r /\ req'[p] = Idle)
    BY <1>2, Leaves DEF Typed
  <1>7. req'[r] = Idle
    BY <1>2 DEF Ends, Goes, Typed, Inbox
  <1>8. LessReading
    BY <1>6, IdleRequest DEF LessReading, Reading
  <1>9. ASSUME NEW p \in Requests, req'[p].at \in Reading
        PROVE  row'[req'[p].token].challenge # "none"
    <2>1. req[p].at \in Reading /\ req'[p].token = req[p].token
      BY <1>8, <1>9 DEF LessReading
    <2>2. req[p].token \in Tokens /\ row[req[p].token].challenge # "none"
      BY <2>1, UnderWay DEF Counted, Typed, Reading
    <2> QED
      BY <1>2, <2>1, <2>2
  <1>10. ASSUME NEW u \in Tokens
         PROVE  /\ row'[u] = NoRow => guesses'[u] = 0
                /\ row'[u].challenge = "open" => guesses'[u] = row'[u].attempts
    BY <1>2, <1>4, <1>5 DEF Counted
  <1>11. ASSUME NEW u \in Tokens
         PROVE  guesses'[u] + Cardinality(Readers(u)') < MaxAttempts + Cardinality(Requests)
    <2>1. guesses[u] \in Nat /\ MaxAttempts \in Nat /\ Cardinality(Requests) \in Nat
      BY RequestsAreFinite, FS_CardinalityType, BoundsAreNatural DEF Typed, Ghosts
    <2>2. guesses[u] + Cardinality(Readers(u)) < MaxAttempts + Cardinality(Requests)
      BY DEF Counted
    <2>3. CASE u # t
      <3>1. /\ Cardinality(Readers(u)') \in Nat /\ Cardinality(Readers(u)) \in Nat
            /\ Cardinality(Readers(u)') <= Cardinality(Readers(u))
        BY <1>8, FewerReaders, ReaderCount, AllReaders
      <3> QED
        BY <1>4, <2>1, <2>2, <2>3, <3>1
    <2>4. CASE u = t
      <3>1. r \in Readers(u)
        BY <1>1, <1>2, <2>4 DEF Readers, Reading
      <3>2. Readers(u)' \subseteq Readers(u) \ {r}
        BY <1>7, <1>8, FewerReaders, IdleRequest DEF Readers, Reading
      <3>3. IsFiniteSet(Readers(u)) /\ Cardinality(Readers(u)) \in Nat
        BY ReaderCount, AllReaders
      <3>4. Cardinality(Readers(u) \ {r}) = Cardinality(Readers(u)) - 1
        BY <3>1, <3>3, FS_RemoveElement
      <3>5. /\ Cardinality(Readers(u)') \in Nat
            /\ Cardinality(Readers(u)') <= Cardinality(Readers(u) \ {r})
        <4>1. Readers(u) \ {r} \subseteq Requests
          BY DEF Readers
        <4> QED
          BY <3>2, <4>1, ReaderCount
      <3> QED
        BY <1>4, <2>1, <2>2, <2>4, <3>3, <3>4, <3>5
    <2> QED
      BY <2>3, <2>4
  <1> QED
    BY <1>9, <1>10, <1>11 DEF Counted

LEMMA CountedStep ==
    ASSUME Typed, Proven, Counted, [Next]_vars
    PROVE  Counted'
  <1> DEFINE Kept(u) == /\ row'[u].challenge = row[u].challenge
                        /\ row'[u].attempts = row[u].attempts
                        /\ row'[u] = NoRow => row[u] = NoRow
  <1>1. ASSUME LessReading, UNCHANGED guesses, \A u \in Tokens : Kept(u)
        PROVE  Counted'
    BY <1>1, CountedOn
  <1>2. ASSUME NEW p \in Requests, Stays \/ Ends(p)
        PROVE  LessReading
    BY <1>2, Leaves, IdleRequest DEF LessReading, Reading, Typed
  <1>3. CASE UNCHANGED vars
    BY <1>1, <1>3 DEF vars, tables, ghosts, LessReading
  <1>4. ASSUME NEW r \in Requests, Pays(r) PROVE Counted'
    <2>1. LessReading /\ UNCHANGED <<row, guesses>>
      BY <1>4, PaySteps, IdleRequest DEF LessReading, Reading
    <2> QED
      BY <1>1, <2>1
  <1>5. ASSUME NEW r \in Requests, CreateStepUpToken(r) \/ CreateStepUpChallenge(r) PROVE Counted'
    <2>1. PICK q, t : q = req[r] /\ t = q.token
      OBVIOUS
    <2>2. /\ row[t] = NoRow /\ Ends(r) /\ row'[t].attempts = 0 /\ row'[t] # NoRow
          /\ \A u \in Tokens \ {t} : row'[u] = row[u]
      BY <1>5, <2>1, GrantSteps
    <2>3. UNCHANGED guesses
      BY <1>5 DEF CreateStepUpToken, CreateStepUpChallenge, ghosts
    <2>4. row[t].challenge = "none"
      BY <2>2, EmptyRow
    <2> QED
      BY <1>2, <2>2, <2>3, <2>4, CountedOn
  <1>6. ASSUME NEW r \in Requests, CompleteStepUpChallenge(r) PROVE Counted'
    <2>1. PICK q, t : q = req[r] /\ t = q.token
      OBVIOUS
    <2>2. /\ row'[t].challenge = "used" /\ Ends(r) /\ row'[t] # NoRow
          /\ \A u \in Tokens \ {t} : row'[u] = row[u]
      BY <1>6, <2>1, CompleteSteps
    <2>3. UNCHANGED guesses
      BY <1>6 DEF CompleteStepUpChallenge, ghosts
    <2> QED
      BY <1>2, <2>2, <2>3, CountedOn
  <1>7. ASSUME NEW r \in Requests, ConsumeStepUpToken(r) PROVE Counted'
    <2>1. PICK q, t : q = req[r] /\ t = q.token
      OBVIOUS
    <2>2. /\ \A u \in Tokens \ {t} : row'[u] = row[u]
          /\ row'[t].challenge = row[t].challenge /\ row'[t].attempts = row[t].attempts
          /\ row'[t].grant = "used"
      BY <1>7, <2>1, ConsumeSteps
    <2>3. UNCHANGED guesses /\ LessReading
      BY <1>7, ConsumeMoves DEF ConsumeStepUpToken, LessReading, Reading
    <2>4. row'[t] # NoRow
      BY <2>2, EmptyRow
    <2> QED
      BY <1>1, <2>2, <2>3, <2>4
  <1>8. ASSUME NEW t \in Tokens, RegisterNativeDevice(t) PROVE Counted'
    <2>1. LessReading /\ UNCHANGED <<row, guesses>>
      BY <1>8, DeviceTypes DEF LessReading, Stays
    <2> QED
      BY <1>1, <2>1
  <1>9. CASE Aside
    <2>1. LessReading /\ UNCHANGED <<row, guesses>>
      BY <1>9, AsideTypes DEF LessReading, Stays, ghosts
    <2> QED
      BY <1>1, <2>1
  <1>10. CASE Burn
    <2>1. UNCHANGED guesses /\ (Stays \/ \E r \in Requests : Ends(r)) /\ BurnsRows
      BY <1>10, BurnTypes DEF BurnsRows
    <2>2. LessReading
      BY <1>2, <2>1 DEF LessReading, Stays
    <2>3. \A u \in Tokens :
             /\ row'[u].attempts = row[u].attempts
             /\ row'[u] = NoRow => row[u] = NoRow
             /\ \/ row'[u].challenge = row[u].challenge
                \/ row[u].challenge = "open" /\ row'[u].challenge = "used"
      BY <2>1, BurntRows
    <2> QED
      BY <2>1, <2>2, <2>3, CountedOn
  <1> QED
    BY <1>3, <1>4, <1>5, <1>6, <1>7, <1>8, <1>9, <1>10, StepKinds, CountedMoves, CountedFails

\* A pairing is opened, and registered, by a step-up no recovery code was proved for.
LEMMA RecoveryPairs ==
    ASSUME Typed, Proven, [Next]_vars, NEW t \in Tokens, row[t].by = "recovery"
    PROVE  pairing'[t] = pairing[t]
  <1> USE DEF tables, account, ghosts
  <1>1. row[t].op \in Enrolments /\ pairing[t] # "live" /\ row[t].op # "device/pair"
    BY DEF Proven, Sound, Enrolments
  <1>2. pairing \in [Tokens -> {"none", "live", "used"}]
    BY DEF Typed, Tables
  <1>3. ASSUME NEW r \in Requests, Pays(r)
        PROVE  pairing'[t] = pairing[t]
    <2>1. PICK u : u = req[r].token
      OBVIOUS
    <2>2. \/ UNCHANGED pairing
          \/ req[r].at = "authorised" /\ req[r].op = "device/pair"
               /\ pairing' = [pairing EXCEPT ![u] = "live"]
      BY <1>3, <2>1, PaySteps
    <2>3. req[r].at = "authorised" => row[u].op = req[r].op
      BY <2>1 DEF Proven, Fits
    <2> QED
      BY <1>1, <1>2, <2>2, <2>3
  <1>4. ASSUME NEW r \in Requests, Moves(r) PROVE UNCHANGED pairing
    BY <1>4, MoveKinds
  <1>5. ASSUME NEW r \in Requests,
               \/ CreateStepUpToken(r) \/ CreateStepUpChallenge(r) \/ FailStepUpChallenge(r)
               \/ CompleteStepUpChallenge(r) \/ ConsumeStepUpToken(r)
        PROVE  UNCHANGED pairing
    BY <1>5 DEF CreateStepUpToken, CreateStepUpChallenge, FailStepUpChallenge,
       CompleteStepUpChallenge, ConsumeStepUpToken
  <1>6. ASSUME NEW u \in Tokens, RegisterNativeDevice(u) PROVE pairing'[t] = pairing[t]
    <2>1. pairing' = [pairing EXCEPT ![u] = "used"] /\ pairing[u] = "live"
      BY <1>6, DeviceTypes
    <2> QED
      BY <1>1, <1>2, <2>1
  <1>7. CASE Aside
    BY <1>7, AsideTypes
  <1>8. CASE Burn
    BY <1>1, <1>8, BurnTypes DEF BurnsRows
  <1>9. CASE UNCHANGED vars
    BY <1>9 DEF vars
  <1> QED
    BY <1>3, <1>4, <1>5, <1>6, <1>7, <1>8, <1>9, StepKinds

\* What a request does that a recovery code let through.
LEMMA RecoveryStep ==
    ASSUME Typed, Proven, [Next]_vars, NEW r \in Requests,
           req[r].by = "recovery", req[r].at \in Paying, req'[r] # req[r]
    PROVE  /\ req[r].op \in Enrolments /\ factors \subseteq factors' /\ pairing' = pairing
           /\ codes' # codes => changed[req[r].token] = 1
  <1> USE DEF tables, account, ghosts
  <1>1. /\ req[r].op \in Enrolments /\ req[r].op # "device/pair"
        /\ req[r].at = "enabled" => changed[req[r].token] = 1
    BY DEF Proven, Fits, Enrolments
  <1>2. req \in [Requests -> Request]
    BY DEF Typed, Inbox
  <1>3. ASSUME NEW p \in Requests, Pays(p)
        PROVE  /\ factors \subseteq factors' /\ pairing' = pairing
               /\ codes' # codes => changed[req[r].token] = 1
    <2>1. p = r
      BY <1>3, PaySteps
    <2>2. ~DeletePasskey(r) /\ ~GenerateDevicePairingToken(r)
      BY <1>1 DEF DeletePasskey, GenerateDevicePairingToken, Carries, Enrolments
    <2>3. CASE SaveUserTOTP(r) \/ FinishRegistration(r)
      BY <2>3 DEF SaveUserTOTP, FinishRegistration
    <2>4. CASE GenerateRecoveryCodes(r)
      <3>1. req[r].at = "enabled" /\ UNCHANGED <<factors, pairing>>
        BY <1>1, <2>4 DEF GenerateRecoveryCodes, Carries, Enrolments
      <3> QED
        BY <1>1, <3>1
    <2> QED
      BY <1>3, <2>1, <2>2, <2>3, <2>4 DEF Pays
  <1>4. ASSUME NEW p \in Requests, Moves(p) PROVE p = r /\ UNCHANGED <<account, pairing>>
    <2>1. p = r
      BY <1>4, MoveKinds
    <2> QED
      BY <1>4, <2>1 DEF Moves, AskStepUp, CallOperation, ReadStepUpChallenge, ProveTOTP,
         ProveRecoveryCode, ApprovedPush, VerifyStepUpAssertion, Abandon, Paying
  <1>5. ASSUME NEW p \in Requests,
               \/ CreateStepUpToken(p) \/ CreateStepUpChallenge(p) \/ FailStepUpChallenge(p)
               \/ CompleteStepUpChallenge(p) \/ ConsumeStepUpToken(p)
        PROVE  UNCHANGED <<account, pairing>>
    BY <1>5 DEF CreateStepUpToken, CreateStepUpChallenge, FailStepUpChallenge,
       CompleteStepUpChallenge, ConsumeStepUpToken
  <1>6. ASSUME NEW u \in Tokens, RegisterNativeDevice(u) PROVE FALSE
    BY <1>6 DEF RegisterNativeDevice
  <1>7. CASE Aside
    <2>1. Stays
      BY <1>7, AsideTypes
    <2> QED
      BY <2>1 DEF Stays
  <1>8. CASE Burn
    <2>1. ASSUME NEW p \in Requests, DeniedPush(p) \/ RevokeOtherSessions(p)
          PROVE  UNCHANGED <<account, pairing>>
      BY <2>1 DEF DeniedPush, RevokeOtherSessions
    <2>2. ASSUME \/ \E s \in Sessions, t \in Tokens : CancelStepUp(s, t)
                 \/ \E t \in Tokens : ExpireStepUp(t)
                 \/ \E s \in Sessions : RevokeSession(s) \/ SessionExpires(s)
          PROVE  req' = req
      BY <2>2 DEF CancelStepUp, ExpireStepUp, RevokeSession, SessionExpires
    <2>3. ASSUME ResetUserMFA \/ DisableUser PROVE req' = req
      BY <2>3 DEF ResetUserMFA, DisableUser, RevokeUserAccess
    <2> QED
      BY <1>1, <1>8, <2>1, <2>2, <2>3 DEF Burn
  <1>9. CASE UNCHANGED vars
    BY <1>9 DEF vars
  <1> QED
    BY <1>1, <1>3, <1>4, <1>5, <1>6, <1>7, <1>8, <1>9, StepKinds

LEMMA LimitsAtFirst == Init => Cancelled /\ Voided /\ Counted
  <1> SUFFICES ASSUME Init PROVE Cancelled /\ Voided /\ Counted
    OBVIOUS
  <1>1. cancelled = {} /\ voided = {} /\ req = [r \in Requests |-> Idle]
    BY DEF Init
  <1>2. row = [t \in Tokens |-> NoRow] /\ guesses = [t \in Tokens |-> 0]
    BY DEF Init
  <1>3. \A r \in Requests : req[r].at \notin Reading
    BY <1>1, IdleRequest DEF Reading
  <1>4. ASSUME NEW t \in Tokens
        PROVE  guesses[t] + Cardinality(Readers(t)) < MaxAttempts + Cardinality(Requests)
    <2>1. Readers(t) = {}
      BY <1>3 DEF Readers
    <2>2. Cardinality(Readers(t)) = 0 /\ Cardinality(Requests) \in Nat
      BY <2>1, RequestsAreFinite, FS_EmptySet, FS_CardinalityType
    <2> QED
      BY <1>2, <2>2, BoundsAreNatural
  <1> QED
    BY <1>1, <1>2, <1>3, <1>4, EmptyRow DEF Cancelled, Voided, Counted

LEMMA LimitsAlways == Spec => [](Typed /\ Proven /\ Cancelled /\ Voided /\ Counted)
  <1> DEFINE Inv == Typed /\ Proven /\ Cancelled /\ Voided /\ Counted
  <1>1. Inv /\ [Next]_vars => Inv'
    BY TypedStep, ProvenStep, CancelledStep, VoidedStep, CountedStep
  <1>2. Init => Inv
    BY AtFirst, LimitsAtFirst
  <1> QED
    BY <1>1, <1>2, PTL DEF Spec

\* However many requests answer it, a challenge funds fewer wrong assertions than its attempts
\* and one for every other request; a cancelled step-up and one proved before a reset or a
\* revocation let nothing through; and a recovery code only enrols a factor, after which its
\* enrolment may renew the codes
\* (GetStepUpChallenge, FailStepUpChallenge, CancelStepUp, revokeUserAccessTx, stepUpMethods).
THEOREM ProofsKeepTheirLimitsAlways == Spec => ProofsKeepTheirLimits
  <1> DEFINE Inv == Typed /\ Proven /\ Cancelled /\ Voided /\ Counted
  <1>1. Inv => GuessBudget
    <2>1. ASSUME Inv, NEW t \in Tokens
          PROVE  guesses[t] < MaxAttempts + Cardinality(Requests)
      <3>1. Cardinality(Readers(t)) \in Nat /\ Cardinality(Requests) \in Nat
        BY ReaderCount, AllReaders, RequestsAreFinite, FS_CardinalityType
      <3>2. guesses[t] \in Nat
        BY <2>1 DEF Typed, Ghosts
      <3>3. guesses[t] + Cardinality(Readers(t)) < MaxAttempts + Cardinality(Requests)
        BY <2>1 DEF Counted
      <3> QED
        BY <3>1, <3>2, <3>3, BoundsAreNatural
    <2> QED
      BY <2>1 DEF GuessBudget
  <1>2. Inv /\ [Next]_vars => [\A t \in cancelled : uses'[t].n = uses[t].n]_vars
    BY CancelledStep
  <1>3. Inv /\ [Next]_vars => [\A t \in voided : uses'[t].n = uses[t].n]_vars
    BY VoidedStep
  <1>4. Inv /\ [Next]_vars =>
          [/\ \A r \in Requests :
                /\ req[r].by = "recovery" /\ req[r].at \in {"authorised", "enabled", "coded"}
                /\ req'[r] # req[r]
                => /\ req[r].op \in Enrolments
                   /\ factors \subseteq factors' /\ pairing' = pairing
                   /\ codes' # codes => changed[req[r].token] = 1
           /\ \A t \in Tokens : row[t].by = "recovery" => pairing'[t] = pairing[t]]_vars
    BY RecoveryStep, RecoveryPairs DEF Paying
  <1>5. Spec => []GuessBudget
    BY <1>1, LimitsAlways, PTL
  <1>6. Spec => CancelledLetsNothingThrough
    BY <1>2, LimitsAlways, PTL DEF Spec, CancelledLetsNothingThrough
  <1>7. Spec => RevocationVoidsProofs
    BY <1>3, LimitsAlways, PTL DEF Spec, RevocationVoidsProofs
  <1>8. Spec => RecoveryOnlyEnrols
    BY <1>4, LimitsAlways, PTL DEF Spec, RecoveryOnlyEnrols
  <1> QED
    BY <1>5, <1>6, <1>7, <1>8 DEF ProofsKeepTheirLimits

-----------------------------------------------------------------------------
(* The refinement of OneTimeProof                                          *)

StageOf(c, n, x) ==
    IF n > 1 \/ c > 1 THEN "twice"
    ELSE IF c = 1 THEN "done"
    ELSE IF n = 1 THEN "authorised"
    ELSE IF x.grant = "live" THEN "granted"
    ELSE IF x.challenge = "open" THEN "asked"
    ELSE IF x = NoRow THEN "unused" ELSE "dead"

Purpose(t) == <<row[t].session, row[t].op>>
Act(t) == <<uses[t].session, uses[t].op>>

LEMMA StageNow ==
    \A t : /\ Stage(t) = StageOf(changed[t], uses[t].n, row[t])
           /\ Stage(t)' = StageOf(changed'[t], uses'[t].n, row'[t])
  BY DEF Stage, StageOf

LEMMA StageValues ==
    ASSUME NEW c \in {0, 1}, NEW n \in {0, 1}, NEW x
    PROVE  /\ c = 1 => StageOf(c, n, x) = "done"
           /\ c = 0 /\ n = 1 => StageOf(c, n, x) = "authorised"
           /\ c = 0 /\ n = 0 /\ x.grant = "live" => StageOf(c, n, x) = "granted"
           /\ c = 0 /\ n = 0 /\ x.grant # "live" /\ x.challenge = "open" =>
                 StageOf(c, n, x) = "asked"
           /\ c = 0 /\ n = 0 /\ x.grant # "live" /\ x.challenge # "open" =>
                 StageOf(c, n, x) = IF x = NoRow THEN "unused" ELSE "dead"
  BY DEF StageOf

\* What the steps of the promise say of the handlers' state.
LEMMA Stutters ==
    ASSUME \A t \in Tokens : /\ Stage(t)' = Stage(t) /\ Purpose(t)' = Purpose(t)
                             /\ Act(t)' = Act(t)
    PROVE  UNCHANGED Contract!vars
  BY DEF Contract!vars, Purpose, Act

LEMMA MovesOne ==
    ASSUME NEW t \in Tokens, NEW from, NEW to, Stage(t) \in from, Stage(t)' = to,
           \A u \in Tokens \ {t} : Stage(u)' = Stage(u)
    PROVE  Contract!Move(t, from, to)
  BY DEF Contract!Move

\* The stage of a step-up, before and after a step.
LEMMA Staged ==
    ASSUME Typed, Proven, NEW t \in Tokens
    PROVE  /\ changed[t] \in {0, 1} /\ uses[t].n \in {0, 1}
           /\ changed[t] = 1 => Stage(t) = "done"
           /\ changed[t] = 0 /\ uses[t].n = 1 => Stage(t) = "authorised"
           /\ row[t].grant = "live" => Stage(t) = "granted"
           /\ row[t].challenge = "open" => Stage(t) = "asked"
           /\ row[t] = NoRow => Stage(t) = "unused"
  <1>1. changed[t] \in {0, 1} /\ uses[t].n \in {0, 1} /\ Sound(t)
    BY DEF Proven, Sound
  <1>2. Stage(t) = StageOf(changed[t], uses[t].n, row[t])
    BY StageNow
  <1>3. NoRow.grant = "none" /\ NoRow.challenge = "none"
    BY EmptyRow
  <1> QED
    BY <1>1, <1>2, <1>3, StageValues DEF Sound

LEMMA StagedThen ==
    ASSUME Typed', Proven', NEW t \in Tokens
    PROVE  /\ changed'[t] \in {0, 1} /\ uses'[t].n \in {0, 1}
           /\ changed'[t] = 1 => Stage(t)' = "done"
           /\ changed'[t] = 0 /\ uses'[t].n = 1 => Stage(t)' = "authorised"
           /\ row'[t].grant = "live" => Stage(t)' = "granted"
           /\ row'[t].challenge = "open" => Stage(t)' = "asked"
           /\ row'[t] = NoRow => Stage(t)' = "unused"
  <1>1. changed'[t] \in {0, 1} /\ uses'[t].n \in {0, 1} /\ Sound(t)'
    BY DEF Proven, Sound
  <1>2. Stage(t)' = StageOf(changed'[t], uses'[t].n, row'[t])
    BY StageNow
  <1>3. NoRow.grant = "none" /\ NoRow.challenge = "none"
    BY EmptyRow
  <1> QED
    BY <1>1, <1>2, <1>3, StageValues DEF Sound

\* A step-up none of whose rows and counts change.
LEMMA Untouched ==
    ASSUME NEW t, changed'[t] = changed[t], uses'[t] = uses[t], row'[t] = row[t]
    PROVE  Stage(t)' = Stage(t) /\ Purpose(t)' = Purpose(t) /\ Act(t)' = Act(t)
  BY StageNow DEF Purpose, Act

LEMMA RefineMoves ==
    ASSUME Typed, Proven, NEW r \in Requests, Moves(r)
    PROVE  UNCHANGED Contract!vars
  <1>1. UNCHANGED <<row, uses, changed>>
    BY MoveKinds DEF tables, ghosts
  <1> QED
    BY <1>1, Untouched, Stutters

\* The proof is given, for the operation and login it was asked for.
LEMMA RefineGrants ==
    ASSUME Typed, Proven, Typed', Proven', NEW r \in Requests,
           CreateStepUpToken(r) \/ CreateStepUpChallenge(r)
    PROVE  \E t \in Tokens, p \in Sessions \X Operations :
              Contract!GrantAtOnce(t, p) \/ Contract!Ask(t, p)
  <1>1. PICK q, t : q = req[r] /\ t = q.token
    OBVIOUS
  <1>2. /\ t \in Tokens /\ q.session \in Sessions /\ q.op \in Operations
        /\ row[t] = NoRow /\ \A u \in Tokens \ {t} : row'[u] = row[u]
        /\ row'[t].session = q.session /\ row'[t].op = q.op
        /\ row'[t].challenge = "open" \/ row'[t].grant = "live"
        /\ UNCHANGED <<uses, changed>>
    BY <1>1, GrantSteps DEF ghosts
  <1> DEFINE p == <<q.session, q.op>>
  <1>3. Stage(t) = "unused" /\ Stage(t)' \in {"asked", "granted"}
    BY <1>2, Staged, StagedThen
  <1>4. \A u \in Tokens \ {t} : Stage(u)' = Stage(u) /\ Purpose(u)' = Purpose(u)
    BY <1>2, Untouched
  <1>5. Contract!Move(t, {"unused"}, Stage(t)')
    BY <1>2, <1>3, <1>4, MovesOne
  <1>6. Purpose(t)' = p /\ p \in Sessions \X Operations
    BY <1>2 DEF Purpose
  <1> HIDE DEF p
  <1>7. [u \in Tokens |-> Purpose(u)]' = [[u \in Tokens |-> Purpose(u)] EXCEPT ![t] = p]
    BY <1>2, <1>4, <1>6
  <1>8. UNCHANGED [u \in Tokens |-> Act(u)]
    BY <1>2 DEF Act
  <1>9. Stage(t)' = "granted" => Contract!GrantAtOnce(t, p)
    BY <1>5, <1>7, <1>8 DEF Contract!GrantAtOnce, Purpose, Act
  <1>10. Stage(t)' = "asked" => Contract!Ask(t, p)
    BY <1>5, <1>7, <1>8 DEF Contract!Ask, Purpose, Act
  <1> QED
    BY <1>2, <1>3, <1>6, <1>9, <1>10

LEMMA RefineCompletes ==
    ASSUME Typed, Proven, Typed', Proven', NEW r \in Requests, CompleteStepUpChallenge(r)
    PROVE  \E t \in Tokens : Contract!Grant(t)
  <1>1. PICK q, t : q = req[r] /\ t = q.token
    OBVIOUS
  <1>2. /\ t \in Tokens /\ row[t].challenge = "open" /\ row'[t].grant = "live"
        /\ \A u \in Tokens \ {t} : row'[u] = row[u]
        /\ row'[t].session = row[t].session /\ row'[t].op = row[t].op
        /\ UNCHANGED <<uses, changed>>
    BY <1>1, CompleteSteps DEF ghosts
  <1>3. Stage(t) = "asked" /\ Stage(t)' = "granted"
    BY <1>2, Staged, StagedThen
  <1>4. \A u \in Tokens \ {t} : Stage(u)' = Stage(u) /\ Purpose(u)' = Purpose(u)
    BY <1>2, Untouched
  <1>5. Contract!Move(t, {"asked"}, "granted")
    BY <1>2, <1>3, <1>4, MovesOne
  <1>6. UNCHANGED <<[u \in Tokens |-> Purpose(u)], [u \in Tokens |-> Act(u)]>>
    BY <1>2, <1>4 DEF Purpose, Act
  <1> QED
    BY <1>2, <1>5, <1>6 DEF Contract!Grant, Purpose, Act

LEMMA RefineConsumes ==
    ASSUME Typed, Proven, Typed', Proven', NEW r \in Requests, NEW q, q = req[r],
           NEW t, t = q.token, ConsumeStepUpToken(r)
    PROVE  t \in Tokens /\ Contract!Authorise(t)
  <1>1. /\ t \in Tokens /\ row[t].grant = "live"
        /\ row[t].session = q.session /\ row[t].op = q.op
        /\ \A u \in Tokens \ {t} : row'[u] = row[u]
        /\ row'[t].session = q.session /\ row'[t].op = q.op
        /\ UNCHANGED changed
    BY ConsumeSteps
  <1>2. uses' = [uses EXCEPT ![t] = [n |-> uses[t].n + 1, session |-> q.session, op |-> q.op]]
           /\ uses[t].n = 0 /\ changed[t] = 0
    BY <1>1 DEF ConsumeStepUpToken, Proven, Sound
  <1>3. /\ \A u \in Tokens \ {t} : uses'[u] = uses[u]
        /\ uses'[t].n = 1 /\ uses'[t].session = q.session /\ uses'[t].op = q.op
    BY <1>1, <1>2 DEF Typed, Ghosts
  <1>4. Stage(t) = "granted" /\ Stage(t)' = "authorised"
    BY <1>1, <1>2, <1>3, Staged, StagedThen
  <1>5. \A u \in Tokens \ {t} : /\ Stage(u)' = Stage(u) /\ Purpose(u)' = Purpose(u)
                                /\ Act(u)' = Act(u)
    BY <1>1, <1>3, Untouched
  <1>6. Contract!Move(t, {"granted"}, "authorised")
    BY <1>1, <1>4, <1>5, MovesOne
  <1>7. Purpose(t)' = Purpose(t) /\ Act(t)' = Purpose(t)
    BY <1>1, <1>3 DEF Purpose, Act
  <1>8. /\ UNCHANGED [u \in Tokens |-> Purpose(u)]
        /\ [u \in Tokens |-> Act(u)]' = [[u \in Tokens |-> Act(u)] EXCEPT ![t] = Purpose(t)]
    BY <1>1, <1>5, <1>7
  <1> QED
    BY <1>1, <1>6, <1>8 DEF Contract!Authorise, Purpose, Act

LEMMA RefineFails ==
    ASSUME Typed, Proven, Typed', Proven', NEW r \in Requests, FailStepUpChallenge(r)
    PROVE  UNCHANGED Contract!vars
  <1>1. PICK q, t : q = req[r] /\ t = q.token
    OBVIOUS
  <1>2. /\ t \in Tokens /\ \A u \in Tokens \ {t} : row'[u] = row[u]
        /\ row'[t].session = row[t].session /\ row'[t].op = row[t].op
        /\ row'[t].challenge = row[t].challenge
        /\ row[t].challenge # "open" => row'[t] = row[t]
    BY <1>1, FailSteps
  <1>3. UNCHANGED <<uses, changed>>
    BY DEF FailStepUpChallenge
  <1>4. CASE row[t].challenge = "open"
    <2>1. Stage(t)' = Stage(t)
      BY <1>2, <1>4, Staged, StagedThen
    <2>2. Purpose(t)' = Purpose(t) /\ Act(t)' = Act(t)
      BY <1>2, <1>3 DEF Purpose, Act
    <2> QED
      BY <1>2, <1>3, <2>1, <2>2, Untouched, Stutters
  <1>5. CASE row[t].challenge # "open"
    BY <1>2, <1>3, <1>5, Untouched, Stutters
  <1> QED
    BY <1>4, <1>5

\* The account changes on the strength of a step-up that let its operation through.
LEMMA ChangesOnce ==
    ASSUME Typed, Proven, Typed', Proven', NEW t \in Tokens,
           uses[t].n = 1, changed[t] = 0, UNCHANGED <<row, uses>>,
           changed' = [changed EXCEPT ![t] = changed[t] + 1]
    PROVE  Contract!Change(t)
  <1>1. changed'[t] = 1 /\ \A u \in Tokens \ {t} : changed'[u] = changed[u]
    BY DEF Typed, Ghosts
  <1>2. Stage(t) = "authorised" /\ Stage(t)' = "done"
    BY <1>1, Staged, StagedThen
  <1>3. \A u \in Tokens \ {t} : Stage(u)' = Stage(u)
    BY <1>1, Untouched
  <1>4. Contract!Move(t, {"authorised"}, "done")
    BY <1>2, <1>3, MovesOne
  <1> QED
    BY <1>4 DEF Contract!Change

LEMMA RefinePays ==
    ASSUME Typed, Proven, Typed', Proven', NEW r \in Requests, Pays(r)
    PROVE  UNCHANGED Contract!vars \/ \E t \in Tokens : Contract!Change(t)
  <1>1. PICK t : t = req[r].token
    OBVIOUS
  <1>2. /\ t \in Tokens /\ UNCHANGED <<row, uses>>
        /\ \/ req[r].at = "authorised" /\ changed' = [changed EXCEPT ![t] = changed[t] + 1]
           \/ UNCHANGED changed
    BY <1>1, PaySteps
  <1>3. CASE UNCHANGED changed
    BY <1>2, <1>3, Untouched, Stutters
  <1>4. CASE req[r].at = "authorised" /\ changed' = [changed EXCEPT ![t] = changed[t] + 1]
    <2>1. uses[t].n = 1 /\ changed[t] = 0
      BY <1>1, <1>4 DEF Proven, Fits
    <2> QED
      BY <1>2, <1>4, <2>1, ChangesOnce
  <1> QED
    BY <1>2, <1>3, <1>4

LEMMA RefineDevice ==
    ASSUME Typed, Proven, Typed', Proven', NEW t \in Tokens, RegisterNativeDevice(t)
    PROVE  Contract!Change(t)
  <1>1. /\ pairing[t] = "live" /\ UNCHANGED <<row, uses>>
        /\ changed' = [changed EXCEPT ![t] = changed[t] + 1]
    BY DeviceTypes
  <1>2. uses[t].n = 1 /\ changed[t] = 0
    BY <1>1 DEF Proven, Sound
  <1> QED
    BY <1>1, <1>2, ChangesOnce

\* Step-ups that were asked for or granted end, and no other.
LEMMA RefineBurns ==
    ASSUME Typed, Proven, Typed', Proven', Burn
    PROVE  \E T \in SUBSET Tokens : Contract!Void(T)
  <1> DEFINE T == {t \in Tokens : Stage(t)' # Stage(t)}
  <1>1. UNCHANGED <<uses, changed>> /\ BurnsRows
    BY BurnTypes DEF BurnsRows
  <1>2. ASSUME NEW t \in Tokens
        PROVE  /\ Purpose(t)' = Purpose(t) /\ Act(t)' = Act(t)
               /\ \/ Stage(t)' = Stage(t)
                  \/ Stage(t) \in {"asked", "granted"} /\ Stage(t)' = "dead"
    <2>1. /\ row'[t].session = row[t].session /\ row'[t].op = row[t].op
          /\ \/ row'[t].challenge = row[t].challenge
             \/ row[t].challenge = "open" /\ row'[t].challenge = "used"
          /\ \/ row'[t].grant = row[t].grant
             \/ row[t].grant = "live" /\ row'[t].grant = "used"
          /\ row'[t] = NoRow <=> row[t] = NoRow
      BY <1>1, BurntRows
    <2>2. Purpose(t)' = Purpose(t) /\ Act(t)' = Act(t)
      BY <1>1, <2>1 DEF Purpose, Act
    <2>3. /\ changed[t] \in {0, 1} /\ uses[t].n \in {0, 1}
          /\ row[t].challenge = "open" => row[t].grant = "none"
          /\ row[t].grant # "used" => uses[t].n = 0
          /\ uses[t].n = 0 => changed[t] = 0
      BY DEF Proven, Sound
    <2>4. /\ Stage(t) = StageOf(changed[t], uses[t].n, row[t])
          /\ Stage(t)' = StageOf(changed[t], uses[t].n, row'[t])
      BY <1>1, StageNow
    <2>5. \/ Stage(t)' = Stage(t)
          \/ Stage(t) \in {"asked", "granted"} /\ Stage(t)' = "dead"
      <3>1. CASE changed[t] = 1 \/ uses[t].n = 1
        BY <2>3, <2>4, <3>1, StageValues
      <3>2. CASE changed[t] = 0 /\ uses[t].n = 0
        <4>1. CASE row'[t].challenge = row[t].challenge /\ row'[t].grant = row[t].grant
          BY <2>1, <2>4, <4>1 DEF StageOf
        <4>2. CASE row[t].challenge = "open" /\ row'[t].challenge = "used"
          <5>1. row[t] # NoRow /\ row[t].grant # "live" /\ row'[t].grant # "live"
            BY <2>1, <2>3, <4>2, EmptyRow
          <5> QED
            BY <2>1, <2>3, <2>4, <3>2, <4>2, <5>1, StageValues
        <4>3. CASE row[t].grant = "live" /\ row'[t].grant = "used"
          <5>1. row[t] # NoRow /\ row'[t].challenge # "open"
            BY <2>1, <2>3, <4>3, EmptyRow
          <5> QED
            BY <2>1, <2>3, <2>4, <3>2, <4>3, <5>1, StageValues
        <4> QED
          BY <2>1, <4>1, <4>2, <4>3
      <3> QED
        BY <2>3, <3>1, <3>2
    <2> QED
      BY <2>2, <2>5
  <1>3. [t \in Tokens |-> Stage(t)]' =
          [t \in Tokens |-> IF t \in T THEN "dead" ELSE [u \in Tokens |-> Stage(u)][t]]
    BY <1>2
  <1>4. \A t \in T : t \in Tokens /\ Stage(t) \in {"asked", "granted"}
    BY <1>2
  <1>5. UNCHANGED <<[u \in Tokens |-> Purpose(u)], [u \in Tokens |-> Act(u)]>>
    BY <1>2
  <1> HIDE DEF T
  <1>6. Contract!Void(T)
    BY <1>3, <1>4, <1>5 DEF Contract!Void, Purpose, Act
  <1> QED
    BY <1>4, <1>6

LEMMA RefineStep ==
    ASSUME Typed, Proven, [Next]_vars
    PROVE  [Contract!Next]_(Contract!vars)
  <1>1. Typed' /\ Proven'
    BY TypedStep, ProvenStep
  <1>2. ASSUME UNCHANGED <<row, uses, changed>> PROVE UNCHANGED Contract!vars
    BY <1>2, Untouched, Stutters
  <1>3. CASE UNCHANGED vars
    BY <1>2, <1>3 DEF vars, tables, ghosts
  <1>4. ASSUME NEW r \in Requests, Moves(r) PROVE UNCHANGED Contract!vars
    BY <1>4, RefineMoves
  <1>5. ASSUME NEW r \in Requests, Pays(r) PROVE [Contract!Next]_(Contract!vars)
    BY <1>1, <1>5, RefinePays DEF Contract!Next
  <1>6. ASSUME NEW r \in Requests, CreateStepUpToken(r) \/ CreateStepUpChallenge(r)
        PROVE  Contract!Next
    BY <1>1, <1>6, RefineGrants DEF Contract!Next
  <1>7. ASSUME NEW r \in Requests, FailStepUpChallenge(r) PROVE UNCHANGED Contract!vars
    BY <1>1, <1>7, RefineFails
  <1>8. ASSUME NEW r \in Requests, CompleteStepUpChallenge(r) PROVE Contract!Next
    BY <1>1, <1>8, RefineCompletes DEF Contract!Next
  <1>9. ASSUME NEW r \in Requests, ConsumeStepUpToken(r) PROVE Contract!Next
    <2>1. PICK q, t : q = req[r] /\ t = q.token
      OBVIOUS
    <2> QED
      BY <1>1, <1>9, <2>1, RefineConsumes DEF Contract!Next
  <1>10. ASSUME NEW t \in Tokens, RegisterNativeDevice(t) PROVE Contract!Next
    BY <1>1, <1>10, RefineDevice DEF Contract!Next
  <1>11. CASE Aside
    BY <1>2, <1>11, AsideTypes DEF ghosts
  <1>12. CASE Burn
    BY <1>1, <1>12, RefineBurns DEF Contract!Next
  <1> QED
    BY <1>3, <1>4, <1>5, <1>6, <1>7, <1>8, <1>9, <1>10, <1>11, <1>12, StepKinds

LEMMA RefineInit == Init => Contract!Init
  <1> SUFFICES ASSUME Init PROVE Contract!Init
    OBVIOUS
  <1>1. ASSUME NEW t \in Tokens
        PROVE  Stage(t) = "unused" /\ Purpose(t) = <<None, None>> /\ Act(t) = <<None, None>>
    <2>1. Typed /\ Proven
      BY AtFirst
    <2>2. row[t] = NoRow /\ uses[t].session = None /\ uses[t].op = None
      BY DEF Init
    <2> QED
      BY <2>1, <2>2, Staged, EmptyRow DEF Purpose, Act
  <1> QED
    BY <1>1 DEF Contract!Init, Purpose, Act

\* One re-authentication authorizes exactly one change, however the requests that carry it
\* interleave: what the handlers do is what OneTimeProof allows (createStepUpTokenTx,
\* CompleteStepUpChallenge, ConsumeStepUpToken and the changes they guard).
THEOREM OneProofOneChangeAlways == Spec => OneProofOneChange
  BY RefineInit, RefineStep, Always, PTL DEF Spec, OneProofOneChange, Contract!Spec
=============================================================================
