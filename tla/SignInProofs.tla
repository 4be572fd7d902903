---------------------------- MODULE SignInProofs ----------------------------
(***************************************************************************)
(* What SignIn guarantees for any number of pending sign-ins, requests,    *)
(* recovery codes and changes of the account.                              *)
(***************************************************************************)
EXTENDS SignIn, FiniteSetTheorems, TLAPS

-----------------------------------------------------------------------------
(* Rows and requests                                                       *)

\* What a wrong password, a right one and every change make of the account's row.
LEMMA AccountRows ==
    ASSUME NEW a \in Account
    PROVE  /\ Failed(a) \in Account
           /\ Failed(a).active = a.active
           /\ Failed(a).codes = a.codes
           /\ Failed(a).last = a.last
           /\ ClearFailedLogins(a) \in Account
           /\ ClearFailedLogins(a).active = a.active
           /\ ClearFailedLogins(a).codes = a.codes
           /\ ClearFailedLogins(a).last = a.last
  <1>1. ASSUME NEW b \in BOOLEAN, NEW n \in 0 .. MaxFailed
        PROVE  LET c == [a EXCEPT !.recent = b, !.failures = n]
               IN  /\ c \in Account /\ c.active = a.active
                   /\ c.codes = a.codes /\ c.last = a.last
    BY DEF Account
  <1>2. 0 \in 0 .. MaxFailed
    BY BoundsAreNatural
  <1> DEFINE n == IF a.failures < MaxFailed THEN a.failures + 1 ELSE a.failures
  <1>3. n \in 0 .. MaxFailed
    BY BoundsAreNatural DEF Account
  <1>4. Failed(a) = [a EXCEPT !.recent = TRUE, !.failures = n]
    BY DEF Failed
  <1>5. ClearFailedLogins(a) = [a EXCEPT !.recent = FALSE, !.failures = 0]
    BY DEF ClearFailedLogins, Account
  <1> HIDE DEF n
  <1>6. LET c == [a EXCEPT !.recent = TRUE, !.failures = n]
        IN  c \in Account /\ c.active = a.active /\ c.codes = a.codes /\ c.last = a.last
    BY <1>1, <1>3, Zenon
  <1>7. LET c == [a EXCEPT !.recent = FALSE, !.failures = 0]
        IN  c \in Account /\ c.active = a.active /\ c.codes = a.codes /\ c.last = a.last
    BY <1>1, <1>2, Zenon
  <1> QED
    BY <1>4, <1>5, <1>6, <1>7, Zenon

\* One column of the row is written.
LEMMA AccountWrites ==
    ASSUME NEW a \in Account
    PROVE  /\ \A c \in Steps : [a EXCEPT !.last = c] \in Account
           /\ \A K \in SUBSET Codes : [a EXCEPT !.codes = K] \in Account
           /\ \A m \in SUBSET Factors : [a EXCEPT !.methods = m] \in Account
           /\ \A b \in BOOLEAN : [a EXCEPT !.active = b] \in Account
           /\ \A b \in BOOLEAN : [a EXCEPT !.recent = b] \in Account
           /\ \A m \in SUBSET Factors, K \in SUBSET Codes :
                 [a EXCEPT !.methods = m, !.codes = K] \in Account
           /\ \A n \in 0 .. MaxStep, m \in SUBSET Factors, K \in SUBSET Codes :
                 [a EXCEPT !.methods = m, !.codes = K, !.last = n] \in Account
  <1>1. Steps \subseteq 0 .. MaxStep
    BY BoundsAreNatural DEF Steps
  <1> QED
    BY <1>1 DEF Account

\* None of the writes to the other columns changes the status.
LEMMA OtherColumns ==
    ASSUME NEW a \in Account, NEW b,
           \/ \E c : b = [a EXCEPT !.last = c]
           \/ \E c : b = [a EXCEPT !.codes = c]
           \/ \E c : b = [a EXCEPT !.methods = c]
           \/ \E c : b = [a EXCEPT !.recent = c]
           \/ \E c, d : b = [a EXCEPT !.methods = c, !.codes = d]
    PROVE  b.active = a.active
  BY DEF Account

\* Requests that are past resolveMFAToken carry a token.
Carrying(q) == q.at \in {"resolved", "asserted", "missed", "proved"} => q.token # None

LEMMA RequestMoves ==
    ASSUME req \in [Requests -> Request], \A r \in Requests : Carrying(req[r]),
           NEW r \in Requests, NEW q \in Request, Carrying(q), Goes(r, q)
    PROVE  req' \in [Requests -> Request] /\ \A p \in Requests : Carrying(req'[p])
  BY DEF Goes

\* The requests that handlers make of the one they have.
LEMMA RequestRows ==
    ASSUME NEW q \in Request
    PROVE  /\ Idle \in Request /\ Carrying(Idle)
           /\ [Idle EXCEPT !.at = "password"] \in Request
           /\ Carrying([Idle EXCEPT !.at = "password"])
           /\ [Idle EXCEPT !.at = "reauth"] \in Request
           /\ Carrying([Idle EXCEPT !.at = "reauth"])
           /\ \A t \in Tokens : /\ [Idle EXCEPT !.at = "resolved", !.token = t] \in Request
                                /\ Carrying([Idle EXCEPT !.at = "resolved", !.token = t])
           /\ [q EXCEPT !.at = "open"] \in Request
           /\ [q EXCEPT !.at = "open", !.by = ""] \in Request
           /\ Carrying([q EXCEPT !.at = "open"])
           /\ Carrying([q EXCEPT !.at = "open", !.by = ""])
           /\ q.token # None =>
                 /\ \A at \in {"missed", "asserted"} :
                       [q EXCEPT !.at = at] \in Request /\ Carrying([q EXCEPT !.at = at])
                 /\ \A by \in Handlers :
                       /\ [q EXCEPT !.at = "proved", !.by = by] \in Request
                       /\ Carrying([q EXCEPT !.at = "proved", !.by = by])
  BY NoneIsNothing DEF Request, Idle, Stages, Carrying, Handlers, Factors

\* A request that has proved a factor: a sign-in with its token, or a step-up.
LEMMA ProvedMoves ==
    ASSUME NEW r \in Requests, req[r] \in Request, Carrying(req[r]), NEW by \in Handlers,
           req[r].at \in {"resolved", "asserted", "reauth"}, Proved(r, by)
    PROVE  \E q \in Request :
              /\ Goes(r, q) /\ Carrying(q) /\ q.token = req[r].token
              /\ q.at = (IF req[r].at = "reauth" THEN "granted" ELSE "proved")
              /\ q.by = (IF req[r].at = "reauth" THEN req[r].by ELSE by)
  <1>1. CASE req[r].at = "reauth"
    <2> DEFINE q == [req[r] EXCEPT !.at = "granted"]
    <2>1. /\ q \in Request /\ Carrying(q) /\ q.token = req[r].token /\ q.at = "granted"
          /\ q.by = req[r].by
      BY DEF Request, Stages, Carrying
    <2>2. Goes(r, q)
      BY <1>1 DEF Proved
    <2> HIDE DEF q
    <2> QED
      BY <1>1, <2>1, <2>2
  <1>2. CASE req[r].at # "reauth"
    <2> DEFINE q == [req[r] EXCEPT !.at = "proved", !.by = by]
    <2>1. q \in Request /\ Carrying(q)
      BY <1>2, RequestRows DEF Carrying
    <2>2. q.token = req[r].token /\ q.at = "proved" /\ q.by = by
      BY DEF Request
    <2>3. Goes(r, q)
      BY <1>2 DEF Proved
    <2> HIDE DEF q
    <2> QED
      BY <1>2, <2>1, <2>2, <2>3
  <1> QED
    BY <1>1, <1>2

\* The factors, and the stages in which they are proved.
LEMMA Proofs ==
    ASSUME NEW r \in Requests,
           \/ \E c \in Steps : SpendTOTP(r, c)
           \/ \E k \in Codes : SpendRecoveryCode(r, k)
           \/ \E c \in Tokens : FinishPushLogin(r, c)
           \/ VerifyAssertion(r)
    PROVE  /\ \E by \in Handlers : Proved(r, by)
           /\ req[r].at \in {"resolved", "asserted", "reauth"}
           /\ UNCHANGED <<token, opened, guesses, wrong>>
  BY DEF SpendTOTP, SpendRecoveryCode, FinishPushLogin, VerifyAssertion, Handlers, Factors, tables,
         ghosts

-----------------------------------------------------------------------------
(* Types                                                                   *)

\* The tables and counters other than the account and the requests.
Rows ==
    /\ token \in [Tokens -> [issued : BOOLEAN, used : BOOLEAN, attempts : Nat]]
    /\ challenge \in [Tokens -> {"none", "pending", "approved"}]
    /\ nonce \in BOOLEAN
    /\ session \subseteq Tokens \cup {None}
    /\ changes \in 0 .. MaxChanges
    /\ uses \in [OneTimeCodes -> Nat]
    /\ opened \in [Tokens -> Nat]
    /\ guesses \in [Tokens -> Nat]
    /\ wrong \in Nat

LEMMA TypeParts ==
    TypeOK <=> /\ account \in Account /\ Rows
               /\ req \in [Requests -> Request] /\ \A r \in Requests : Carrying(req[r])
  BY DEF TypeOK, Rows, Carrying

\* mfa_tokens after one row of it was issued, spent or charged.
LEMMA TokenRows ==
    ASSUME token \in [Tokens -> [issued : BOOLEAN, used : BOOLEAN, attempts : Nat]],
           NEW t \in Tokens
    PROVE  /\ [token EXCEPT ![t].attempts = @ + 1]
                 \in [Tokens -> [issued : BOOLEAN, used : BOOLEAN, attempts : Nat]]
           /\ [token EXCEPT ![t].issued = TRUE]
                 \in [Tokens -> [issued : BOOLEAN, used : BOOLEAN, attempts : Nat]]
           /\ [token EXCEPT ![t].used = TRUE]
                 \in [Tokens -> [issued : BOOLEAN, used : BOOLEAN, attempts : Nat]]
  <1>1. ASSUME NEW b \in BOOLEAN
        PROVE  /\ [token EXCEPT ![t].issued = b]
                     \in [Tokens -> [issued : BOOLEAN, used : BOOLEAN, attempts : Nat]]
               /\ [token EXCEPT ![t].used = b]
                     \in [Tokens -> [issued : BOOLEAN, used : BOOLEAN, attempts : Nat]]
    OBVIOUS
  <1>2. [token EXCEPT ![t].attempts = @ + 1]
            \in [Tokens -> [issued : BOOLEAN, used : BOOLEAN, attempts : Nat]]
    OBVIOUS
  <1> QED
    BY <1>1, <1>2, Zenon

\* A step of a request leaves every row its shape.
LEMMA HandleTypes ==
    ASSUME TypeOK, NEW r \in Requests, Handle(r)
    PROVE  TypeOK'
  <1> USE DEF tables, ghosts, Ends
  <1>0. /\ account \in Account /\ Rows /\ req[r] \in Request /\ Carrying(req[r])
        /\ req \in [Requests -> Request] /\ \A p \in Requests : Carrying(req[p])
    BY TypeParts
  <1>q. ASSUME NEW q \in Request, Carrying(q), Goes(r, q)
        PROVE  req' \in [Requests -> Request] /\ \A p \in Requests : Carrying(req'[p])
    BY <1>0, <1>q, RequestMoves
  <1>t. SUFFICES /\ account' \in Account /\ Rows'
                 /\ \E q \in Request : Carrying(q) /\ Goes(r, q)
    BY <1>q DEF TypeOK, Rows, Carrying
  <1>1. CASE BeginLogin(r)
    BY <1>0, <1>1, RequestRows DEF BeginLogin, Rows
  <1>2. CASE RecordFailedLogin(r)
    <2>1. account' \in Account
      BY <1>0, <1>2, AccountRows DEF RecordFailedLogin
    <2>2. Rows'
      BY <1>0, <1>2 DEF RecordFailedLogin, Rows
    <2> QED
      BY <1>0, <1>2, <2>1, <2>2, RequestRows DEF RecordFailedLogin
  <1>3. CASE IssueMFAToken(r)
    <2>1. account' \in Account
      BY <1>0, <1>3, AccountRows DEF IssueMFAToken
    <2>2. token' \in [Tokens -> [issued : BOOLEAN, used : BOOLEAN, attempts : Nat]]
      <3> PICK t \in Tokens : token' = [token EXCEPT ![t].issued = TRUE]
        BY <1>3 DEF IssueMFAToken
      <3> QED
        BY <1>0, TokenRows DEF Rows
    <2>3. Rows'
      BY <1>0, <1>3, <2>2 DEF IssueMFAToken, Rows
    <2> QED
      BY <1>0, <1>3, <2>1, <2>3, RequestRows DEF IssueMFAToken
  <1>4. CASE NoMFAEnrolled(r)
    BY <1>0, <1>4, RequestRows, AccountRows DEF NoMFAEnrolled, Rows
  <1>5. CASE \E t \in Tokens : ResolveMFAToken(r, t)
    BY <1>0, <1>5, RequestRows DEF ResolveMFAToken, Rows
  <1>6. CASE WrongFactor(r)
    <2>1. req[r].token \in Tokens
      BY <1>0, <1>6 DEF WrongFactor, Carrying, Request
    <2>2. Rows'
      BY <1>0, <1>6, <2>1 DEF WrongFactor, Missed, Rows
    <2>3. account' \in Account
      BY <1>0, <1>6 DEF WrongFactor
    <2> DEFINE q == [req[r] EXCEPT !.at = "missed"]
    <2>4. q \in Request /\ Carrying(q)
      BY <1>0, <2>1, NoneIsNothing, RequestRows
    <2>5. Goes(r, q)
      BY <1>6 DEF WrongFactor, Missed
    <2> QED
      BY <2>2, <2>3, <2>4, <2>5
  <1>7. CASE \E c \in Steps : SpendTOTP(r, c)
    <2> PICK c \in Steps : SpendTOTP(r, c)
      BY <1>7
    <2>1. account' = [account EXCEPT !.last = c]
      BY DEF SpendTOTP
    <2>2. account' \in Account
      BY <1>0, <2>1, AccountWrites
    <2>3. Rows'
      BY <1>0 DEF SpendTOTP, Rows, OneTimeCodes
    <2> QED
      BY <1>0, <1>7, <2>2, <2>3, Proofs, ProvedMoves
  <1>8. CASE \E k \in Codes : SpendRecoveryCode(r, k)
    <2> PICK k \in Codes : SpendRecoveryCode(r, k)
      BY <1>8
    <2>1. account' = [account EXCEPT !.codes = account.codes \ {k}]
      BY DEF SpendRecoveryCode
    <2>2. account' \in Account
      BY <1>0, <2>1, AccountWrites DEF Account
    <2>3. Rows'
      BY <1>0 DEF SpendRecoveryCode, Rows, OneTimeCodes
    <2> QED
      BY <1>0, <1>8, <2>2, <2>3, Proofs, ProvedMoves
  <1>9. CASE \E c \in Tokens : FinishPushLogin(r, c)
    <2>1. account' \in Account /\ Rows'
      BY <1>0, <1>9 DEF FinishPushLogin, Rows
    <2> QED
      BY <1>0, <1>9, <2>1, Proofs, ProvedMoves
  <1>10. CASE ConsumeWebAuthnChallenge(r)
    BY <1>0, <1>10, RequestRows DEF ConsumeWebAuthnChallenge, Rows, Carrying
  <1>11. CASE VerifyAssertion(r)
    <2>1. account' \in Account /\ Rows'
      BY <1>0, <1>11 DEF VerifyAssertion, Rows
    <2> QED
      BY <1>0, <1>11, <2>1, Proofs, ProvedMoves
  <1>12. CASE RegisterMFAFailure(r)
    <2>1. req[r].token \in Tokens
      BY <1>0, <1>12 DEF RegisterMFAFailure, Carrying, Request
    <2>2. Rows'
      BY <1>0, <1>12, <2>1, TokenRows DEF RegisterMFAFailure, Rows
    <2> QED
      BY <1>0, <1>12, <2>2, RequestRows DEF RegisterMFAFailure
  <1>13. CASE SpendMFAToken(r)
    <2>1. req[r].token \in Tokens
      BY <1>0, <1>13 DEF SpendMFAToken, Carrying, Request
    <2>2. account' \in Account
      BY <1>0, <1>13, AccountRows DEF SpendMFAToken
    <2>3. token' \in [Tokens -> [issued : BOOLEAN, used : BOOLEAN, attempts : Nat]]
      BY <1>0, <1>13, <2>1, TokenRows DEF SpendMFAToken, Rows
    <2>4. Rows'
      BY <1>0, <1>13, <2>3 DEF SpendMFAToken, Rows
    <2> QED
      BY <1>0, <1>13, <2>2, <2>4, RequestRows DEF SpendMFAToken
  <1>14. CASE CreateSession(r)
    <2>1. session' \subseteq Tokens \cup {None}
      BY <1>0, <1>14 DEF CreateSession, Rows, Request
    <2>2. opened' \in [Tokens -> Nat]
      BY <1>0, <1>14 DEF CreateSession, Rows
    <2>3. Rows'
      BY <1>0, <1>14, <2>1, <2>2 DEF CreateSession, Rows
    <2> QED
      BY <1>0, <1>14, <2>3, RequestRows DEF CreateSession
  <1>15. CASE Abandon(r)
    BY <1>0, <1>15, RequestRows DEF Abandon, Rows
  <1>16. CASE BeginStepUp(r)
    BY <1>0, <1>16, RequestRows DEF BeginStepUp, Rows
  <1>17. CASE StepUpGranted(r)
    <2>1. account' \in Account
      BY <1>0, <1>17, AccountRows DEF StepUpGranted
    <2>2. Rows'
      BY <1>0, <1>17 DEF StepUpGranted, Rows
    <2> QED
      BY <1>0, <1>17, <2>1, <2>2, RequestRows DEF StepUpGranted
  <1> QED
    BY <1>1, <1>2, <1>3, <1>4, <1>5, <1>6, <1>7, <1>8, <1>9, <1>10, <1>11, <1>12, <1>13,
       <1>14, <1>15, <1>16, <1>17 DEF Handle

\* So do the changes of the account, devices and sign-outs.
LEMMA OtherTypes ==
    ASSUME TypeOK, Next, ~ \E r \in Requests : Handle(r)
    PROVE  TypeOK'
  <1> USE DEF tables, ghosts
  <1>0. account \in Account /\ Rows
    BY TypeParts
  <1>1. SUFFICES account' \in Account /\ Rows' /\ req' = req
    BY DEF TypeOK, Rows
  <1>c. Changes => changes' \in 0 .. MaxChanges
    BY <1>0, BoundsAreNatural DEF Changes, Rows
  <1>2. CASE \E t \in Tokens : BeginPasskeyLogin(t)
    BY <1>0, <1>2 DEF BeginPasskeyLogin, Rows
  <1>3. CASE \E t \in Tokens, a \in {"approved", "none"} : RespondPush(t, a)
    BY <1>0, <1>3 DEF RespondPush, Rows
  <1>4. CASE LockoutLapses
    <2>1. account' \in Account
      BY <1>0, <1>4, AccountWrites DEF LockoutLapses
    <2> QED
      BY <1>0, <1>4, <1>c, <2>1 DEF LockoutLapses, Rows
  <1>6. CASE ResetUserMFA
    <2>1. {} \in SUBSET Factors /\ {} \in SUBSET Codes /\ 0 \in 0 .. MaxStep
      BY BoundsAreNatural
    <2>2. account' \in Account
      BY <1>0, <1>6, <2>1, AccountWrites, Zenon DEF ResetUserMFA
    <2> QED
      BY <1>0, <1>6, <1>c, <2>2 DEF ResetUserMFA, Rows
  <1>7. CASE DisableUser
    <2>1. account' \in Account
      BY <1>0, <1>7, AccountWrites, Zenon DEF DisableUser
    <2> QED
      BY <1>0, <1>7, <1>c, <2>1 DEF DisableUser, Rows
  <1>8. CASE EnableUser
    <2>1. account' \in Account
      BY <1>0, <1>8, AccountWrites, Zenon DEF EnableUser
    <2> QED
      BY <1>0, <1>8, <2>1 DEF EnableUser, Rows
  <1>9. CASE GenerateRecoveryCodes
    <2>1. account' \in Account
      BY <1>0, <1>9, AccountWrites DEF GenerateRecoveryCodes
    <2> QED
      BY <1>0, <1>9, <1>c, <2>1 DEF GenerateRecoveryCodes, Rows
  <1>10. CASE ChangePassword
    <2>1. account' \in Account
      BY <1>0, <1>10, AccountRows DEF ChangePassword
    <2> QED
      BY <1>0, <1>10, <1>c, <2>1 DEF ChangePassword, Rows
  <1>11. CASE ChangeDevices
    <2>1. PICK m \in SUBSET Factors : account' = [account EXCEPT !.methods = m]
      BY <1>0, <1>11 DEF ChangeDevices, Account, Factors
    <2>2. account' \in Account
      BY <1>0, <2>1, AccountWrites
    <2> QED
      BY <1>0, <1>11, <1>c, <2>2 DEF ChangeDevices, Rows
  <1>12. CASE \E s \in session : Logout(s)
    BY <1>0, <1>12 DEF Logout, Rows
  <1>13. CASE \E s \in session : EnableTOTP(s)
    <2>1. PICK s \in session : EnableTOTP(s)
      BY <1>13
    <2>2. account' = [account EXCEPT !.methods = account.methods \cup {"totp"}, !.codes = Codes]
      BY <1>0, <2>1 DEF EnableTOTP
    <2>3. account' \in Account
      BY <1>0, <2>2, AccountWrites DEF Account, Factors
    <2> QED
      BY <1>0, <1>c, <2>1, <2>3 DEF EnableTOTP, Rows
  <1> QED
    BY <1>2, <1>3, <1>4, <1>6, <1>7, <1>8, <1>9, <1>10, <1>11, <1>12, <1>13 DEF Next

LEMMA TypeInit == Init => TypeOK
  <1> SUFFICES ASSUME Init PROVE TypeOK
    OBVIOUS
  <1>1. account \in Account
    <2>1. 0 \in 0 .. MaxStep /\ 0 \in 0 .. MaxFailed
      BY BoundsAreNatural
    <2>2. ASSUME NEW m \in {{}, Factors}, NEW K \in SUBSET Codes, NEW b \in BOOLEAN,
                 NEW c \in BOOLEAN
          PROVE  [active |-> b, methods |-> m, last |-> 0, codes |-> K,
                  failures |-> 0, recent |-> c] \in Account
      BY <2>1 DEF Account, Factors
    <2>3. PICK m \in {{}, Factors} :
             account = [active |-> TRUE, methods |-> m, last |-> 0,
                        codes |-> IF m = {} THEN {} ELSE Codes,
                        failures |-> 0, recent |-> FALSE]
      BY DEF Init
    <2>4. (IF m = {} THEN {} ELSE Codes) \in SUBSET Codes
      OBVIOUS
    <2> QED
      BY <2>2, <2>3, <2>4, Zenon
  <1>2. Rows
    <2>1. ASSUME NEW b \in BOOLEAN
          PROVE  [issued |-> b, used |-> b, attempts |-> 0]
                    \in [issued : BOOLEAN, used : BOOLEAN, attempts : Nat]
      OBVIOUS
    <2>2. NoToken \in [issued : BOOLEAN, used : BOOLEAN, attempts : Nat]
      BY <2>1, Zenon DEF NoToken
    <2>3. token \in [Tokens -> [issued : BOOLEAN, used : BOOLEAN, attempts : Nat]]
      BY <2>2 DEF Init
    <2>4. nonce \in BOOLEAN
      BY Zenon DEF Init
    <2>5. changes \in 0 .. MaxChanges /\ wrong \in Nat
      BY BoundsAreNatural DEF Init
    <2>6. /\ uses \in [OneTimeCodes -> Nat] /\ opened \in [Tokens -> Nat]
          /\ guesses \in [Tokens -> Nat]
      BY DEF Init
    <2>7. /\ challenge \in [Tokens -> {"none", "pending", "approved"}]
          /\ session \subseteq Tokens \cup {None}
      BY DEF Init
    <2> QED
      BY <2>3, <2>4, <2>5, <2>6, <2>7 DEF Rows
  <1>3. Idle \in Request /\ Carrying(Idle)
    BY DEF Idle, Request, Stages, Carrying
  <1> QED
    BY <1>1, <1>2, <1>3, TypeParts DEF Init

LEMMA TypeStep == TypeOK /\ [Next]_vars => TypeOK'
  <1> SUFFICES ASSUME TypeOK, [Next]_vars PROVE TypeOK'
    OBVIOUS
  <1>1. CASE UNCHANGED vars
    BY <1>1 DEF vars, tables, ghosts, TypeOK
  <1> QED
    BY <1>1, HandleTypes, OtherTypes

\* Every row and request keeps its shape, and a request past resolveMFAToken carries a token,
\* for any number of sign-ins, requests and codes.
THEOREM TypeCorrect == Spec => []TypeOK
  BY TypeInit, TypeStep, PTL DEF Spec

-----------------------------------------------------------------------------
(* Disabled accounts                                                       *)

\* An account with a session is active in every state: a disabling ends the sessions in its
\* own transaction, and the insert of createSessionAndRespond asks for the status again,
\* however long ago the password and the factor were checked.
THEOREM SessionsNeedActiveAlways == Spec => []SessionsNeedActive
  <1>1. Init => SessionsNeedActive
    BY DEF Init, SessionsNeedActive
  <1>2. TypeOK /\ SessionsNeedActive /\ [Next]_vars => SessionsNeedActive'
    <2> SUFFICES ASSUME TypeOK, SessionsNeedActive, [Next]_vars PROVE SessionsNeedActive'
      OBVIOUS
    <2> USE DEF tables, ghosts, SessionsNeedActive
    <2>0. account \in Account
      BY DEF TypeOK
    <2>r. /\ Failed(account).active = account.active
          /\ ClearFailedLogins(account).active = account.active
      BY <2>0, AccountRows
    <2>1. ASSUME NEW r \in Requests, Handle(r)
          PROVE  SessionsNeedActive'
      <3>1. CASE CreateSession(r)
        BY <3>1 DEF CreateSession, MayOpen
      <3>2. CASE ~CreateSession(r)
        <4>1. session' = session
          BY <2>1, <3>2 DEF Handle, BeginLogin, RecordFailedLogin, IssueMFAToken, NoMFAEnrolled,
             ResolveMFAToken, WrongFactor, SpendTOTP, SpendRecoveryCode, FinishPushLogin,
             ConsumeWebAuthnChallenge, VerifyAssertion, RegisterMFAFailure, SpendMFAToken, Abandon,
             BeginStepUp, StepUpGranted
        <4>2. \/ account' = account
              \/ account' = Failed(account)
              \/ account' = ClearFailedLogins(account)
              \/ \E c : account' = [account EXCEPT !.last = c]
              \/ \E c : account' = [account EXCEPT !.codes = c]
          BY <2>0, <2>1, <3>2 DEF Handle, BeginLogin, RecordFailedLogin, IssueMFAToken,
             NoMFAEnrolled, ResolveMFAToken, WrongFactor, SpendTOTP, SpendRecoveryCode,
             FinishPushLogin, ConsumeWebAuthnChallenge, VerifyAssertion, RegisterMFAFailure,
             SpendMFAToken, Abandon, BeginStepUp, StepUpGranted
        <4>3. account'.active = account.active
          BY <2>0, <2>r, <4>2, OtherColumns
        <4> QED
          BY <4>1, <4>3
      <3> QED
        BY <3>1, <3>2
    <2>2. ASSUME NEW t \in Tokens, \/ BeginPasskeyLogin(t)
                                   \/ \E a \in {"approved", "none"} : RespondPush(t, a)
          PROVE  SessionsNeedActive'
      BY <2>2 DEF BeginPasskeyLogin, RespondPush
    <2>3. CASE LockoutLapses
      BY <2>0, <2>3, OtherColumns DEF LockoutLapses
    <2>5. CASE ResetUserMFA \/ DisableUser \/ ChangePassword
      BY <2>5 DEF ResetUserMFA, DisableUser, ChangePassword
    <2>6. CASE EnableUser
      BY <2>6 DEF EnableUser
    <2>7. CASE GenerateRecoveryCodes
      BY <2>0, <2>7, OtherColumns DEF GenerateRecoveryCodes
    <2>8. CASE ChangeDevices
      BY <2>0, <2>8, OtherColumns DEF ChangeDevices
    <2>9. ASSUME NEW s \in session, Logout(s) \/ EnableTOTP(s)
          PROVE  SessionsNeedActive'
      BY <2>0, <2>9, OtherColumns DEF Logout, EnableTOTP
    <2>10. CASE UNCHANGED vars
      BY <2>10 DEF vars
    <2> QED
      BY <2>1, <2>2, <2>3, <2>5, <2>6, <2>7, <2>8, <2>9, <2>10 DEF Next
  <1> QED
    BY <1>1, <1>2, TypeCorrect, PTL DEF Spec

-----------------------------------------------------------------------------
(* One session per token                                                   *)

Opening(r, t) == req[r].at = "open" /\ req[r].token = t

\* A request that is about to open a session for a token is the only one, has spent the token,
\* and the token has opened none so far; once it has, the token is used. A request in the
\* password step has no token.
OneTaker ==
    /\ \A t \in Tokens :
          /\ opened[t] = 0 \/ (opened[t] = 1 /\ token[t].used)
          /\ \A r \in Requests : Opening(r, t) => token[t].used /\ opened[t] = 0
          /\ \A r, q \in Requests : Opening(r, t) /\ Opening(q, t) => r = q
    /\ \A r \in Requests : req[r].at = "password" => req[r].token = None

\* Steps that neither spend a token nor open a session start no opening.
LEMMA NothingTaken ==
    ASSUME TypeOK, OneTaker, opened' = opened,
           \A t \in Tokens : token'[t].used = token[t].used,
           NEW r \in Requests, NEW q, Goes(r, q), q.at \in Stages,
           q.at = "open" => q.token = None,
           q.at = "password" => q.token = None
    PROVE  OneTaker'
  BY NoneIsNothing DEF TypeOK, OneTaker, Opening, Goes

\* The other writes to mfa_tokens leave used_at alone.
LEMMA UsedStays ==
    ASSUME TypeOK, NEW t \in Tokens,
           \/ token' = token
           \/ token' = [token EXCEPT ![t].issued = TRUE]
           \/ token' = [token EXCEPT ![t].attempts = @ + 1]
    PROVE  \A u \in Tokens : token'[u].used = token[u].used
  BY DEF TypeOK

LEMMA OneTakerHandle ==
    ASSUME TypeOK, OneTaker, NEW r \in Requests, Handle(r)
    PROVE  OneTaker'
  <1> USE DEF tables, ghosts, Ends
  <1>0. /\ req[r] \in Request /\ Carrying(req[r])
        /\ req \in [Requests -> Request]
    BY TypeParts
  <1>1. CASE SpendMFAToken(r)
    <2> DEFINE t == req[r].token
    <2>1. t \in Tokens
      BY <1>0, <1>1 DEF SpendMFAToken, Carrying, Request
    <2>2. ~token[t].used
      BY <1>1 DEF SpendMFAToken, ConsumeMFAToken
    <2>3. /\ \A u \in Tokens : u # t => token'[u].used = token[u].used
          /\ token'[t].used
      BY <1>1, <2>1 DEF SpendMFAToken, TypeOK
    <2>4. opened' = opened
      BY <1>1 DEF SpendMFAToken
    <2>5. req' = [req EXCEPT ![r] = [req[r] EXCEPT !.at = "open", !.by = ""]]
      BY <1>1 DEF SpendMFAToken, Goes
    <2>6. req'[r].at = "open" /\ req'[r].token = t
      BY <1>0, <2>5 DEF Request
    <2>7. \A p \in Requests : p # r => req'[p] = req[p]
      BY <1>0, <2>5
    <2>8. \A p \in Requests : ~Opening(p, t)
      BY <2>1, <2>2 DEF OneTaker
    <2>9. opened[t] = 0
      BY <2>1, <2>2 DEF OneTaker
    <2> QED
      BY <2>1, <2>3, <2>4, <2>6, <2>7, <2>8, <2>9 DEF OneTaker, Opening
  <1>3. ASSUME NEW q, Goes(r, q), q.at \in Stages, q.at = "open" => q.token = None,
               q.at = "password" => q.token = None, opened' = opened,
               \A u \in Tokens : token'[u].used = token[u].used
        PROVE  OneTaker'
    BY <1>3, NothingTaken
  <1>4. /\ Idle.at = "idle" /\ "idle" \in Stages
        /\ \A at \in {"missed", "asserted"} : [req[r] EXCEPT !.at = at].at = at
        /\ \A by \in Handlers : [req[r] EXCEPT !.at = "proved", !.by = by].at = "proved"
        /\ {"missed", "asserted", "proved", "resolved", "password", "open", "reauth"} \subseteq Stages
        /\ [Idle EXCEPT !.at = "reauth"].at = "reauth"
        /\ [Idle EXCEPT !.at = "password"].at = "password"
        /\ [Idle EXCEPT !.at = "password"].token = None
        /\ \A t : [Idle EXCEPT !.at = "resolved", !.token = t].at = "resolved"
        /\ [req[r] EXCEPT !.at = "open"].at = "open"
        /\ [req[r] EXCEPT !.at = "open"].token = req[r].token
    BY <1>0 DEF Idle, Stages, Request
  <1>2. CASE CreateSession(r)
    <2>1. /\ req'[r] = Idle
          /\ \A p \in Requests : p # r => req'[p] = req[p]
      BY <1>0, <1>2 DEF CreateSession, Goes
    <2>2. token' = token
      BY <1>2 DEF CreateSession
    <2>3. \A t \in Tokens : opened'[t] = IF Opening(r, t) THEN opened[t] + 1 ELSE opened[t]
      BY <1>2 DEF CreateSession, Opening, TypeOK
    <2>4. ASSUME NEW t \in Tokens, NEW p \in Requests, Opening(p, t)'
          PROVE  p # r /\ Opening(p, t)
      <3>1. req'[p].at = "open" /\ req'[p].token = t
        BY <2>4 DEF Opening
      <3>2. p # r
        BY <1>4, <2>1, <3>1
      <3>3. req'[p] = req[p]
        BY <2>1, <3>2
      <3> QED
        BY <3>1, <3>2, <3>3 DEF Opening
    <2>5. ASSUME NEW p \in Requests, req'[p].at = "password"
          PROVE  req'[p].token = None
      <3>1. p # r
        BY <1>4, <2>1, <2>5
      <3>2. req'[p] = req[p]
        BY <2>1, <3>1
      <3> QED
        BY <2>5, <3>2, Zenon DEF OneTaker
    <2>6. ASSUME NEW t \in Tokens, Opening(r, t)
          PROVE  /\ opened'[t] = 1 /\ token'[t].used
                 /\ \A p \in Requests : ~Opening(p, t)'
      <3>1. opened[t] = 0 /\ token[t].used
        BY <2>6 DEF OneTaker
      <3>2. \A p \in Requests : Opening(p, t) => p = r
        BY <2>6 DEF OneTaker
      <3>3. opened'[t] = 1
        BY <2>3, <2>6, <3>1
      <3> QED
        BY <2>2, <2>4, <3>1, <3>2, <3>3
    <2>7. ASSUME NEW t \in Tokens, ~Opening(r, t)
          PROVE  opened'[t] = opened[t] /\ token'[t].used = token[t].used
      BY <2>2, <2>3, <2>7
    <2>8. ASSUME NEW t \in Tokens
          PROVE  /\ opened'[t] = 0 \/ (opened'[t] = 1 /\ token'[t].used)
                 /\ \A p \in Requests : Opening(p, t)' => token'[t].used /\ opened'[t] = 0
                 /\ \A p, q \in Requests : Opening(p, t)' /\ Opening(q, t)' => p = q
      <3>1. CASE Opening(r, t)
        BY <2>6, <3>1
      <3>2. CASE ~Opening(r, t)
        BY <2>4, <2>7, <3>2, Zenon DEF OneTaker
      <3> QED
        BY <3>1, <3>2
    <2> QED
      BY <2>5, <2>8 DEF OneTaker
  <1>5. CASE BeginLogin(r)
    <2> DEFINE q == [Idle EXCEPT !.at = "password"]
    <2>1. q.at = "password" /\ q.token = None /\ "password" \in Stages
      BY <1>4
    <2>2. Goes(r, q) /\ opened' = opened /\ token' = token
      BY <1>5 DEF BeginLogin
    <2> HIDE DEF q
    <2> QED
      BY <1>3, <2>1, <2>2
  <1>6. CASE NoMFAEnrolled(r)
    <2> DEFINE q == [req[r] EXCEPT !.at = "open"]
    <2>1. q.at = "open" /\ q.token = req[r].token /\ "open" \in Stages
      BY <1>4
    <2>2. req[r].token = None
      BY <1>6 DEF NoMFAEnrolled, OneTaker
    <2>3. Goes(r, q) /\ opened' = opened /\ token' = token
      BY <1>6 DEF NoMFAEnrolled
    <2> HIDE DEF q
    <2> QED
      BY <1>3, <2>1, <2>2, <2>3
  <1>7. CASE RecordFailedLogin(r) \/ Abandon(r)
    BY <1>3, <1>4, <1>7 DEF RecordFailedLogin, Abandon
  <1>8. CASE IssueMFAToken(r)
    <2>1. \A u \in Tokens : token'[u].used = token[u].used
      BY <1>8, UsedStays DEF IssueMFAToken
    <2> QED
      BY <1>3, <1>4, <1>8, <2>1 DEF IssueMFAToken
  <1>9. CASE \E t \in Tokens : ResolveMFAToken(r, t)
    <2>1. PICK t \in Tokens : ResolveMFAToken(r, t)
      BY <1>9
    <2> DEFINE q == [Idle EXCEPT !.at = "resolved", !.token = t]
    <2>2. q.at = "resolved" /\ "resolved" \in Stages
      BY <1>4
    <2>3. Goes(r, q) /\ opened' = opened /\ token' = token
      BY <2>1 DEF ResolveMFAToken
    <2> HIDE DEF q
    <2> QED
      BY <1>3, <2>2, <2>3
  <1>10. CASE WrongFactor(r) \/ ConsumeWebAuthnChallenge(r)
    BY <1>3, <1>4, <1>10, ZenonT(30) DEF WrongFactor, Missed, ConsumeWebAuthnChallenge
  <1>11. CASE \/ \E c \in Steps : SpendTOTP(r, c)
              \/ \E k \in Codes : SpendRecoveryCode(r, k)
              \/ \E c \in Tokens : FinishPushLogin(r, c)
              \/ VerifyAssertion(r)
    <2>1. opened' = opened /\ token' = token
      BY <1>11, Proofs
    <2>2. PICK q \in Request : Goes(r, q) /\ q.at \in {"granted", "proved"}
      BY <1>0, <1>11, Proofs, ProvedMoves
    <2> QED
      BY <1>3, <2>1, <2>2 DEF Stages
  <1>12. CASE RegisterMFAFailure(r)
    <2>1. req[r].token \in Tokens
      BY <1>0, <1>12 DEF RegisterMFAFailure, Carrying, Request
    <2>2. \A u \in Tokens : token'[u].used = token[u].used
      BY <1>12, <2>1, UsedStays DEF RegisterMFAFailure
    <2> QED
      BY <1>3, <1>4, <1>12, <2>2 DEF RegisterMFAFailure
  <1>13. CASE BeginStepUp(r)
    <2> DEFINE q == [Idle EXCEPT !.at = "reauth"]
    <2>1. q.at = "reauth" /\ "reauth" \in Stages
      BY <1>4
    <2>2. Goes(r, q) /\ opened' = opened /\ token' = token
      BY <1>13 DEF BeginStepUp
    <2> HIDE DEF q
    <2> QED
      BY <1>3, <2>1, <2>2
  <1>14. CASE StepUpGranted(r)
    <2>1. Goes(r, Idle) /\ opened' = opened /\ token' = token
      BY <1>14 DEF StepUpGranted
    <2> QED
      BY <1>3, <1>4, <2>1
  <1> QED
    BY <1>1, <1>2, <1>14, <1>5, <1>6, <1>7, <1>8, <1>9, <1>10, <1>11, <1>12, <1>13 DEF Handle

\* "A losing racer gets no session": a token opens at most one, whatever the number of requests
\* that prove a factor for it, and whatever else happens to the account meanwhile.
THEOREM TokenOpensOneSessionAlways == Spec => []TokenOpensOneSession
  <1>1. Init => OneTaker
    <2> SUFFICES ASSUME Init PROVE OneTaker
      OBVIOUS
    <2>1. \A r \in Requests : req[r].at = "idle"
      BY DEF Init, Idle
    <2>2. \A t \in Tokens : opened[t] = 0
      BY DEF Init
    <2> QED
      BY <2>1, <2>2, Zenon DEF OneTaker, Opening
  <1>2. TypeOK /\ OneTaker /\ [Next]_vars => OneTaker'
    <2> SUFFICES ASSUME TypeOK, OneTaker, [Next]_vars PROVE OneTaker'
      OBVIOUS
    <2>1. CASE \E r \in Requests : Handle(r)
      BY <2>1, OneTakerHandle
    <2>2. CASE UNCHANGED <<req, token, opened>>
      BY <2>2 DEF OneTaker, Opening
    <2>3. \/ \E r \in Requests : Handle(r)
          \/ UNCHANGED <<req, token, opened>>
      BY DEF Next, vars, tables, ghosts, BeginPasskeyLogin, RespondPush, LockoutLapses,
             ResetUserMFA, DisableUser, EnableUser, GenerateRecoveryCodes, ChangePassword,
             ChangeDevices, Logout, EnableTOTP
    <2> QED
      BY <2>1, <2>2, <2>3
  <1>3. TypeOK /\ OneTaker => TokenOpensOneSession
    BY DEF OneTaker, TokenOpensOneSession, TypeOK
  <1> QED
    BY <1>1, <1>2, <1>3, TypeCorrect, PTL DEF Spec

-----------------------------------------------------------------------------
(* One-time codes                                                          *)

\* A code that was accepted cannot be accepted again: the counter has reached its step, or
\* the unused recovery codes do not hold it.
Spent ==
    /\ \A c \in Steps : uses[c] = 0 \/ (uses[c] = 1 /\ c <= account.last)
    /\ \A k \in Codes : uses[k] = 0 \/ (uses[k] = 1 /\ k \notin account.codes)

\* What a step may do to the codes.
KeepsCodes ==
    uses' = uses /\ account'.last = account.last /\ account'.codes = account.codes
TakesStep(c) ==
    /\ account.last < c /\ account'.last = c /\ account'.codes = account.codes
    /\ uses' = [uses EXCEPT ![c] = @ + 1]
TakesCode(k) ==
    /\ k \in account.codes /\ account'.codes = account.codes \ {k}
    /\ account'.last = account.last
    /\ uses' = [uses EXCEPT ![k] = @ + 1]
RenewsCodes ==
    /\ account'.last = account.last
    /\ uses' = [p \in OneTimeCodes |-> IF p \in Codes THEN 0 ELSE uses[p]]
RenewsAll == uses' = [p \in OneTimeCodes |-> 0]

LEMMA SpentStays ==
    ASSUME TypeOK, Spent,
           \/ KeepsCodes \/ RenewsCodes \/ RenewsAll
           \/ \E c \in Steps : TakesStep(c)
           \/ \E k \in Codes : TakesCode(k)
    PROVE  Spent'
  <1>1. /\ uses \in [OneTimeCodes -> Nat]
        /\ account.last \in 0 .. MaxStep
        /\ Steps \subseteq Nat /\ Steps \subseteq OneTimeCodes
        /\ Codes \subseteq OneTimeCodes
        /\ \A c \in Steps, k \in Codes : c # k
    BY BoundsAreNatural, CodesAreNoSteps DEF TypeOK, Account, Steps, OneTimeCodes
  <1>2. CASE KeepsCodes
    BY <1>2 DEF KeepsCodes, Spent
  <1>3. CASE RenewsCodes
    BY <1>1, <1>3 DEF RenewsCodes, Spent
  <1>4. CASE RenewsAll
    BY <1>1, <1>4 DEF RenewsAll, Spent
  <1>5. ASSUME NEW c \in Steps, TakesStep(c) PROVE Spent'
    <2>1. account'.last = c /\ account'.codes = account.codes /\ account.last < c
      BY <1>5 DEF TakesStep
    <2>2. uses[c] = 0
      BY <1>1, <2>1 DEF Spent
    <2>3. uses'[c] = 1 /\ \A p \in OneTimeCodes : p # c => uses'[p] = uses[p]
      BY <1>1, <1>5, <2>2 DEF TakesStep
    <2>4. ASSUME NEW d \in Steps
          PROVE  uses'[d] = 0 \/ (uses'[d] = 1 /\ d <= account'.last)
      BY <1>1, <2>1, <2>3 DEF Spent
    <2>5. ASSUME NEW k \in Codes
          PROVE  uses'[k] = 0 \/ (uses'[k] = 1 /\ k \notin account'.codes)
      BY <1>1, <2>1, <2>3 DEF Spent
    <2> QED
      BY <2>4, <2>5 DEF Spent
  <1>6. ASSUME NEW k \in Codes, TakesCode(k) PROVE Spent'
    <2>1. /\ k \in account.codes /\ account'.codes = account.codes \ {k}
          /\ account'.last = account.last
      BY <1>6 DEF TakesCode
    <2>2. uses[k] = 0
      BY <2>1 DEF Spent
    <2>3. uses'[k] = 1 /\ \A p \in OneTimeCodes : p # k => uses'[p] = uses[p]
      BY <1>1, <1>6, <2>2 DEF TakesCode
    <2>4. ASSUME NEW d \in Steps
          PROVE  uses'[d] = 0 \/ (uses'[d] = 1 /\ d <= account'.last)
      BY <1>1, <2>1, <2>3 DEF Spent
    <2>5. ASSUME NEW j \in Codes
          PROVE  uses'[j] = 0 \/ (uses'[j] = 1 /\ j \notin account'.codes)
      BY <1>1, <2>1, <2>3 DEF Spent
    <2> QED
      BY <2>4, <2>5 DEF Spent
  <1> QED
    BY <1>2, <1>3, <1>4, <1>5, <1>6

\* Writes to the columns that hold no codes.
LEMMA CodeColumns ==
    ASSUME NEW a \in Account, NEW b,
           \/ b = a
           \/ b = Failed(a)
           \/ b = ClearFailedLogins(a)
           \/ \E c : b = [a EXCEPT !.methods = c]
           \/ \E c : b = [a EXCEPT !.recent = c]
           \/ \E c : b = [a EXCEPT !.active = c]
    PROVE  b.last = a.last /\ b.codes = a.codes
  <1>1. CASE b = Failed(a) \/ b = ClearFailedLogins(a)
    BY <1>1, AccountRows
  <1>2. CASE ~(b = Failed(a) \/ b = ClearFailedLogins(a))
    BY <1>2 DEF Account
  <1> QED
    BY <1>1, <1>2

\* Writes to one of the columns that do.
LEMMA CodeWrites ==
    ASSUME NEW a \in Account, NEW x
    PROVE  /\ [a EXCEPT !.last = x].last = x /\ [a EXCEPT !.last = x].codes = a.codes
           /\ [a EXCEPT !.codes = x].codes = x /\ [a EXCEPT !.codes = x].last = a.last
  BY DEF Account

\* A TOTP step and a recovery code are accepted at most once between two enrolments, by
\* sign-ins and step-ups together.
THEOREM CodesUsedOnceAlways == Spec => []CodesUsedOnce
  <1>1. Init => Spent
    BY DEF Init, Spent, OneTimeCodes
  <1>2. TypeOK /\ Spent /\ [Next]_vars => Spent'
    <2> SUFFICES ASSUME TypeOK, Spent, [Next]_vars PROVE Spent'
      OBVIOUS
    <2> USE DEF tables, ghosts
    <2>0. account \in Account
      BY DEF TypeOK
    <2>1. ASSUME NEW r \in Requests, Handle(r)
          PROVE  Spent'
      <3>1. CASE \E c \in Steps : SpendTOTP(r, c)
        <4>1. PICK c \in Steps : SpendTOTP(r, c)
          BY <3>1
        <4>2. TakesStep(c)
          BY <2>0, <4>1, CodeWrites DEF SpendTOTP, ConsumeTOTPCounter, TakesStep
        <4> QED
          BY <4>2, SpentStays
      <3>2. CASE \E k \in Codes : SpendRecoveryCode(r, k)
        <4>1. PICK k \in Codes : SpendRecoveryCode(r, k)
          BY <3>2
        <4>2. account' = [account EXCEPT !.codes = account.codes \ {k}]
          BY <2>0, <4>1 DEF SpendRecoveryCode, Account
        <4>3. TakesCode(k)
          BY <2>0, <4>1, <4>2, CodeWrites DEF SpendRecoveryCode, TakesCode
        <4> QED
          BY <4>3, SpentStays
      <3>3. CASE ~(\/ \E c \in Steps : SpendTOTP(r, c)
                   \/ \E k \in Codes : SpendRecoveryCode(r, k))
        <4>1. uses' = uses
          BY <2>1, <3>3 DEF Handle, BeginLogin, RecordFailedLogin, IssueMFAToken, NoMFAEnrolled,
             ResolveMFAToken, WrongFactor, FinishPushLogin, ConsumeWebAuthnChallenge,
             VerifyAssertion, RegisterMFAFailure, SpendMFAToken, CreateSession, Abandon,
             BeginStepUp, StepUpGranted
        <4>2. \/ account' = account
              \/ account' = Failed(account)
              \/ account' = ClearFailedLogins(account)
          BY <2>1, <3>3 DEF Handle, BeginLogin, RecordFailedLogin, IssueMFAToken, NoMFAEnrolled,
             ResolveMFAToken, WrongFactor, FinishPushLogin, ConsumeWebAuthnChallenge,
             VerifyAssertion, RegisterMFAFailure, SpendMFAToken, CreateSession, Abandon,
             BeginStepUp, StepUpGranted
        <4>3. KeepsCodes
          BY <2>0, <4>1, <4>2, CodeColumns DEF KeepsCodes
        <4> QED
          BY <4>3, SpentStays
      <3> QED
        BY <3>1, <3>2, <3>3
    <2>3. CASE ResetUserMFA \/ \E s \in session : EnableTOTP(s)
      <3>1. RenewsAll
        BY <2>3 DEF ResetUserMFA, EnableTOTP, RenewsAll
      <3> QED
        BY <3>1, SpentStays
    <2>4. CASE GenerateRecoveryCodes
      <3>1. RenewsCodes
        BY <2>0, <2>4, CodeWrites DEF GenerateRecoveryCodes, RenewsCodes
      <3> QED
        BY <3>1, SpentStays
    <2>5. CASE \/ \E t \in Tokens : BeginPasskeyLogin(t)
               \/ \E t \in Tokens, a \in {"approved", "none"} : RespondPush(t, a)
               \/ LockoutLapses \/ DisableUser \/ EnableUser \/ ChangePassword \/ ChangeDevices
               \/ \E s \in session : Logout(s)
               \/ UNCHANGED vars
      <3>1. uses' = uses
        BY <2>5 DEF BeginPasskeyLogin, RespondPush, LockoutLapses, DisableUser, EnableUser,
                    ChangePassword, ChangeDevices, Logout, vars
      <3>2. \/ account' = account
            \/ account' = ClearFailedLogins(account)
            \/ \E c : account' = [account EXCEPT !.methods = c]
            \/ \E c : account' = [account EXCEPT !.recent = c]
            \/ \E c : account' = [account EXCEPT !.active = c]
        BY <2>5 DEF BeginPasskeyLogin, RespondPush, LockoutLapses, DisableUser, EnableUser,
                    ChangePassword, ChangeDevices, Logout, vars
      <3>3. KeepsCodes
        BY <2>0, <3>1, <3>2, CodeColumns DEF KeepsCodes
      <3> QED
        BY <3>3, SpentStays
    <2> QED
      BY <2>1, <2>3, <2>4, <2>5 DEF Next
  <1>3. Spent => CodesUsedOnce
    BY DEF Spent, CodesUsedOnce, OneTimeCodes
  <1> QED
    BY <1>1, <1>2, <1>3, TypeCorrect, PTL DEF Spec

-----------------------------------------------------------------------------
(* Guessing                                                                *)

\* Requests that may still count a wrong factor against a token, those that have just missed,
\* and sign-ins and step-ups that are past the lockout check.
Trying(t) ==
    {r \in Requests : req[r].at \in {"resolved", "asserted", "missed"} /\ req[r].token = t}
Missing(t) == {r \in Requests : req[r].at = "missed" /\ req[r].token = t}
Entering == {r \in Requests : req[r].at \in {"password", "reauth"}}

\* A miss is charged to its token or about to be, and a token is resolved while attempts are left.
Charged ==
    \A t \in Tokens :
       /\ guesses[t] = token[t].attempts + Cardinality(Missing(t))
       /\ token[t].attempts + Cardinality(Trying(t)) < MaxAttempts + Cardinality(Requests)

\* The count of the account is the number of failures, or it has reached the limit.
Locking ==
    /\ ~account.recent => wrong = 0
    /\ account.recent /\ account.failures < MaxFailed => wrong <= account.failures
    /\ wrong + Cardinality(Entering) < MaxFailed + Cardinality(Requests)

\* An approval stays with the sign-in it was given to.
Approved ==
    /\ \A t \in Tokens : challenge[t] # "none" => token[t].issued
    /\ \A r \in Requests :
          req[r].by = "push" => req[r].at = "proved" /\ challenge[req[r].token] = "approved"

LEMMA Counts ==
    ASSUME NEW S \in SUBSET Requests, NEW r \in Requests
    PROVE  /\ Cardinality(S) \in Nat /\ Cardinality(Requests) \in Nat
           /\ Cardinality(S) <= Cardinality(Requests)
           /\ S \ {r} \in SUBSET Requests /\ S \cup {r} \in SUBSET Requests
           /\ Cardinality(S \ {r}) = IF r \in S THEN Cardinality(S) - 1 ELSE Cardinality(S)
           /\ Cardinality(S \cup {r}) = IF r \in S THEN Cardinality(S) ELSE Cardinality(S) + 1
  <1>1. IsFiniteSet(S) /\ Cardinality(S) <= Cardinality(Requests)
    BY RequestsAreFinite, FS_Subset
  <1>2. Cardinality(S) \in Nat /\ Cardinality(Requests) \in Nat
    BY <1>1, RequestsAreFinite, FS_CardinalityType
  <1>3. Cardinality(S \ {r}) = IF r \in S THEN Cardinality(S) - 1 ELSE Cardinality(S)
    <2>1. CASE r \in S
      BY <1>1, <2>1, FS_RemoveElement
    <2>2. CASE r \notin S
      <3>1. S \ {r} = S
        BY <2>2
      <3> QED
        BY <2>2, <3>1
    <2> QED
      BY <2>1, <2>2
  <1>4. Cardinality(S \cup {r}) = IF r \in S THEN Cardinality(S) ELSE Cardinality(S) + 1
    <2>1. CASE r \in S
      <3>1. S \cup {r} = S
        BY <2>1
      <3> QED
        BY <2>1, <3>1
    <2>2. CASE r \notin S
      BY <1>1, <2>2, FS_AddElement
    <2> QED
      BY <2>1, <2>2
  <1> QED
    BY <1>1, <1>2, <1>3, <1>4

LEMMA RequestSets ==
    \A t : /\ Trying(t) \in SUBSET Requests /\ Missing(t) \in SUBSET Requests
           /\ Entering \in SUBSET Requests
  BY DEF Trying, Missing, Entering

\* What a request that moves on adds to and takes from each of the sets.
LEMMA SetsMove ==
    ASSUME req \in [Requests -> Request], NEW r \in Requests, NEW q, Goes(r, q), NEW t
    PROVE  /\ Trying(t)' = IF q.at \in {"resolved", "asserted", "missed"} /\ q.token = t
                           THEN Trying(t) \cup {r} ELSE Trying(t) \ {r}
           /\ Missing(t)' = IF q.at = "missed" /\ q.token = t
                            THEN Missing(t) \cup {r} ELSE Missing(t) \ {r}
           /\ Entering' = IF q.at \in {"password", "reauth"} THEN Entering \cup {r} ELSE Entering \ {r}
  BY DEF Goes, Trying, Missing, Entering

\* How a step of a request counts.
LEMMA HandleCounts ==
    ASSUME TypeOK, NEW r \in Requests, Handle(r)
    PROVE  \E q \in Request :
              /\ Goes(r, q)
              /\ \/ /\ q.at \notin {"missed", "resolved"} /\ req[r].at # "missed"
                    /\ q.at = "asserted" => req[r].at = "resolved" /\ q.token = req[r].token
                    /\ guesses' = guesses
                    /\ \A t \in Tokens : token'[t].attempts = token[t].attempts
                 \/ /\ q.at = "resolved" /\ req[r].at = "idle" /\ q.token \in Tokens
                    /\ token[q.token].attempts < MaxAttempts
                    /\ UNCHANGED <<guesses, token>>
                 \/ /\ q.at = "missed" /\ req[r].at \in {"resolved", "asserted"}
                    /\ q.token = req[r].token /\ q.token \in Tokens /\ UNCHANGED token
                    /\ guesses' = [guesses EXCEPT ![q.token] = @ + 1]
                 \/ /\ q.at = "idle" /\ req[r].at = "missed" /\ UNCHANGED guesses
                    /\ req[r].token \in Tokens
                    /\ token' = [token EXCEPT ![req[r].token].attempts = @ + 1]
  <1> USE DEF tables, ghosts, Ends
  <1>0. /\ req[r] \in Request /\ Carrying(req[r])
        /\ token \in [Tokens -> [issued : BOOLEAN, used : BOOLEAN, attempts : Nat]]
    BY TypeParts DEF Rows
  <1>1. req[r].at \in {"resolved", "asserted", "missed", "proved"} => req[r].token \in Tokens
    BY <1>0 DEF Carrying, Request
  <1>2. Idle \in Request /\ Idle.at = "idle"
    BY RequestRows, <1>0 DEF Idle
  <1>3. CASE RecordFailedLogin(r) \/ CreateSession(r) \/ Abandon(r) \/ StepUpGranted(r)
    BY <1>2, <1>3 DEF RecordFailedLogin, CreateSession, Abandon, StepUpGranted
  <1>14. CASE BeginStepUp(r)
    <2> DEFINE q == [Idle EXCEPT !.at = "reauth"]
    <2>1. q \in Request /\ q.at = "reauth" /\ Goes(r, q)
      BY <1>0, <1>14, RequestRows DEF BeginStepUp, Idle
    <2>2. UNCHANGED <<guesses, token>> /\ req[r].at # "missed"
      BY <1>14 DEF BeginStepUp
    <2> HIDE DEF q
    <2> QED
      BY <2>1, <2>2
  <1>4. CASE BeginLogin(r)
    <2> DEFINE q == [Idle EXCEPT !.at = "password"]
    <2>1. q \in Request /\ q.at = "password" /\ Goes(r, q)
      BY <1>0, <1>4, RequestRows DEF BeginLogin, Idle
    <2>2. UNCHANGED <<guesses, token>> /\ req[r].at # "missed"
      BY <1>4 DEF BeginLogin
    <2> HIDE DEF q
    <2> QED
      BY <2>1, <2>2
  <1>5. CASE IssueMFAToken(r)
    <2>1. Goes(r, Idle) /\ guesses' = guesses /\ req[r].at # "missed"
      BY <1>5 DEF IssueMFAToken
    <2>2. PICK t \in Tokens : token' = [token EXCEPT ![t].issued = TRUE]
      BY <1>5 DEF IssueMFAToken
    <2>3. \A u \in Tokens : token'[u].attempts = token[u].attempts
      BY <1>0, <2>2
    <2> QED
      BY <1>2, <2>1, <2>3
  <1>6. CASE NoMFAEnrolled(r)
    <2> DEFINE q == [req[r] EXCEPT !.at = "open"]
    <2>1. q \in Request /\ q.at = "open" /\ Goes(r, q)
      BY <1>0, <1>6, RequestRows DEF NoMFAEnrolled, Request
    <2>2. UNCHANGED <<guesses, token>> /\ req[r].at # "missed"
      BY <1>6 DEF NoMFAEnrolled
    <2> HIDE DEF q
    <2> QED
      BY <2>1, <2>2
  <1>7. ASSUME NEW t \in Tokens, ResolveMFAToken(r, t)
        PROVE  \E q \in Request :
                 /\ Goes(r, q) /\ q.at = "resolved" /\ req[r].at = "idle" /\ q.token \in Tokens
                 /\ token[q.token].attempts < MaxAttempts
                 /\ UNCHANGED <<guesses, token>>
    <2> DEFINE q == [Idle EXCEPT !.at = "resolved", !.token = t]
    <2>1. q \in Request /\ q.at = "resolved" /\ q.token = t
      BY <1>0, RequestRows DEF Idle
    <2>2. Goes(r, q) /\ req[r].at = "idle" /\ UNCHANGED <<guesses, token>>
             /\ token[t].attempts < MaxAttempts
      BY <1>7 DEF ResolveMFAToken, Valid
    <2> HIDE DEF q
    <2> QED
      BY <2>1, <2>2
  <1>8. CASE WrongFactor(r)
    <2> DEFINE q == [req[r] EXCEPT !.at = "missed"]
    <2>1. req[r].at \in {"resolved", "asserted"} /\ req[r].token \in Tokens
      BY <1>1, <1>8 DEF WrongFactor
    <2>2. q \in Request /\ q.at = "missed" /\ q.token = req[r].token
      BY <1>0, <2>1, RequestRows, NoneIsNothing DEF Request
    <2>3. Goes(r, q) /\ UNCHANGED token /\ guesses' = [guesses EXCEPT ![req[r].token] = @ + 1]
      BY <1>8 DEF WrongFactor, Missed
    <2> HIDE DEF q
    <2> QED
      BY <2>1, <2>2, <2>3
  <1>9. CASE \/ \E c \in Steps : SpendTOTP(r, c)
             \/ \E k \in Codes : SpendRecoveryCode(r, k)
             \/ \E c \in Tokens : FinishPushLogin(r, c)
             \/ VerifyAssertion(r)
    <2>1. PICK q \in Request : Goes(r, q) /\ q.at \in {"granted", "proved"}
      BY <1>0, <1>9, Proofs, ProvedMoves
    <2>2. UNCHANGED <<guesses, token>> /\ req[r].at # "missed"
      BY <1>9, Proofs
    <2> QED
      BY <2>1, <2>2
  <1>10. CASE ConsumeWebAuthnChallenge(r)
    <2> DEFINE q == [req[r] EXCEPT !.at = "asserted"]
    <2>1. req[r].at = "resolved" /\ req[r].token \in Tokens /\ UNCHANGED <<guesses, token>>
      BY <1>1, <1>10 DEF ConsumeWebAuthnChallenge
    <2>2. q \in Request /\ q.at = "asserted" /\ q.token = req[r].token /\ Goes(r, q)
      BY <1>0, <1>10, <2>1, RequestRows, NoneIsNothing DEF ConsumeWebAuthnChallenge, Request
    <2> HIDE DEF q
    <2> QED
      BY <2>1, <2>2
  <1>11. CASE RegisterMFAFailure(r)
    BY <1>1, <1>2, <1>11 DEF RegisterMFAFailure
  <1>12. CASE SpendMFAToken(r)
    <2> DEFINE q == [req[r] EXCEPT !.at = "open", !.by = ""]
    <2>1. q \in Request /\ q.at = "open" /\ Goes(r, q)
      BY <1>0, <1>12, RequestRows DEF SpendMFAToken, Request
    <2>2. UNCHANGED guesses /\ req[r].at = "proved" /\ req[r].token \in Tokens
             /\ token' = [token EXCEPT ![req[r].token].used = TRUE]
      BY <1>1, <1>12 DEF SpendMFAToken
    <2>3. \A u \in Tokens : token'[u].attempts = token[u].attempts
      BY <1>0, <2>2
    <2> HIDE DEF q
    <2> QED
      BY <2>1, <2>2, <2>3
  <1>13. (\E t \in Tokens : ResolveMFAToken(r, t)) \/ WrongFactor(r) \/ RegisterMFAFailure(r)
            \/ BeginLogin(r) \/ RecordFailedLogin(r) \/ IssueMFAToken(r) \/ NoMFAEnrolled(r)
            \/ (\E c \in Steps : SpendTOTP(r, c)) \/ (\E k \in Codes : SpendRecoveryCode(r, k))
            \/ (\E c \in Tokens : FinishPushLogin(r, c)) \/ VerifyAssertion(r)
            \/ ConsumeWebAuthnChallenge(r) \/ SpendMFAToken(r) \/ CreateSession(r) \/ Abandon(r)
            \/ BeginStepUp(r) \/ StepUpGranted(r)
    BY DEF Handle
  <1> QED
    BY <1>14, <1>3, <1>4, <1>5, <1>6, <1>7, <1>8, <1>9, <1>10, <1>11, <1>12, <1>13

LEMMA ChargedHandle ==
    ASSUME TypeOK, Charged, NEW r \in Requests, Handle(r)
    PROVE  Charged'
  <1>1. PICK q \in Request :
              /\ Goes(r, q)
              /\ \/ /\ q.at \notin {"missed", "resolved"} /\ req[r].at # "missed"
                    /\ q.at = "asserted" => req[r].at = "resolved" /\ q.token = req[r].token
                    /\ guesses' = guesses
                    /\ \A t \in Tokens : token'[t].attempts = token[t].attempts
                 \/ /\ q.at = "resolved" /\ req[r].at = "idle" /\ q.token \in Tokens
                    /\ token[q.token].attempts < MaxAttempts
                    /\ UNCHANGED <<guesses, token>>
                 \/ /\ q.at = "missed" /\ req[r].at \in {"resolved", "asserted"}
                    /\ q.token = req[r].token /\ q.token \in Tokens /\ UNCHANGED token
                    /\ guesses' = [guesses EXCEPT ![q.token] = @ + 1]
                 \/ /\ q.at = "idle" /\ req[r].at = "missed" /\ UNCHANGED guesses
                    /\ req[r].token \in Tokens
                    /\ token' = [token EXCEPT ![req[r].token].attempts = @ + 1]
    BY HandleCounts
  <1>2. SUFFICES ASSUME NEW t \in Tokens
                 PROVE  /\ guesses'[t] = token'[t].attempts + Cardinality(Missing(t)')
                        /\ token'[t].attempts + Cardinality(Trying(t)')
                              < MaxAttempts + Cardinality(Requests)
    BY DEF Charged
  <1>3. /\ req \in [Requests -> Request] /\ guesses \in [Tokens -> Nat]
        /\ token \in [Tokens -> [issued : BOOLEAN, used : BOOLEAN, attempts : Nat]]
        /\ MaxAttempts \in Nat
    BY TypeParts, BoundsAreNatural DEF Rows
  <1> DEFINE M == Missing(t)
             T == Trying(t)
             a == token[t].attempts
  <1>4. /\ r \in M <=> req[r].at = "missed" /\ req[r].token = t
        /\ r \in T <=> req[r].at \in {"resolved", "asserted", "missed"} /\ req[r].token = t
    BY DEF Missing, Trying
  <1>5. /\ Missing(t)' = IF q.at = "missed" /\ q.token = t THEN M \cup {r} ELSE M \ {r}
        /\ Trying(t)' = IF q.at \in {"resolved", "asserted", "missed"} /\ q.token = t
                        THEN T \cup {r} ELSE T \ {r}
    BY <1>1, <1>3, SetsMove
  <1>6. /\ Cardinality(M) \in Nat /\ Cardinality(Requests) \in Nat
        /\ Cardinality(M \ {r}) = IF r \in M THEN Cardinality(M) - 1 ELSE Cardinality(M)
        /\ Cardinality(M \cup {r}) = IF r \in M THEN Cardinality(M) ELSE Cardinality(M) + 1
    BY Counts, RequestSets
  <1>7. /\ Cardinality(T) \in Nat
        /\ Cardinality(T \ {r}) = IF r \in T THEN Cardinality(T) - 1 ELSE Cardinality(T)
        /\ Cardinality(T \cup {r}) = IF r \in T THEN Cardinality(T) ELSE Cardinality(T) + 1
        /\ Cardinality(T \cup {r}) <= Cardinality(Requests)
    <2>1. T \in SUBSET Requests /\ T \cup {r} \in SUBSET Requests
      BY RequestSets
    <2> HIDE DEF T
    <2>2. Cardinality(T \cup {r}) <= Cardinality(Requests)
      BY <2>1, Counts
    <2> QED
      BY <2>1, <2>2, Counts
  <1>8. /\ guesses[t] = a + Cardinality(M) /\ a \in Nat /\ guesses[t] \in Nat
        /\ a + Cardinality(T) < MaxAttempts + Cardinality(Requests)
    BY <1>3 DEF Charged
  <1>9. CASE /\ q.at \notin {"missed", "resolved"} /\ req[r].at # "missed"
             /\ q.at = "asserted" => req[r].at = "resolved" /\ q.token = req[r].token
             /\ guesses' = guesses
             /\ \A u \in Tokens : token'[u].attempts = token[u].attempts
    <2>1. guesses'[t] = guesses[t] /\ token'[t].attempts = a
      BY <1>9
    <2>2. Cardinality(Missing(t)') = Cardinality(M)
      BY <1>4, <1>5, <1>6, <1>9
    <2>3. Cardinality(Trying(t)') \in {Cardinality(T), Cardinality(T) - 1}
      BY <1>4, <1>5, <1>7, <1>9
    <2> HIDE DEF M, T, a
    <2> QED
      BY <1>3, <1>6, <1>7, <1>8, <2>1, <2>2, <2>3
  <1>10. CASE /\ q.at = "resolved" /\ req[r].at = "idle" /\ q.token \in Tokens
              /\ token[q.token].attempts < MaxAttempts
              /\ UNCHANGED <<guesses, token>>
    <2>1. guesses'[t] = guesses[t] /\ token'[t].attempts = a
      BY <1>10
    <2>2. Cardinality(Missing(t)') = Cardinality(M)
      BY <1>4, <1>5, <1>6, <1>10
    <2>3. CASE q.token = t
      <3>1. Cardinality(Trying(t)') <= Cardinality(Requests) /\ Cardinality(Trying(t)') \in Nat
        BY <1>5, <1>7, <1>10, <2>3
      <3>2. a < MaxAttempts
        BY <1>10, <2>3
      <3> HIDE DEF M, T, a
      <3> QED
        BY <1>3, <1>6, <1>8, <2>1, <2>2, <3>1, <3>2
    <2>4. CASE q.token # t
      <3>1. Cardinality(Trying(t)') = Cardinality(T)
        BY <1>4, <1>5, <1>7, <1>10, <2>4
      <3> HIDE DEF M, T, a
      <3> QED
        BY <1>3, <1>6, <1>8, <2>1, <2>2, <3>1
    <2> QED
      BY <2>3, <2>4
  <1>11. CASE /\ q.at = "missed" /\ req[r].at \in {"resolved", "asserted"}
              /\ q.token = req[r].token /\ q.token \in Tokens /\ UNCHANGED token
              /\ guesses' = [guesses EXCEPT ![q.token] = @ + 1]
    <2>1. token'[t].attempts = a /\ Cardinality(Trying(t)') = Cardinality(T)
      BY <1>4, <1>5, <1>7, <1>11
    <2>2. CASE q.token = t
      <3>1. guesses'[t] = guesses[t] + 1 /\ Cardinality(Missing(t)') = Cardinality(M) + 1
        BY <1>3, <1>4, <1>5, <1>6, <1>11, <2>2
      <3> HIDE DEF M, T, a
      <3> QED
        BY <1>3, <1>6, <1>7, <1>8, <2>1, <3>1
    <2>3. CASE q.token # t
      <3>1. guesses'[t] = guesses[t] /\ Cardinality(Missing(t)') = Cardinality(M)
        BY <1>3, <1>4, <1>5, <1>6, <1>11, <2>3
      <3> HIDE DEF M, T, a
      <3> QED
        BY <1>3, <1>6, <1>7, <1>8, <2>1, <3>1
    <2> QED
      BY <2>2, <2>3
  <1>12. CASE /\ q.at = "idle" /\ req[r].at = "missed" /\ UNCHANGED guesses
              /\ req[r].token \in Tokens
              /\ token' = [token EXCEPT ![req[r].token].attempts = @ + 1]
    <2>1. guesses'[t] = guesses[t]
      BY <1>12
    <2>2. CASE req[r].token = t
      <3>1. token'[t].attempts = a + 1
        BY <1>3, <1>12, <2>2
      <3>2. /\ Cardinality(Missing(t)') = Cardinality(M) - 1
            /\ Cardinality(Trying(t)') = Cardinality(T) - 1
        BY <1>4, <1>5, <1>6, <1>7, <1>12, <2>2
      <3> HIDE DEF M, T, a
      <3> QED
        BY <1>3, <1>6, <1>7, <1>8, <2>1, <3>1, <3>2
    <2>3. CASE req[r].token # t
      <3>1. token'[t].attempts = a
        BY <1>3, <1>12, <2>3
      <3>2. /\ Cardinality(Missing(t)') = Cardinality(M)
            /\ Cardinality(Trying(t)') = Cardinality(T)
        BY <1>4, <1>5, <1>6, <1>7, <1>12, <2>3
      <3> HIDE DEF M, T, a
      <3> QED
        BY <1>3, <1>6, <1>7, <1>8, <2>1, <3>1, <3>2
    <2> QED
      BY <2>2, <2>3
  <1> QED
    BY <1>1, <1>9, <1>10, <1>11, <1>12

\* What a step that is no request's leaves alone.
LEMMA OtherSteps ==
    ASSUME [Next]_vars, ~ \E r \in Requests : Handle(r)
    PROVE  UNCHANGED <<req, token, guesses>>
  BY DEF Next, vars, tables, ghosts, BeginPasskeyLogin, RespondPush, LockoutLapses,
     ResetUserMFA, DisableUser, EnableUser, GenerateRecoveryCodes, ChangePassword, ChangeDevices,
     Logout, EnableTOTP

LEMMA ChargedStep ==
    ASSUME TypeOK, Charged, [Next]_vars
    PROVE  Charged'
  <1>1. CASE \E r \in Requests : Handle(r)
    BY <1>1, ChargedHandle
  <1>2. CASE ~ \E r \in Requests : Handle(r)
    <2>1. UNCHANGED <<req, token, guesses>>
      BY <1>2, OtherSteps
    <2>2. \A t : Missing(t)' = Missing(t) /\ Trying(t)' = Trying(t)
      BY <2>1 DEF Missing, Trying
    <2> QED
      BY <2>1, <2>2 DEF Charged
  <1> QED
    BY <1>1, <1>2

\* The three ways a step treats the count of failed logins: it leaves it, clears it or adds to it.
\* Only an account that is not locked takes a further sign-in, or a failure without one.
LeavesCount ==
    /\ account'.recent = account.recent /\ account'.failures = account.failures
    /\ wrong' = wrong
    /\ ~IsAccountLocked \/ Entering' \subseteq Entering
AddsToCount ==
    /\ account' = Failed(account) /\ wrong' = wrong + 1
    /\ \E r \in Entering : Entering' = Entering \ {r}

LEMMA FailedColumns ==
    ASSUME NEW a \in Account
    PROVE  /\ Failed(a).recent = TRUE
           /\ Failed(a).failures = IF a.failures < MaxFailed THEN a.failures + 1 ELSE a.failures
           /\ ClearFailedLogins(a).recent = FALSE /\ ClearFailedLogins(a).failures = 0
           /\ a.recent \in BOOLEAN /\ a.failures \in Nat /\ a.failures <= MaxFailed
  BY BoundsAreNatural DEF Failed, ClearFailedLogins, Account

LEMMA NotLocked ==
    ASSUME account \in Account, wrong \in Nat, Locking, ~IsAccountLocked
    PROVE  wrong <= MaxFailed - 1
  <1>1. /\ MaxFailed \in Nat /\ MaxFailed > 0 /\ account.failures \in Nat
        /\ account.recent \in BOOLEAN
    BY BoundsAreNatural, FailedColumns
  <1>2. CASE ~account.recent
    BY <1>1, <1>2 DEF Locking
  <1>3. CASE account.recent
    <2>1. account.failures < MaxFailed
      BY <1>1, <1>3 DEF IsAccountLocked
    <2>2. wrong <= account.failures
      BY <1>3, <2>1 DEF Locking
    <2> QED
      BY <1>1, <2>1, <2>2
  <1> QED
    BY <1>2, <1>3

LEMMA LockingKept ==
    ASSUME account \in Account, account' \in Account, wrong \in Nat, wrong' \in Nat, Locking,
           LeavesCount \/ wrong' = 0 \/ AddsToCount
    PROVE  Locking'
  <1>1. /\ MaxFailed \in Nat /\ MaxFailed > 0
        /\ account.failures \in Nat /\ account'.failures \in Nat
        /\ account.recent \in BOOLEAN
    BY BoundsAreNatural, FailedColumns
  <1>2. /\ Entering \in SUBSET Requests /\ Entering' \in SUBSET Requests
        /\ IsFiniteSet(Entering) /\ IsFiniteSet(Entering')
    <2>1. Entering \in SUBSET Requests /\ Entering' \in SUBSET Requests
      BY DEF Entering
    <2> QED
      BY <2>1, RequestsAreFinite, FS_Subset
  <1>3. /\ Cardinality(Entering) \in Nat /\ Cardinality(Entering') \in Nat
        /\ Cardinality(Requests) \in Nat
        /\ Cardinality(Entering') <= Cardinality(Requests)
    BY <1>2, RequestsAreFinite, FS_Subset, FS_CardinalityType
  <1>4. CASE wrong' = 0
    BY <1>1, <1>3, <1>4 DEF Locking
  <1>5. CASE LeavesCount
    <2>1. CASE ~IsAccountLocked
      <3>1. wrong <= MaxFailed - 1
        BY <2>1, NotLocked
      <3> QED
        BY <1>1, <1>3, <1>5, <3>1 DEF Locking, LeavesCount
    <2>2. CASE Entering' \subseteq Entering
      <3>1. Cardinality(Entering') <= Cardinality(Entering)
        BY <1>2, <2>2, FS_Subset
      <3> QED
        BY <1>1, <1>3, <1>5, <3>1 DEF Locking, LeavesCount
    <2> QED
      BY <1>5, <2>1, <2>2 DEF LeavesCount
  <1>6. CASE AddsToCount
    <2>1. /\ account'.recent = TRUE
          /\ account'.failures
                = IF account.failures < MaxFailed THEN account.failures + 1 ELSE account.failures
          /\ wrong' = wrong + 1
      BY <1>6, FailedColumns DEF AddsToCount
    <2>2. account'.failures < MaxFailed => wrong' <= account'.failures
      BY <1>1, <2>1 DEF Locking
    <2>3. PICK r \in Entering : Entering' = Entering \ {r}
      BY <1>6 DEF AddsToCount
    <2>4. Cardinality(Entering') = Cardinality(Entering) - 1
      BY <1>2, <2>3, FS_RemoveElement
    <2> QED
      BY <1>1, <1>3, <2>1, <2>2, <2>4 DEF Locking
  <1> QED
    BY <1>4, <1>5, <1>6

\* What the handlers write to the account besides the count.
LEMMA CountColumns ==
    ASSUME NEW a \in Account, NEW v
    PROVE  /\ [a EXCEPT !.last = v].recent = a.recent
           /\ [a EXCEPT !.last = v].failures = a.failures
           /\ [a EXCEPT !.codes = v].recent = a.recent
           /\ [a EXCEPT !.codes = v].failures = a.failures
           /\ [a EXCEPT !.methods = v].recent = a.recent
           /\ [a EXCEPT !.methods = v].failures = a.failures
           /\ [a EXCEPT !.active = v].recent = a.recent
           /\ [a EXCEPT !.active = v].failures = a.failures
           /\ \A m, k : /\ [a EXCEPT !.methods = m, !.codes = k].recent = a.recent
                        /\ [a EXCEPT !.methods = m, !.codes = k].failures = a.failures
                        /\ [a EXCEPT !.methods = m, !.codes = k, !.last = v].recent = a.recent
                        /\ [a EXCEPT !.methods = m, !.codes = k, !.last = v].failures = a.failures
  BY DEF Account

\* Only a login or a step-up that begins is added to those past the lockout check.
LEMMA OnlyBeginEnters ==
    ASSUME TypeOK, NEW r \in Requests, Handle(r)
    PROVE  \/ BeginLogin(r) \/ BeginStepUp(r)
           \/ \E q \in Request : Goes(r, q) /\ q.at \notin {"password", "reauth"}
  <1> USE DEF tables, ghosts, Ends
  <1>0. req[r] \in Request /\ Carrying(req[r])
    BY TypeParts
  <1>2. Idle \in Request /\ Idle.at \notin {"password", "reauth"}
    BY <1>0, RequestRows DEF Idle
  <1>3. req[r].at \in {"resolved", "asserted", "missed", "proved"} => req[r].token # None
    BY <1>0 DEF Carrying
  <1>4. CASE RecordFailedLogin(r) \/ IssueMFAToken(r) \/ RegisterMFAFailure(r) \/ CreateSession(r)
             \/ Abandon(r) \/ StepUpGranted(r)
    BY <1>2, <1>4 DEF RecordFailedLogin, IssueMFAToken, RegisterMFAFailure, CreateSession, Abandon,
       StepUpGranted
  <1>5. CASE NoMFAEnrolled(r)
    <2> DEFINE q == [req[r] EXCEPT !.at = "open"]
    <2>1. q \in Request /\ q.at = "open" /\ Goes(r, q)
      BY <1>0, <1>5, RequestRows DEF NoMFAEnrolled, Request
    <2> HIDE DEF q
    <2> QED
      BY <2>1
  <1>6. ASSUME NEW t \in Tokens, ResolveMFAToken(r, t)
        PROVE  \E q \in Request : Goes(r, q) /\ q.at \notin {"password", "reauth"}
    <2> DEFINE q == [Idle EXCEPT !.at = "resolved", !.token = t]
    <2>1. q \in Request /\ q.at = "resolved"
      BY <1>0, RequestRows DEF Idle
    <2>2. Goes(r, q)
      BY <1>6 DEF ResolveMFAToken
    <2> HIDE DEF q
    <2> QED
      BY <2>1, <2>2
  <1>7. CASE WrongFactor(r)
    <2> DEFINE q == [req[r] EXCEPT !.at = "missed"]
    <2>1. req[r].token # None
      BY <1>3, <1>7 DEF WrongFactor
    <2>2. q \in Request /\ q.at = "missed"
      BY <1>0, <2>1, RequestRows DEF Request
    <2>3. Goes(r, q)
      BY <1>7 DEF WrongFactor, Missed
    <2> HIDE DEF q
    <2> QED
      BY <2>2, <2>3
  <1>8. CASE \/ \E c \in Steps : SpendTOTP(r, c)
             \/ \E k \in Codes : SpendRecoveryCode(r, k)
             \/ \E c \in Tokens : FinishPushLogin(r, c)
             \/ VerifyAssertion(r)
    <2>1. PICK q \in Request : Goes(r, q) /\ q.at \in {"granted", "proved"}
      BY <1>0, <1>8, Proofs, ProvedMoves
    <2> QED
      BY <2>1
  <1>9. CASE ConsumeWebAuthnChallenge(r)
    <2> DEFINE q == [req[r] EXCEPT !.at = "asserted"]
    <2>1. req[r].token # None
      BY <1>3, <1>9 DEF ConsumeWebAuthnChallenge
    <2>2. q \in Request /\ q.at = "asserted" /\ Goes(r, q)
      BY <1>0, <1>9, <2>1, RequestRows DEF ConsumeWebAuthnChallenge, Request
    <2> HIDE DEF q
    <2> QED
      BY <2>2
  <1>10. CASE SpendMFAToken(r)
    <2> DEFINE q == [req[r] EXCEPT !.at = "open", !.by = ""]
    <2>1. q \in Request /\ q.at = "open" /\ Goes(r, q)
      BY <1>0, <1>10, RequestRows DEF SpendMFAToken, Request
    <2> HIDE DEF q
    <2> QED
      BY <2>1
  <1> QED
    BY <1>4, <1>5, <1>6, <1>7, <1>8, <1>9, <1>10 DEF Handle

LEMMA LockingHandle ==
    ASSUME TypeOK, NEW r \in Requests, Handle(r)
    PROVE  LeavesCount \/ wrong' = 0 \/ AddsToCount
  <1>0. /\ account \in Account
        /\ r \in Entering <=> req[r].at \in {"password", "reauth"}
    BY TypeParts DEF Entering
  <1> DEFINE begins == BeginLogin(r) \/ BeginStepUp(r)
  <1>1. ~begins => Entering' \subseteq Entering /\ Entering' = Entering \ {r}
    <2>1. SUFFICES ASSUME ~begins PROVE Entering' = Entering \ {r}
      OBVIOUS
    <2>2. PICK q \in Request : Goes(r, q) /\ q.at \notin {"password", "reauth"}
      BY <2>1, OnlyBeginEnters
    <2> QED
      BY <2>2, TypeParts, SetsMove
  <1> USE DEF tables, ghosts
  <1>2. CASE begins
    BY <1>2 DEF BeginLogin, BeginStepUp, LeavesCount
  <1>3. CASE RecordFailedLogin(r)
    <2>1. r \in Entering /\ ~begins
      BY <1>0, <1>3 DEF RecordFailedLogin, BeginLogin, BeginStepUp
    <2> QED
      BY <1>1, <1>3, <2>1 DEF RecordFailedLogin, AddsToCount
  <1>4. CASE IssueMFAToken(r) \/ NoMFAEnrolled(r) \/ StepUpGranted(r)
    BY <1>4 DEF IssueMFAToken, NoMFAEnrolled, StepUpGranted
  <1>5. CASE SpendMFAToken(r) /\ ~begins
    BY <1>1, <1>5 DEF SpendMFAToken, LeavesCount
  <1>6. CASE (\E c \in Steps : SpendTOTP(r, c)) /\ ~begins
    <2>1. (\E c : account' = [account EXCEPT !.last = c]) /\ wrong' = wrong
      BY <1>6 DEF SpendTOTP
    <2> QED
      BY <1>0, <1>1, <1>6, <2>1, CountColumns DEF LeavesCount
  <1>7. CASE (\E k \in Codes : SpendRecoveryCode(r, k)) /\ ~begins
    <2>1. (\E c : account' = [account EXCEPT !.codes = c]) /\ wrong' = wrong
      BY <1>7 DEF SpendRecoveryCode
    <2> QED
      BY <1>0, <1>1, <1>7, <2>1, CountColumns DEF LeavesCount
  <1>8. CASE /\ \/ WrongFactor(r) \/ (\E c \in Tokens : FinishPushLogin(r, c))
                \/ VerifyAssertion(r) \/ ConsumeWebAuthnChallenge(r)
                \/ (\E t \in Tokens : ResolveMFAToken(r, t))
                \/ RegisterMFAFailure(r) \/ CreateSession(r) \/ Abandon(r)
             /\ ~begins
    <2>1. account' = account /\ wrong' = wrong
      BY <1>8 DEF WrongFactor, FinishPushLogin, VerifyAssertion, ConsumeWebAuthnChallenge,
                  ResolveMFAToken, RegisterMFAFailure, CreateSession, Abandon
    <2> QED
      BY <1>1, <1>8, <2>1 DEF LeavesCount
  <1> QED
    BY <1>2, <1>3, <1>4, <1>5, <1>6, <1>7, <1>8 DEF Handle

LEMMA LockingOther ==
    ASSUME TypeOK, [Next]_vars, ~ \E r \in Requests : Handle(r)
    PROVE  LeavesCount \/ wrong' = 0 \/ AddsToCount
  <1>0. account \in Account
    BY TypeParts
  <1>1. Entering' = Entering
    BY OtherSteps DEF Entering
  <1>2. CASE LockoutLapses \/ ChangePassword
    BY <1>2 DEF LockoutLapses, ChangePassword
  <1>4. CASE ResetUserMFA
    BY <1>0, <1>1, <1>4, CountColumns DEF ResetUserMFA, LeavesCount
  <1>5. CASE DisableUser \/ EnableUser
    <2>1. (\E b : account' = [account EXCEPT !.active = b]) /\ wrong' = wrong
      BY <1>5 DEF DisableUser, EnableUser, ghosts
    <2> QED
      BY <1>0, <1>1, <2>1, CountColumns DEF LeavesCount
  <1>6. CASE GenerateRecoveryCodes
    BY <1>0, <1>1, <1>6, CountColumns DEF GenerateRecoveryCodes, LeavesCount
  <1>7. CASE ChangeDevices
    BY <1>0, <1>1, <1>7, CountColumns DEF ChangeDevices, LeavesCount, ghosts
  <1>8. CASE \E s \in session : EnableTOTP(s)
    BY <1>0, <1>1, <1>8, CountColumns DEF EnableTOTP, LeavesCount
  <1>9. CASE \/ \E t \in Tokens : BeginPasskeyLogin(t)
             \/ \E t \in Tokens, a \in {"approved", "none"} : RespondPush(t, a)
             \/ \E s \in session : Logout(s)
             \/ UNCHANGED vars
    BY <1>1, <1>9 DEF BeginPasskeyLogin, RespondPush, Logout, vars, ghosts, LeavesCount
  <1> QED
    BY <1>2, <1>4, <1>5, <1>6, <1>7, <1>8, <1>9 DEF Next

LEMMA LockingStep ==
    ASSUME TypeOK, TypeOK', Locking, [Next]_vars
    PROVE  Locking'
  <1>1. LeavesCount \/ wrong' = 0 \/ AddsToCount
    BY LockingHandle, LockingOther
  <1>2. /\ account \in Account /\ account' \in Account /\ wrong \in Nat /\ wrong' \in Nat
    BY DEF TypeOK
  <1> QED
    BY <1>1, <1>2, LockingKept

\* A challenge is made for a token that is issued with it, and an answer that was given stays.
LEMMA ChallengesStay ==
    ASSUME TypeOK, Approved, [Next]_vars
    PROVE  /\ \A t \in Tokens : challenge'[t] # "none" => token'[t].issued
           /\ \A t \in Tokens : challenge[t] = "approved" => challenge'[t] = "approved"
  <1> USE DEF tables, ghosts
  <1>0. /\ token \in [Tokens -> [issued : BOOLEAN, used : BOOLEAN, attempts : Nat]]
        /\ challenge \in [Tokens -> {"none", "pending", "approved"}]
        /\ \A r \in Requests : Carrying(req[r]) /\ req[r] \in Request
        /\ \A t \in Tokens : challenge[t] # "none" => token[t].issued
    BY TypeParts DEF Rows, Approved
  <1>1. CASE \E r \in Requests : IssueMFAToken(r)
    <2>1. PICK t \in Tokens, c \in {"pending", "none"} :
                 /\ ~token[t].issued
                 /\ token' = [token EXCEPT ![t].issued = TRUE]
                 /\ challenge' = [challenge EXCEPT ![t] = c]
      BY <1>1 DEF IssueMFAToken
    <2> QED
      BY <1>0, <2>1
  <1>2. CASE \E r \in Requests : RegisterMFAFailure(r) \/ SpendMFAToken(r)
    <2>1. PICK t \in Tokens : \/ token' = [token EXCEPT ![t].attempts = @ + 1]
                              \/ token' = [token EXCEPT ![t].used = TRUE]
      BY <1>0, <1>2 DEF RegisterMFAFailure, SpendMFAToken, Carrying, Request
    <2>2. \A u \in Tokens : token'[u].issued = token[u].issued
      BY <1>0, <2>1
    <2>3. challenge' = challenge
      BY <1>2 DEF RegisterMFAFailure, SpendMFAToken
    <2> QED
      BY <1>0, <2>2, <2>3
  <1>3. CASE \E t \in Tokens, a \in {"approved", "none"} : RespondPush(t, a)
    <2>1. PICK t \in Tokens, a \in {"approved", "none"} :
                 /\ challenge[t] = "pending" /\ token' = token
                 /\ challenge' = [challenge EXCEPT ![t] = a]
      BY <1>3 DEF RespondPush
    <2> QED
      BY <1>0, <2>1
  <1>4. CASE UNCHANGED <<token, challenge>>
    BY <1>0, <1>4
  <1>5. \/ \E r \in Requests : IssueMFAToken(r)
        \/ \E r \in Requests : RegisterMFAFailure(r) \/ SpendMFAToken(r)
        \/ \E t \in Tokens, a \in {"approved", "none"} : RespondPush(t, a)
        \/ UNCHANGED <<token, challenge>>
    BY DEF Next, Handle, vars, BeginLogin, RecordFailedLogin, NoMFAEnrolled, ResolveMFAToken,
       WrongFactor, SpendTOTP, SpendRecoveryCode, FinishPushLogin, ConsumeWebAuthnChallenge,
       VerifyAssertion, CreateSession, Abandon, BeginStepUp, StepUpGranted, BeginPasskeyLogin,
       LockoutLapses,
       ResetUserMFA, DisableUser, EnableUser, GenerateRecoveryCodes, ChangePassword,
       ChangeDevices, Logout, EnableTOTP
  <1> QED
    BY <1>1, <1>2, <1>3, <1>4, <1>5

\* A request that has proved a factor by push has done so with the challenge of its own token.
LEMMA ApprovedHandle ==
    ASSUME TypeOK, Approved, NEW r \in Requests, Handle(r)
    PROVE  \E q : /\ Goes(r, q)
                  /\ q.by = "push" => q.at = "proved" /\ challenge[q.token] = "approved"
  <1> USE DEF tables, ghosts, Ends
  <1>0. req[r] \in Request /\ (req[r].at # "proved" => req[r].by # "push")
    BY TypeParts DEF Approved
  <1>1. CASE BeginLogin(r) \/ BeginStepUp(r)
    <2>1. \A v : [Idle EXCEPT !.at = v].by = ""
      BY DEF Idle
    <2> QED
      BY <1>1, <2>1 DEF BeginLogin, BeginStepUp
  <1>2. CASE RecordFailedLogin(r) \/ IssueMFAToken(r) \/ RegisterMFAFailure(r) \/ CreateSession(r)
             \/ Abandon(r) \/ StepUpGranted(r)
    <2>1. Idle.by # "push"
      BY DEF Idle
    <2> QED
      BY <1>2, <2>1 DEF RecordFailedLogin, IssueMFAToken, RegisterMFAFailure, CreateSession,
                        Abandon, StepUpGranted
  <1>3. CASE NoMFAEnrolled(r) \/ WrongFactor(r) \/ ConsumeWebAuthnChallenge(r)
    <2>1. PICK v : Goes(r, [req[r] EXCEPT !.at = v])
      BY <1>3 DEF NoMFAEnrolled, WrongFactor, Missed, ConsumeWebAuthnChallenge
    <2>2. [req[r] EXCEPT !.at = v].by = req[r].by
      BY <1>0 DEF Request
    <2>3. req[r].by # "push"
      BY <1>0, <1>3 DEF NoMFAEnrolled, WrongFactor, ConsumeWebAuthnChallenge
    <2> QED
      BY <2>1, <2>2, <2>3
  <1>4. CASE \E t \in Tokens : ResolveMFAToken(r, t)
    <2>1. PICK t : Goes(r, [Idle EXCEPT !.at = "resolved", !.token = t])
      BY <1>4 DEF ResolveMFAToken
    <2>2. [Idle EXCEPT !.at = "resolved", !.token = t].by = ""
      BY DEF Idle
    <2> QED
      BY <2>1, <2>2
  <1>5. CASE \/ \E c \in Steps : SpendTOTP(r, c)
             \/ \E k \in Codes : SpendRecoveryCode(r, k)
             \/ \E c \in Tokens : FinishPushLogin(r, c)
             \/ VerifyAssertion(r)
    <2>1. PICK by \in Handlers : /\ Proved(r, by)
                                 /\ by = "push" => req[r].at = "resolved"
                                                   /\ challenge[req[r].token] = "approved"
      BY <1>5 DEF SpendTOTP, SpendRecoveryCode, FinishPushLogin, VerifyAssertion,
                  ChallengeMatches, Handlers, Factors
    <2>2. req[r].at \in {"resolved", "asserted", "reauth"} /\ Carrying(req[r])
      BY <1>5, Proofs, TypeParts
    <2>3. PICK q \in Request :
              /\ Goes(r, q) /\ q.token = req[r].token
              /\ q.at = (IF req[r].at = "reauth" THEN "granted" ELSE "proved")
              /\ q.by = (IF req[r].at = "reauth" THEN req[r].by ELSE by)
      BY <1>0, <2>1, <2>2, ProvedMoves
    <2> QED
      BY <1>0, <2>1, <2>3
  <1>6. CASE SpendMFAToken(r)
    <2> DEFINE q == [req[r] EXCEPT !.at = "open", !.by = ""]
    <2>1. q.by = "" /\ Goes(r, q)
      BY <1>0, <1>6 DEF SpendMFAToken, Request
    <2> HIDE DEF q
    <2> QED
      BY <2>1
  <1> QED
    BY <1>1, <1>2, <1>3, <1>4, <1>5, <1>6 DEF Handle

LEMMA ApprovedStep ==
    ASSUME TypeOK, Approved, [Next]_vars
    PROVE  Approved'
  <1>1. /\ \A t \in Tokens : challenge'[t] # "none" => token'[t].issued
        /\ \A t \in Tokens : challenge[t] = "approved" => challenge'[t] = "approved"
    BY ChallengesStay
  <1>2. req \in [Requests -> Request] /\ req' \in [Requests -> Request]
    BY TypeStep, TypeParts DEF TypeOK
  <1>3. \A u \in Requests : /\ Carrying(req[u]) /\ Carrying(req'[u])
    BY TypeStep DEF TypeOK, Carrying
  <1>4. SUFFICES ASSUME NEW u \in Requests, req'[u].by = "push"
                 PROVE  req'[u].at = "proved" /\ challenge'[req'[u].token] = "approved"
    BY <1>1 DEF Approved
  <1>5. req'[u].at = "proved" /\ challenge[req'[u].token] = "approved"
    <2>1. CASE \E r \in Requests : Handle(r)
      <3>1. PICK r \in Requests : Handle(r)
        BY <2>1
      <3>2. PICK q : /\ Goes(r, q)
                     /\ q.by = "push" => q.at = "proved" /\ challenge[q.token] = "approved"
        BY <3>1, ApprovedHandle
      <3>3. req'[u] = IF u = r THEN q ELSE req[u]
        BY <1>2, <3>2 DEF Goes
      <3> QED
        BY <1>4, <3>2, <3>3 DEF Approved
    <2>2. CASE ~ \E r \in Requests : Handle(r)
      BY <1>4, <2>2, OtherSteps DEF Approved
    <2> QED
      BY <2>1, <2>2
  <1>6. req'[u].token \in Tokens
    BY <1>2, <1>3, <1>5 DEF Carrying, Request
  <1> QED
    BY <1>1, <1>5, <1>6

\* At the start nobody tries, nothing is counted and no challenge is made.
LEMMA GuessingInit == Init => Charged /\ Locking /\ Approved
  <1> SUFFICES ASSUME Init
               PROVE  Charged /\ Locking /\ Approved
    OBVIOUS
  <1>1. /\ \A r \in Requests : req[r].at = "idle" /\ req[r].by = ""
        /\ \A t \in Tokens : token[t].attempts = 0 /\ guesses[t] = 0 /\ challenge[t] = "none"
        /\ wrong = 0
    <2>1. Idle.at = "idle" /\ Idle.by = ""
      BY DEF Idle
    <2>2. NoToken.attempts = 0
      BY DEF NoToken
    <2> QED
      BY <2>1, <2>2 DEF Init
  <1>2. (\A t : Trying(t) = {} /\ Missing(t) = {}) /\ Entering = {}
    BY <1>1 DEF Trying, Missing, Entering
  <1>3. Cardinality({}) = 0 /\ Cardinality(Requests) \in Nat
    BY FS_EmptySet, RequestsAreFinite, FS_CardinalityType
  <1>4. MaxAttempts \in Nat /\ MaxFailed \in Nat /\ MaxAttempts > 0 /\ MaxFailed > 0
    BY BoundsAreNatural
  <1>5. Charged
    <2>1. ASSUME NEW t \in Tokens
          PROVE  /\ guesses[t] = token[t].attempts + Cardinality(Missing(t))
                 /\ token[t].attempts + Cardinality(Trying(t)) < MaxAttempts + Cardinality(Requests)
      <3>1. Missing(t) = {} /\ Trying(t) = {}
        BY <1>2
      <3>2. Cardinality(Missing(t)) = 0 /\ Cardinality(Trying(t)) = 0
        BY <1>3, <3>1
      <3>3. guesses[t] = 0 /\ token[t].attempts = 0
        BY <1>1
      <3> QED
        BY <1>3, <1>4, <3>2, <3>3
    <2> QED
      BY <2>1 DEF Charged
  <1>6. Approved
    BY <1>1 DEF Approved
  <1>7. Locking
    <2>1. account \in Account
      BY TypeInit, TypeParts
    <2>2. account.failures \in Nat /\ account.recent \in BOOLEAN
      BY <2>1, FailedColumns
    <2>3. Entering = {}
      BY <1>2
    <2>4. Cardinality(Entering) = 0
      BY <1>3, <2>3
    <2>5. wrong = 0
      BY <1>1
    <2> QED
      BY <1>3, <1>4, <2>2, <2>4, <2>5 DEF Locking
  <1> QED
    BY <1>5, <1>6, <1>7

(* The budgets of guessing hold for any number of concurrent requests: a    *)
(* token pays for MaxMFAAttempts wrong factors and one more for each other  *)
(* request in flight, an account for MaxFailedLogins wrong answers and one  *)
(* more for each other sign-in or step-up past the lockout check            *)
(* (RegisterMFAFailure, RecordFailedLogin and IsAccountLocked are separate  *)
(* statements).                                                             *)
THEOREM GuessingBoundedAlways == Spec => []GuessingBounded
  <1>1. Init => Charged /\ Locking
    BY GuessingInit
  <1>2. TypeOK /\ TypeOK' /\ Charged /\ Locking /\ [Next]_vars => Charged' /\ Locking'
    BY ChargedStep, LockingStep
  <1>3. TypeOK /\ Charged /\ Locking => GuessingBounded
    <2>1. SUFFICES ASSUME TypeOK, Charged, Locking
                   PROVE  GuessBudget /\ LockoutBudget
      BY DEF GuessingBounded
    <2>2. Cardinality(Requests) \in Nat /\ MaxAttempts \in Nat /\ MaxFailed \in Nat
             /\ wrong \in Nat /\ Cardinality(Entering) \in Nat
      <3>1. IsFiniteSet(Entering)
        BY RequestSets, RequestsAreFinite, FS_Subset
      <3>2. Cardinality(Entering) \in Nat /\ Cardinality(Requests) \in Nat
        BY <3>1, RequestsAreFinite, FS_CardinalityType
      <3>3. wrong \in Nat
        BY <2>1 DEF TypeOK
      <3> QED
        BY <3>2, <3>3, BoundsAreNatural
    <2>3. LockoutBudget
      BY <2>1, <2>2 DEF Locking, LockoutBudget
    <2>4. ASSUME NEW t \in Tokens
          PROVE  guesses[t] <= MaxAttempts + Cardinality(Requests) - 1
      <3>1. Missing(t) \subseteq Trying(t) /\ Trying(t) \in SUBSET Requests
        BY DEF Missing, Trying
      <3>2. IsFiniteSet(Trying(t))
        BY <3>1, RequestsAreFinite, FS_Subset
      <3>3. IsFiniteSet(Missing(t)) /\ Cardinality(Missing(t)) <= Cardinality(Trying(t))
        BY <3>1, <3>2, FS_Subset
      <3>4. Cardinality(Trying(t)) \in Nat /\ Cardinality(Missing(t)) \in Nat
        BY <3>2, <3>3, FS_CardinalityType
      <3>5. token[t].attempts \in Nat
        BY <2>1 DEF TypeOK
      <3>6. /\ guesses[t] = token[t].attempts + Cardinality(Missing(t))
            /\ token[t].attempts + Cardinality(Trying(t)) < MaxAttempts + Cardinality(Requests)
        BY <2>1 DEF Charged
      <3> QED
        BY <2>2, <3>3, <3>4, <3>5, <3>6
    <2> QED
      BY <2>3, <2>4 DEF GuessBudget
  <1> QED
    BY <1>1, <1>2, <1>3, TypeCorrect, PTL DEF Spec

(* For any number of tokens and requests, a sign-in that goes on with the   *)
(* push factor rests on the approval of the challenge its own MFA token was *)
(* issued with, whatever FinishPushLogin was asked and however answers and  *)
(* requests interleave.                                                     *)
THEOREM ApprovalOpensItsSignInAlways == Spec => []ApprovalOpensItsSignIn
  <1>1. Init => Approved
    BY GuessingInit
  <1>2. TypeOK /\ Approved /\ [Next]_vars => Approved'
    BY ApprovedStep
  <1>3. Approved => ApprovalOpensItsSignIn
    BY DEF Approved, ApprovalOpensItsSignIn
  <1> QED
    BY <1>1, <1>2, <1>3, TypeCorrect, PTL DEF Spec
=============================================================================
