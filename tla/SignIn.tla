------------------------------- MODULE SignIn -------------------------------
(***************************************************************************)
(* Signing in to one account: password, second factor, session             *)
(* (api/auth_handlers.go, api/webauthn_handlers.go, mfa/mfa.go), and the   *)
(* step-ups of its sessions (api/stepup_handlers.go), which take the same  *)
(* codes and share the lockout.                                            *)
(*                                                                         *)
(* The password step leaves an MFA token in the database; a later request  *)
(* resolves it, proves a factor, spends the token and opens a session; a   *)
(* step-up checks the lockout, then the password and a factor, and its     *)
(* challenges and grants are in StepUp.                                    *)
(* Every one of these is a statement or transaction of its own, so two     *)
(* requests of one token, or a request and an administrator, interleave    *)
(* between any two of them. Tokens, challenges, nonces and sessions also   *)
(* expire; that only takes possibilities away, so here an expired row is   *)
(* one that nobody uses.                                                   *)
(***************************************************************************)
EXTENDS Integers, FiniteSets

CONSTANTS
    Tokens,        \* MFA tokens, each with the push challenge made for it
    Requests,      \* requests the server handles at the same time
    Codes,         \* recovery codes of one generation
    None,          \* no token
    MaxAttempts,   \* mfa.MaxMFAAttempts
    MaxFailed,     \* store.MaxFailedLogins
    MaxStep,       \* bound: the 30-second steps the clock goes through
    MaxChanges     \* bound: changes of the account, expired lockouts

ASSUME BoundsAreNatural ==
    /\ {MaxAttempts, MaxFailed, MaxStep, MaxChanges} \subseteq Nat
    /\ MaxAttempts > 0 /\ MaxFailed > 0

ASSUME NoneIsNothing == None \notin Tokens

ASSUME CodesAreNoSteps == Codes \cap Nat = {}

ASSUME RequestsAreFinite == IsFiniteSet(Requests)

VARIABLES
    account,    \* the account's status, factors and failed logins
    token,      \* mfa_tokens
    challenge,  \* mfa_challenges, by the token each was made for; "none" was
                \* not made or was denied
    nonce,      \* an unused row for authentication in webauthn_challenges
    session,    \* the live sessions, by the token that opened each
    req,        \* what each request has reached and carries
    changes,
    uses,       \* how often each one-time code of this enrolment was accepted
    opened,     \* sessions each token has opened
    guesses,    \* wrong factors each token has funded
    wrong       \* failures since the count was cleared or a lockout ended

tables == <<token, challenge, nonce, session>>
ghosts == <<uses, opened, guesses, wrong>>
vars == <<account, tables, req, changes, ghosts>>

Factors == {"totp", "push", "webauthn"}
Handlers == Factors \cup {"recovery"}

Steps == 1 .. MaxStep
OneTimeCodes == Codes \cup Steps

Account == [active : BOOLEAN, methods : SUBSET Factors,
            last : 0 .. MaxStep, codes : SUBSET Codes,
            failures : 0 .. MaxFailed,   \* at the limit it says "or more"
            recent : BOOLEAN]

Stages == {"idle", "password", "resolved", "asserted", "missed", "proved",
           "open", "reauth", "granted"}
Request == [at : Stages, token : Tokens \cup {None}, by : Handlers \cup {""}]
Idle == [at |-> "idle", token |-> None, by |-> ""]

NoToken == [issued |-> FALSE, used |-> FALSE, attempts |-> 0]

(* Every row and request has its shape, and a request that is past         *)
(* resolveMFAToken carries the token it resolved.                          *)
TypeOK ==
    /\ account \in Account
    /\ token \in [Tokens -> [issued : BOOLEAN, used : BOOLEAN, attempts : Nat]]
    /\ challenge \in [Tokens -> {"none", "pending", "approved"}]
    /\ nonce \in BOOLEAN
    /\ session \subseteq Tokens \cup {None}
    /\ req \in [Requests -> Request]
    /\ \A r \in Requests :
          req[r].at \in {"resolved", "asserted", "missed", "proved"}
             => req[r].token # None
    /\ changes \in 0 .. MaxChanges
    /\ uses \in [OneTimeCodes -> Nat]
    /\ opened \in [Tokens -> Nat]
    /\ guesses \in [Tokens -> Nat]
    /\ wrong \in Nat

(* An account with nothing enrolled or with everything.                    *)
Init ==
    /\ \E m \in {{}, Factors} :
          account = [active |-> TRUE, methods |-> m, last |-> 0,
                     codes |-> IF m = {} THEN {} ELSE Codes,
                     failures |-> 0, recent |-> FALSE]
    /\ token = [t \in Tokens |-> NoToken]
    /\ challenge = [t \in Tokens |-> "none"]
    /\ nonce = FALSE
    /\ session = {}
    /\ req = [r \in Requests |-> Idle]
    /\ changes = 0
    /\ uses = [p \in OneTimeCodes |-> 0]
    /\ opened = [t \in Tokens |-> 0]
    /\ guesses = [t \in Tokens |-> 0]
    /\ wrong = 0

---------------------------------------------------------------------------
(* What the handlers read.                                                 *)

\* Bug: the failure that reaches the limit does not lock yet.
IsAccountLockedLate == account.failures > MaxFailed /\ account.recent

IsAccountLocked == account.failures >= MaxFailed /\ account.recent

(* GetValidMFAToken and the user it names.                                 *)
Valid(t) ==
    /\ token[t].issued /\ ~token[t].used
    /\ token[t].attempts < MaxAttempts
    /\ account.active

Failed(a) == [a EXCEPT !.recent = TRUE,
                       !.failures = IF @ < MaxFailed THEN @ + 1 ELSE @]
ClearFailedLogins(a) == [a EXCEPT !.failures = 0, !.recent = FALSE]

\* Bug: the step that was spent last may be spent again.
ConsumeTOTPCounterAgain(a, c) == "totp" \in a.methods /\ a.last <= c

(* The conditional update of ConsumeTOTPCounter.                           *)
ConsumeTOTPCounter(a, c) == "totp" \in a.methods /\ a.last < c

Goes(r, q) == req' = [req EXCEPT ![r] = q]
Ends(r) == Goes(r, Idle)

---------------------------------------------------------------------------
(* The password step: AuthHandler.Login.                                   *)

(* Everything up to the password check.                                    *)
BeginLogin(r) ==
    /\ req[r].at = "idle"
    /\ account.active
    /\ ~IsAccountLocked
    /\ Goes(r, [Idle EXCEPT !.at = "password"])
    /\ UNCHANGED <<account, tables, changes, ghosts>>

(* A wrong password, or of a step-up a wrong password, code or assertion   *)
(* (stepUpFailure).                                                        *)
RecordFailedLogin(r) ==
    /\ req[r].at \in {"password", "reauth"}
    /\ account' = Failed(account)
    /\ wrong' = wrong + 1
    /\ Ends(r)
    /\ UNCHANGED <<tables, changes, uses, opened, guesses>>

(* A right password of an account with factors: an MFA token and, when     *)
(* push is offered, a push challenge. One that could not be made is like   *)
(* one nobody answers.                                                     *)
IssueMFAToken(r) ==
    /\ req[r].at = "password"
    /\ account.methods # {}
    /\ account' = ClearFailedLogins(account)
    /\ wrong' = 0
    /\ \E t \in Tokens :
          /\ ~token[t].issued
          /\ token' = [token EXCEPT ![t].issued = TRUE]
          /\ challenge' = [challenge EXCEPT
                ![t] = IF "push" \in account.methods THEN "pending" ELSE "none"]
    /\ Ends(r)
    /\ UNCHANGED <<nonce, session, changes, uses, opened, guesses>>

(* A right password of an account without factors opens a session at once. *)
NoMFAEnrolled(r) ==
    /\ req[r].at = "password"
    /\ account.methods = {}
    /\ account' = ClearFailedLogins(account)
    /\ wrong' = 0
    /\ Goes(r, [req[r] EXCEPT !.at = "open"])
    /\ UNCHANGED <<tables, changes, uses, opened, guesses>>

---------------------------------------------------------------------------
(* The second factor: VerifyTOTP, VerifyRecoveryCode, FinishPushLogin and  *)
(* WebAuthnHandler.FinishLogin begin alike.                                *)

ResolveMFAToken(r, t) ==
    /\ req[r].at = "idle"
    /\ Valid(t)
    /\ Goes(r, [Idle EXCEPT !.at = "resolved", !.token = t])
    /\ UNCHANGED <<account, tables, changes, ghosts>>

Proved(r, by) ==
    Goes(r, IF req[r].at = "reauth" THEN [req[r] EXCEPT !.at = "granted"]
            ELSE [req[r] EXCEPT !.at = "proved", !.by = by])
Missed(r) ==
    /\ Goes(r, [req[r] EXCEPT !.at = "missed"])
    /\ guesses' = [guesses EXCEPT ![req[r].token] = @ + 1]

(* A wrong or spent code, an unusable nonce, a malformed or wrong          *)
(* assertion, or a factor that is not enrolled.                            *)
WrongFactor(r) ==
    /\ req[r].at \in {"resolved", "asserted"}
    /\ Missed(r)
    /\ UNCHANGED <<account, tables, changes, uses, opened, wrong>>

(* VerifyUserTOTP of a code that matches, for a sign-in or a step-up. The  *)
(* clock and the window of one step around it decide which codes match     *)
(* when; here any may, at any time. Reading the secret and spending the    *)
(* step are one action: only a new enrolment could come between.           *)
SpendTOTP(r, c) ==
    /\ req[r].at \in {"resolved", "reauth"}
    /\ ConsumeTOTPCounter(account, c)
    /\ account' = [account EXCEPT !.last = c]
    /\ uses' = [uses EXCEPT ![c] = @ + 1]
    /\ Proved(r, "totp")
    /\ UNCHANGED <<tables, changes, opened, guesses, wrong>>

SpendRecoveryCode(r, k) ==
    /\ req[r].at \in {"resolved", "reauth"}
    /\ k \in account.codes
    /\ account' = [account EXCEPT !.codes = @ \ {k}]
    /\ uses' = [uses EXCEPT ![k] = @ + 1]
    /\ Proved(r, "recovery")
    /\ UNCHANGED <<tables, changes, opened, guesses, wrong>>

\* Bug: any challenge of the account will do.
ChallengeIsOwned(t, c) == TRUE

(* FinishPushLogin: the request names a challenge, which must be the one   *)
(* its token was issued with; else it ends without counting.               *)
ChallengeMatches(t, c) == t = c

FinishPushLogin(r, c) ==
    /\ req[r].at = "resolved"
    /\ ChallengeMatches(req[r].token, c)
    /\ challenge[c] = "approved"
    /\ Proved(r, "push")
    /\ UNCHANGED <<account, tables, changes, ghosts>>

(* WebAuthnHandler.BeginLogin issues a nonce, bound to the account.        *)
BeginPasskeyLogin(t) ==
    /\ Valid(t)
    /\ "webauthn" \in account.methods
    /\ ~nonce
    /\ nonce' = TRUE
    /\ UNCHANGED <<account, token, challenge, session, req, changes,
                   ghosts>>

(* The nonce is redeemed before the assertion is looked at. It names the   *)
(* account and not the token, so any open one will do.                     *)
ConsumeWebAuthnChallenge(r) ==
    /\ req[r].at = "resolved"
    /\ nonce
    /\ nonce' = FALSE
    /\ Goes(r, [req[r] EXCEPT !.at = "asserted"])
    /\ UNCHANGED <<account, token, challenge, session, changes, ghosts>>

VerifyAssertion(r) ==
    /\ req[r].at = "asserted"
    /\ "webauthn" \in account.methods
    /\ Proved(r, "webauthn")
    /\ UNCHANGED <<account, tables, changes, ghosts>>

\* Bug: the miss is not counted.
RegisterNoFailure(r) == req[r].at = "missed" /\ Ends(r)
                        /\ UNCHANGED <<account, tables, changes, ghosts>>

RegisterMFAFailure(r) ==
    /\ req[r].at = "missed"
    /\ token' = [token EXCEPT ![req[r].token].attempts = @ + 1]
    /\ Ends(r)
    /\ UNCHANGED <<account, challenge, nonce, session, changes, ghosts>>

\* Bug: the update is not conditional.
ConsumeAnyMFAToken(t) == TRUE

(* ConsumeMFAToken asks only whether the token is unused.                  *)
ConsumeMFAToken(t) == ~token[t].used

(* spendMFAToken; the passkey and recovery handlers then also forget       *)
(* failed logins.                                                          *)
SpendMFAToken(r) ==
    /\ req[r].at = "proved"
    /\ LET t == req[r].token
           forget == req[r].by \in {"recovery", "webauthn"}
       IN  /\ ConsumeMFAToken(t)
           /\ token' = [token EXCEPT ![t].used = TRUE]
           /\ Goes(r, [req[r] EXCEPT !.at = "open", !.by = ""])
           /\ account' = IF forget THEN ClearFailedLogins(account) ELSE account
           /\ wrong' = IF forget THEN 0 ELSE wrong
    /\ UNCHANGED <<challenge, nonce, session, changes, uses, opened,
                   guesses>>

\* Bug: the status was checked when the token was resolved.
MayAlwaysOpen == TRUE

(* The insert of CreateSessionForInteraction asks for an active account.   *)
MayOpen == account.active

(* createSessionAndRespond. When the authorization request the sign-in was *)
(* for is gone, the session is inserted without it: one insert either way. *)
CreateSession(r) ==
    /\ req[r].at = "open"
    /\ MayOpen
    /\ session' = session \cup {req[r].token}
    /\ opened' = [t \in Tokens |->
                    opened[t] + IF t = req[r].token THEN 1 ELSE 0]
    /\ Ends(r)
    /\ UNCHANGED <<account, token, challenge, nonce, changes, uses, guesses,
                   wrong>>

---------------------------------------------------------------------------
(* Step-ups of the account's sessions.                                     *)

(* RequestStepUp or FinishStepUp, up to the lockout check. The password is *)
(* checked after it, and every wrong answer is counted later still.        *)
BeginStepUp(r) ==
    /\ req[r].at = "idle"
    /\ session # {}
    /\ ~IsAccountLocked
    /\ Goes(r, [Idle EXCEPT !.at = "reauth"])
    /\ UNCHANGED <<account, tables, changes, ghosts>>

(* The grant is stored and the failed logins are forgotten, after a code   *)
(* was spent or when the password, a phone or a passkey was enough. That   *)
(* its login is still there is asked when it is stored (StepUp); here the  *)
(* failures may be forgotten either way.                                   *)
StepUpGranted(r) ==
    /\ req[r].at \in {"reauth", "granted"}
    /\ account' = ClearFailedLogins(account)
    /\ wrong' = 0
    /\ Ends(r)
    /\ UNCHANGED <<tables, changes, uses, opened, guesses>>

(* Every other end: an early return, an error, a lost race, a challenge to *)
(* be answered later, a stop of the server. Counting a wrong factor is one *)
(* statement that follows at once; losing it is left out.                  *)
Abandon(r) ==
    /\ req[r].at \notin {"idle", "missed"}
    /\ Ends(r)
    /\ UNCHANGED <<account, tables, changes, ghosts>>

---------------------------------------------------------------------------
(* Devices and the lockout's clock.                                        *)

(* RespondPushChallenge, while pending. Whether a device is left that may  *)
(* sign is open; without one nobody answers.                               *)
RespondPush(t, answer) ==
    /\ challenge[t] = "pending"
    /\ challenge' = [challenge EXCEPT ![t] = answer]
    /\ UNCHANGED <<account, token, nonce, session, req, changes, ghosts>>

Changes == changes < MaxChanges /\ changes' = changes + 1

(* LockoutDuration after the last failure. The count itself stays.         *)
LockoutLapses ==
    /\ Changes
    /\ IsAccountLocked
    /\ account' = [account EXCEPT !.recent = FALSE]
    /\ wrong' = 0
    /\ UNCHANGED <<tables, req, uses, opened, guesses>>

---------------------------------------------------------------------------
(* The account and its factors change. Where revokeUserAccessTx runs,      *)
(* every session ends.                                                     *)

ResetUserMFA ==
    /\ Changes
    /\ account' = [account EXCEPT !.methods = {}, !.codes = {}, !.last = 0]
    /\ uses' = [p \in OneTimeCodes |-> 0]
    /\ session' = {}
    /\ UNCHANGED <<token, challenge, nonce, req, opened, guesses, wrong>>

DisableUser ==
    /\ Changes
    /\ account.active
    /\ account' = [account EXCEPT !.active = FALSE]
    /\ session' = {}
    /\ UNCHANGED <<token, challenge, nonce, req, ghosts>>

EnableUser ==
    /\ ~account.active
    /\ account' = [account EXCEPT !.active = TRUE]
    /\ UNCHANGED <<tables, req, changes, ghosts>>

(* UpdateUser with a new password. The request that was checked against    *)
(* the old one goes on.                                                    *)
ChangePassword ==
    /\ Changes
    /\ account' = ClearFailedLogins(account)
    /\ session' = {}
    /\ wrong' = 0
    /\ UNCHANGED <<token, challenge, nonce, req, uses, opened, guesses>>

(* DeviceHandler.EnableTOTP from one session: a new secret (an existing    *)
(* row keeps its counter), new recovery codes, and every other session     *)
(* ends. Three transactions, taken as one.                                 *)
EnableTOTP(s) ==
    /\ Changes
    /\ account' = [account EXCEPT !.methods = @ \cup {"totp"}, !.codes = Codes]
    /\ session' = {s}
    /\ uses' = [p \in OneTimeCodes |-> 0]
    /\ UNCHANGED <<token, challenge, nonce, req, opened, guesses, wrong>>

GenerateRecoveryCodes ==
    /\ Changes
    /\ session # {}
    /\ account' = [account EXCEPT !.codes = Codes]
    /\ uses' = [p \in OneTimeCodes |-> IF p \in Codes THEN 0 ELSE uses[p]]
    /\ UNCHANGED <<tables, req, opened, guesses, wrong>>

(* A passkey is enrolled or the last one removed; a device is paired.      *)
(* Removing a device leaves the push method.                               *)
ChangeDevices ==
    /\ Changes
    /\ account.active
    /\ \E m \in {account.methods \cup {"webauthn"},
                 account.methods \ {"webauthn"},
                 account.methods \cup {"push"}} :
          /\ m # account.methods
          /\ account' = [account EXCEPT !.methods = m]
    /\ UNCHANGED <<tables, req, ghosts>>

(* RevokeSession.                                                          *)
Logout(s) ==
    /\ session' = session \ {s}
    /\ UNCHANGED <<account, token, challenge, nonce, req, changes, ghosts>>

---------------------------------------------------------------------------
Handle(r) ==
    \/ BeginLogin(r)
    \/ RecordFailedLogin(r)
    \/ IssueMFAToken(r)
    \/ NoMFAEnrolled(r)
    \/ \E t \in Tokens : ResolveMFAToken(r, t)
    \/ WrongFactor(r)
    \/ \E c \in Steps : SpendTOTP(r, c)
    \/ \E k \in Codes : SpendRecoveryCode(r, k)
    \/ \E c \in Tokens : FinishPushLogin(r, c)
    \/ ConsumeWebAuthnChallenge(r)
    \/ VerifyAssertion(r)
    \/ RegisterMFAFailure(r)
    \/ SpendMFAToken(r)
    \/ CreateSession(r)
    \/ BeginStepUp(r)
    \/ StepUpGranted(r)
    \/ Abandon(r)

Next ==
    \/ \E r \in Requests : Handle(r)
    \/ \E t \in Tokens : BeginPasskeyLogin(t)
    \/ \E t \in Tokens, a \in {"approved", "none"} : RespondPush(t, a)
    \/ LockoutLapses
    \/ ResetUserMFA \/ DisableUser \/ EnableUser \/ GenerateRecoveryCodes
    \/ ChangePassword \/ ChangeDevices
    \/ \E s \in session : Logout(s) \/ EnableTOTP(s)

Spec == Init /\ [][Next]_vars

---------------------------------------------------------------------------
(* A token opens at most one session (ConsumeMFAToken: "exactly once. A    *)
(* losing racer gets no session"), however many requests proved a factor   *)
(* for it.                                                                 *)
TokenOpensOneSession == \A t \in Tokens : opened[t] <= 1

(* A TOTP code or a recovery code is accepted once, by one of two          *)
(* concurrent sign-ins or by a step-up.                                    *)
CodesUsedOnce == \A p \in OneTimeCodes : uses[p] <= 1

(* A token funds MaxMFAAttempts wrong factors, and one more for every      *)
(* other request that had resolved it before the last of them was counted. *)
GuessBudget ==
    \A t \in Tokens : guesses[t] <= MaxAttempts + Cardinality(Requests) - 1

(* Between two successes no more answers of sign-ins and step-ups are      *)
(* found wrong than MaxFailedLogins, and one for every other request that  *)
(* had passed the lockout check (IsAccountLocked) before the last of these *)
(* was counted.                                                            *)
LockoutBudget == wrong < MaxFailed + Cardinality(Requests)

(* Neither the second factor nor the password can be guessed at leisure:   *)
(* concurrent requests pass a limit by at most their own number.           *)
GuessingBounded == GuessBudget /\ LockoutBudget

(* A disabled account has no session: neither one from before nor one that *)
(* a sign-in already past its factor opens afterwards.                     *)
SessionsNeedActive == session # {} => account.active

(* An approval on the phone opens the sign-in it was asked for, not        *)
(* another one of the same account that is waiting at the same time.       *)
ApprovalOpensItsSignIn ==
    \A r \in Requests :
        req[r].by = "push" => challenge[req[r].token] = "approved"
=============================================================================
