------------------------------- MODULE StepUp -------------------------------
(***************************************************************************)
(* Re-authentication before a change of the account's own security         *)
(* (store/stepup.go, api/stepup_handlers.go, api/stepup.go) and the        *)
(* changes it guards (api/device_handlers.go, api/webauthn_handlers.go),   *)
(* for one account signed in in several browsers.                          *)
(*                                                                         *)
(* A request proves the password and a factor and gets a grant for one     *)
(* operation; push and passkey answers come later, against a stored        *)
(* challenge whose secret becomes the grant. Spending the grant and the    *)
(* change it authorizes are separate transactions of the request. Rows     *)
(* expire at any time; lockout and its failure count are SignIn's, and     *)
(* here a refused request just ends.                                       *)
(***************************************************************************)
EXTENDS Naturals, FiniteSets

CONSTANTS
    Sessions,      \* logins of the account
    Tokens,        \* secrets of step-up challenges and grants
    Requests,      \* requests the server handles at the same time
    Operations,    \* the operations step-ups are asked for
    None,
    MaxAttempts,   \* wrong assertions a challenge allows
    MaxChanges     \* bound: administrative changes, logins that run out

Enrolments == {"totp/enable", "register/finish"}
AllOperations == Enrolments \cup {"passkey/delete", "recovery-codes", "device/pair"}
Factors == {"totp", "push", "webauthn"}

ASSUME OperationsAreKnown == Operations \subseteq AllOperations
ASSUME BoundsAreNatural == MaxAttempts \in Nat \ {0} /\ MaxChanges \in Nat
ASSUME NoneIsNothing ==
    None \notin Sessions \cup Tokens \cup AllOperations \cup Factors \cup {"password", "recovery"}
ASSUME RequestsAreFinite == IsFiniteSet(Requests)

VARIABLES
    active,     \* users.status = 'active'
    factors,    \* enrolled methods
    codes,      \* a recovery code is left
    session,    \* sessions
    row,        \* step_up_challenges and step_up_tokens, by token
    push,       \* mfa_challenges, by the step-up each was made for
    nonce,      \* an unused registration row in webauthn_challenges
    pairing,    \* device_pairing_tokens, by the step-up that bought each
    req,        \* what each request has reached and carries
    changes,
    uses,       \* operations each token let through, and the last of them
    changed,    \* changes of the account each token has paid for
    cancelled,  \* tokens whose cancel was answered
    voided,     \* tokens from before the last reset or revocation
    guesses     \* wrong assertions answered for each challenge

tables == <<row, push, nonce, pairing>>
account == <<active, factors, codes>>
ghosts == <<uses, changed, cancelled, voided, guesses>>
vars == <<account, session, tables, req, changes, ghosts>>

NoRow == [challenge |-> "none", grant |-> "none", session |-> None,
          op |-> None, by |-> None, attempts |-> 0]
Row == [challenge : {"none", "open", "used"}, grant : {"none", "live", "used"},
        session : Sessions \cup {None}, op : AllOperations \cup {None},
        by : Factors \cup {"password", "recovery", None}, attempts : Nat]

Stages == {"idle", "asked", "proved", "read", "verified", "missed", "called",
           "authorised", "enabled", "coded"}
Request == [at : Stages, token : Tokens \cup {None},
            session : Sessions \cup {None}, op : AllOperations \cup {None},
            by : Factors \cup {"password", "recovery", None}]
Idle == [at |-> "idle", token |-> None, session |-> None, op |-> None,
         by |-> None]

(* Rows and requests have their shape; a request under way carries the     *)
(* token, login and operation it is about.                                 *)
TypeOK ==
    /\ active \in BOOLEAN /\ factors \subseteq Factors /\ codes \in BOOLEAN
    /\ session \in [Sessions -> {"new", "live", "ended"}]
    /\ row \in [Tokens -> Row]
    /\ push \in [Tokens -> {"none", "pending", "approved", "denied"}]
    /\ nonce \in BOOLEAN
    /\ pairing \in [Tokens -> {"none", "live", "used"}]
    /\ req \in [Requests -> Request]
    /\ \A r \in Requests : req[r].at # "idle" =>
          /\ req[r].token # None /\ req[r].session # None
          /\ req[r].op # None
    /\ changes \in 0 .. MaxChanges
    /\ uses \in [Tokens -> [n : Nat, session : Sessions \cup {None},
                            op : AllOperations \cup {None}]]
    /\ changed \in [Tokens -> Nat]
    /\ cancelled \subseteq Tokens /\ voided \subseteq Tokens
    /\ guesses \in [Tokens -> Nat]

Init ==
    /\ active = TRUE
    /\ factors \in {{}, {"totp"}, {"push", "webauthn"}}
    /\ codes = (factors # {})
    /\ session = [s \in Sessions |-> "new"]
    /\ row = [t \in Tokens |-> NoRow]
    /\ push = [t \in Tokens |-> "none"]
    /\ nonce = FALSE
    /\ pairing = [t \in Tokens |-> "none"]
    /\ req = [r \in Requests |-> Idle]
    /\ changes = 0
    /\ uses = [t \in Tokens |-> [n |-> 0, session |-> None, op |-> None]]
    /\ changed = [t \in Tokens |-> 0]
    /\ cancelled = {} /\ voided = {}
    /\ guesses = [t \in Tokens |-> 0]

Goes(r, q) == req' = [req EXCEPT ![r] = q]
At(r, to) == Goes(r, [req[r] EXCEPT !.at = to])
Ends(r) == Goes(r, Idle)

---------------------------------------------------------------------------
(* Asking: RequestStepUp.                                                  *)

\* Bug: only the status of the account is asked for.
LiveAccount(s) == active

(* The EXISTS of the grant's insert and of its use.                        *)
Live(s) == active /\ session[s] = "live"

\* Bug: a recovery code is offered for every operation.
MethodsWithRecovery(o) ==
    IF factors = {} THEN {} ELSE factors \cup {"recovery"}

StepUpMethods(o) ==
    IF factors # {} /\ o \in Enrolments THEN factors \cup {"recovery"} ELSE factors

Unissued(t) ==
    row[t] = NoRow /\ t \notin voided /\ \A r \in Requests : req[r].token # t

(* The right password, and a method the account has; none if it has none.  *)
AskStepUp(r, s, o, m, t) ==
    /\ req[r].at = "idle" /\ Live(s) /\ Unissued(t)
    /\ m \in (IF factors = {} THEN {"password"} ELSE StepUpMethods(o))
    /\ Goes(r, [at |-> IF m = "password" THEN "proved" ELSE "asked",
                token |-> t, session |-> s, op |-> o, by |-> m])
    /\ UNCHANGED <<account, session, tables, changes, ghosts>>

(* VerifyUserTOTP: the method is read again.                               *)
ProveTOTP(r) ==
    /\ req[r].at = "asked" /\ req[r].by = "totp" /\ "totp" \in factors
    /\ At(r, "proved")
    /\ UNCHANGED <<account, session, tables, changes, ghosts>>

(* VerifyAndConsumeRecoveryCode: the code is gone whatever comes of it;    *)
(* another one may be left.                                                *)
ProveRecoveryCode(r) ==
    /\ req[r].at = "asked" /\ req[r].by = "recovery" /\ codes
    /\ codes' \in BOOLEAN
    /\ At(r, "proved")
    /\ UNCHANGED <<active, factors, session, tables, changes, ghosts>>

GrantRow(q, old) ==
    [old EXCEPT !.grant = "live", !.session = q.session, !.op = q.op, !.by = q.by]

CreateStepUpToken(r) ==
    LET q == req[r] IN
    /\ q.at = "proved" /\ Live(q.session)
    /\ row' = [row EXCEPT ![q.token] = GrantRow(q, @)]
    /\ Ends(r)
    /\ UNCHANGED <<account, session, push, nonce, pairing, changes, ghosts>>

(* CreatePushChallenge and CreateStepUpChallenge; the row refers to its    *)
(* session.                                                                *)
CreateStepUpChallenge(r) ==
    LET q == req[r] IN
    /\ q.at = "asked" /\ q.by \in {"push", "webauthn"}
    /\ session[q.session] = "live"
    /\ row' = [row EXCEPT ![q.token] =
                 [NoRow EXCEPT !.challenge = "open", !.session = q.session,
                               !.op = q.op, !.by = q.by]]
    /\ push' = IF q.by = "push" THEN [push EXCEPT ![q.token] = "pending"] ELSE push
    /\ Ends(r)
    /\ UNCHANGED <<account, session, nonce, pairing, changes, ghosts>>

---------------------------------------------------------------------------
(* Answering: FinishStepUp.                                                *)

\* Bug: the attempts are not looked at.
GetAnyStepUpChallenge(t, s) == row[t].challenge = "open" /\ row[t].session = s

GetStepUpChallenge(t, s) ==
    /\ row[t].challenge = "open" /\ row[t].session = s
    /\ row[t].attempts < MaxAttempts

(* "A removed method cannot finish."                                       *)
ReadStepUpChallenge(r, s, t) ==
    /\ req[r].at = "idle" /\ Live(s)
    /\ GetStepUpChallenge(t, s)
    /\ row[t].by \in StepUpMethods(row[t].op)
    /\ Goes(r, [at |-> "read", token |-> t, session |-> s, op |-> row[t].op,
                by |-> row[t].by])
    /\ UNCHANGED <<account, session, tables, changes, ghosts>>

ApprovedPush(r) ==
    /\ req[r].at = "read" /\ req[r].by = "push"
    /\ push[req[r].token] = "approved"
    /\ At(r, "verified")
    /\ UNCHANGED <<account, session, tables, changes, ghosts>>

WithoutChallenge(x) == [x EXCEPT !.challenge = IF @ = "none" THEN @ ELSE "used"]

\* Bug: the grant a racing completion made is left alone.
BurntChallenge(x) == WithoutChallenge(x)

Burnt(x) == [WithoutChallenge(x) EXCEPT !.grant = IF @ = "none" THEN @ ELSE "used"]

(* A denied or expired approval cancels the step-up.                       *)
DeniedPush(r) ==
    /\ req[r].at = "read" /\ req[r].by = "push"
    /\ push[req[r].token] = "denied"
    /\ row' = [row EXCEPT ![req[r].token] = Burnt(@)]
    /\ Ends(r)
    /\ UNCHANGED <<account, session, push, nonce, pairing, changes, ghosts>>

(* verifyStepUpAssertion reads the credential again.                       *)
VerifyStepUpAssertion(r) ==
    /\ req[r].at = "read" /\ req[r].by = "webauthn"
    /\ \/ "webauthn" \in factors /\ At(r, "verified")
       \/ At(r, "missed")
    /\ UNCHANGED <<account, session, tables, changes, ghosts>>

(* The wrong assertion is counted, then answered.                          *)
FailStepUpChallenge(r) ==
    LET t == req[r].token IN
    /\ req[r].at = "missed"
    /\ row' = IF row[t].challenge = "open"
              THEN [row EXCEPT ![t].attempts = @ + 1] ELSE row
    /\ guesses' = [guesses EXCEPT ![t] = @ + 1]
    /\ Ends(r)
    /\ UNCHANGED <<account, session, push, nonce, pairing, changes, uses,
                   changed, cancelled, voided>>

(* The conditional update that takes the challenge.                        *)
MayComplete(q) ==
    /\ row[q.token].challenge = "open"
    /\ row[q.token].session = q.session /\ row[q.token].op = q.op
    /\ row[q.token].attempts < MaxAttempts

(* Challenge, grant and audit record in one transaction.                   *)
CompleteStepUpChallenge(r) ==
    LET q == req[r] IN
    /\ q.at = "verified" /\ MayComplete(q) /\ Live(q.session)
    /\ row' = [row EXCEPT ![q.token] =
                 [GrantRow(q, @) EXCEPT !.challenge = "used"]]
    /\ Ends(r)
    /\ UNCHANGED <<account, session, push, nonce, pairing, changes, ghosts>>

(* A request ends at any point before its change: refused, locked out, its *)
(* answer "pending", or the server stopped.                                *)
Abandon(r) ==
    /\ req[r].at # "idle"
    /\ Ends(r)
    /\ UNCHANGED <<account, session, tables, changes, ghosts>>

(* The browser cancels a challenge it was given; its completion may be on  *)
(* the way.                                                                *)
CancelStepUp(s, t) ==
    /\ Live(s) /\ row[t].session = s /\ row[t].challenge # "none"
    /\ row' = [row EXCEPT ![t] = Burnt(@)]
    /\ cancelled' = cancelled \cup {t}
    /\ UNCHANGED <<account, session, push, nonce, pairing, req, changes, uses,
                   changed, voided, guesses>>

(* The device answers (RespondPushChallenge).                              *)
RespondPush(t, answer) ==
    /\ push[t] = "pending"
    /\ push' = [push EXCEPT ![t] = answer]
    /\ UNCHANGED <<account, session, row, nonce, pairing, req, changes, ghosts>>

(* DeleteExpiredStepUpTokens; an expired row is not matched before either. *)
ExpireStepUp(t) ==
    /\ row[t].challenge = "open" \/ row[t].grant = "live"
    /\ row' = [row EXCEPT ![t] = Burnt(@)]
    /\ UNCHANGED <<account, session, push, nonce, pairing, req, changes, ghosts>>

---------------------------------------------------------------------------
(* The guarded operations.                                                 *)

(* BeginRegistration: the grant is checked, not spent.                     *)
BeginRegistration(s, t) ==
    /\ Live(s) /\ "register/finish" \in Operations
    /\ row[t].grant = "live" /\ row[t].session = s
    /\ row[t].op = "register/finish"
    /\ nonce' = TRUE
    /\ UNCHANGED <<account, session, row, push, pairing, req, changes, ghosts>>

(* A request of a login arrives with a token for an operation.             *)
CallOperation(r, s, o, t) ==
    /\ req[r].at = "idle" /\ Live(s) /\ row[t].grant = "live"
    /\ Goes(r, [at |-> "called", token |-> t, session |-> s, op |-> o,
                by |-> None])
    /\ UNCHANGED <<account, session, tables, changes, ghosts>>

GrantFor(t, s, o) ==
    row[t].grant = "live" /\ row[t].session = s /\ row[t].op = o

(* consumeStepUp, before the handler does anything.                        *)
ConsumeStepUpToken(r) ==
    LET q == req[r] IN
    /\ q.at = "called" /\ GrantFor(q.token, q.session, q.op) /\ Live(q.session)
    /\ row' = [row EXCEPT ![q.token].grant = "used"]
    /\ uses' = [uses EXCEPT ![q.token] =
                  [n |-> @.n + 1, session |-> q.session, op |-> q.op]]
    /\ Goes(r, [q EXCEPT !.at = "authorised", !.by = row[q.token].by])
    /\ UNCHANGED <<account, session, push, nonce, pairing, changes, changed,
                   cancelled, voided, guesses>>

Carries(r, o) == req[r].at = "authorised" /\ req[r].op = o
Changed(t) == changed' = [changed EXCEPT ![t] = @ + 1]

(* EnableTOTP is three transactions: the factor, new recovery codes, and   *)
(* the end of the other logins.                                            *)
SaveUserTOTP(r) ==
    /\ Carries(r, "totp/enable")
    /\ factors' = factors \cup {"totp"}
    /\ Changed(req[r].token)
    /\ At(r, "enabled")
    /\ UNCHANGED <<active, codes, session, tables, changes, uses, cancelled,
                   voided, guesses>>

GenerateRecoveryCodes(r) ==
    /\ codes' = TRUE
    /\ \/ req[r].at = "enabled" /\ At(r, "coded") /\ UNCHANGED changed
       \/ Carries(r, "recovery-codes") /\ Ends(r) /\ Changed(req[r].token)
    /\ UNCHANGED <<active, factors, session, tables, changes, uses, cancelled,
                   voided, guesses>>

(* Logins end with their challenges (by cascade) and unused grants.        *)
EndSessions(S) ==
    /\ session' = [s \in Sessions |-> IF s \in S /\ session[s] = "live"
                                      THEN "ended" ELSE session[s]]
    /\ row' = [t \in Tokens |-> IF row[t].session \in S
                                THEN Burnt(row[t]) ELSE row[t]]

RevokeOtherSessions(r) ==
    /\ req[r].at = "coded"
    /\ EndSessions(Sessions \ {req[r].session})
    /\ Ends(r)
    /\ UNCHANGED <<account, push, nonce, pairing, changes, ghosts>>

(* FinishRegistration spends the nonce and adds the passkey.               *)
FinishRegistration(r) ==
    /\ Carries(r, "register/finish") /\ nonce
    /\ nonce' = FALSE
    /\ factors' = factors \cup {"webauthn"}
    /\ Changed(req[r].token)
    /\ Ends(r)
    /\ UNCHANGED <<active, codes, session, row, push, pairing, changes, uses,
                   cancelled, voided, guesses>>

DeletePasskey(r) ==
    /\ Carries(r, "passkey/delete") /\ "webauthn" \in factors
    /\ factors' = factors \ {"webauthn"}
    /\ Changed(req[r].token)
    /\ Ends(r)
    /\ UNCHANGED <<active, codes, session, tables, changes, uses, cancelled,
                   voided, guesses>>

GenerateDevicePairingToken(r) ==
    /\ Carries(r, "device/pair")
    /\ pairing' = [pairing EXCEPT ![req[r].token] = "live"]
    /\ Ends(r)
    /\ UNCHANGED <<account, session, row, push, nonce, changes, ghosts>>

\* Bug: a pairing token read as valid is not spent by the registration.
PairingStays(t) == pairing

PairingSpent(t) == [pairing EXCEPT ![t] = "used"]

(* RegisterNativeDeviceWithPairingToken: token, device and push method in  *)
(* one transaction, for whoever holds the token.                           *)
RegisterNativeDevice(t) ==
    /\ pairing[t] = "live" /\ changed[t] < 2
    /\ pairing' = PairingSpent(t)
    /\ factors' = factors \cup {"push"}
    /\ Changed(t)
    /\ UNCHANGED <<active, codes, session, row, push, nonce, req, changes,
                   uses, cancelled, voided, guesses>>

---------------------------------------------------------------------------
(* Logins and administrators.                                              *)

Changes == changes < MaxChanges /\ changes' = changes + 1

SignIn(s) ==
    /\ session[s] = "new" /\ active
    /\ session' = [session EXCEPT ![s] = "live"]
    /\ UNCHANGED <<account, tables, req, changes, ghosts>>

RevokeSession(s) ==
    /\ Changes /\ session[s] = "live"
    /\ EndSessions({s})
    /\ UNCHANGED <<account, push, nonce, pairing, req, ghosts>>

(* CleanupExpiredSessions deletes the login; a grant has no reference to   *)
(* it and keeps its row.                                                   *)
SessionExpires(s) ==
    /\ Changes /\ session[s] = "live"
    /\ session' = [session EXCEPT ![s] = "ended"]
    /\ row' = [t \in Tokens |-> IF row[t].session = s
                                THEN WithoutChallenge(row[t]) ELSE row[t]]
    /\ UNCHANGED <<account, push, nonce, pairing, req, ghosts>>

(* revokeUserAccessTx                                                      *)
RevokeUserAccess ==
    /\ Changes
    /\ EndSessions(Sessions)
    /\ pairing' = [t \in Tokens |-> IF pairing[t] = "live" THEN "used" ELSE pairing[t]]
    /\ voided' = {t \in Tokens : ~Unissued(t)}
    /\ UNCHANGED <<push, nonce, req, uses, changed, cancelled, guesses>>

ResetUserMFA ==
    /\ RevokeUserAccess
    /\ factors' = {} /\ codes' = FALSE
    /\ UNCHANGED active

DisableUser ==
    /\ active /\ RevokeUserAccess
    /\ active' = FALSE
    /\ UNCHANGED <<factors, codes>>

(* Another step-up of the account adds or removes a factor meanwhile.      *)
OtherChange(f) ==
    /\ Changes /\ active
    /\ factors' = IF f \in factors THEN factors \ {f} ELSE factors \cup {f}
    /\ UNCHANGED <<active, codes, session, tables, req, ghosts>>

EnableUser ==
    /\ ~active /\ active' = TRUE
    /\ UNCHANGED <<factors, codes, session, tables, req, changes, ghosts>>

---------------------------------------------------------------------------
Handle(r) ==
    \/ \E s \in Sessions, o \in Operations, t \in Tokens :
          \/ \E m \in Factors \cup {"password", "recovery"} : AskStepUp(r, s, o, m, t)
          \/ CallOperation(r, s, o, t)
    \/ \E s \in Sessions, t \in Tokens : ReadStepUpChallenge(r, s, t)
    \/ ProveTOTP(r) \/ ProveRecoveryCode(r)
    \/ CreateStepUpToken(r) \/ CreateStepUpChallenge(r)
    \/ ApprovedPush(r) \/ DeniedPush(r) \/ VerifyStepUpAssertion(r)
    \/ FailStepUpChallenge(r) \/ CompleteStepUpChallenge(r)
    \/ ConsumeStepUpToken(r)
    \/ SaveUserTOTP(r) \/ GenerateRecoveryCodes(r) \/ RevokeOtherSessions(r)
    \/ FinishRegistration(r) \/ DeletePasskey(r)
    \/ GenerateDevicePairingToken(r)
    \/ Abandon(r)

Next ==
    \/ \E r \in Requests : Handle(r)
    \/ \E s \in Sessions, t \in Tokens : CancelStepUp(s, t) \/ BeginRegistration(s, t)
    \/ \E t \in Tokens :
          \/ \E answer \in {"approved", "denied"} : RespondPush(t, answer)
          \/ ExpireStepUp(t) \/ RegisterNativeDevice(t)
    \/ \E s \in Sessions : SignIn(s) \/ RevokeSession(s) \/ SessionExpires(s)
    \/ \E f \in Factors : OtherChange(f)
    \/ ResetUserMFA \/ DisableUser \/ EnableUser

Spec == Init /\ [][Next]_vars

---------------------------------------------------------------------------
(* Properties                                                              *)

Stage(t) ==
    IF uses[t].n > 1 \/ changed[t] > 1 THEN "twice"
    ELSE IF changed[t] = 1 THEN "done"
    ELSE IF uses[t].n = 1 THEN "authorised"
    ELSE IF row[t].grant = "live" THEN "granted"
    ELSE IF row[t].challenge = "open" THEN "asked"
    ELSE IF row[t] = NoRow THEN "unused" ELSE "dead"

Contract == INSTANCE OneTimeProof WITH
    Proofs <- Tokens,
    Purposes <- Sessions \X Operations,
    NoPurpose <- <<None, None>>,
    stage <- [t \in Tokens |-> Stage(t)],
    purpose <- [t \in Tokens |-> <<row[t].session, row[t].op>>],
    acted <- [t \in Tokens |-> <<uses[t].session, uses[t].op>>]

(* "One re-authentication authorizes exactly one change": the handlers     *)
(* implement OneTimeProof, however the requests of one token interleave,   *)
(* also when the change is a device paired later.                          *)
OneProofOneChange == Contract!Spec

(* "Cancel also burns a grant whose completion response raced the          *)
(* browser's cancel": after the answer to a cancel the step-up lets        *)
(* nothing through (CancelStepUp, CompleteStepUpChallenge).                *)
CancelledLetsNothingThrough ==
    [][\A t \in cancelled : uses'[t].n = uses[t].n]_vars

(* A password or factor proved before the factors were reset or the        *)
(* account's access revoked lets nothing through afterwards, not even a    *)
(* proof that was on its way then (createStepUpTokenTx,                    *)
(* ConsumeStepUpToken).                                                    *)
RevocationVoidsProofs ==
    [][\A t \in voided : uses'[t].n = uses[t].n]_vars

(* "Recovery codes only authorize replacement factor enrollment": a change *)
(* let through on a recovery code enrols a factor; no step of it takes a   *)
(* factor away or opens a pairing, and it renews the recovery codes only   *)
(* as EnableTOTP does, after the factor it paid for was saved              *)
(* (stepUpMethods, and the one operation a grant is for).                  *)
RecoveryOnlyEnrols ==
    [][/\ \A r \in Requests :
             /\ req[r].by = "recovery" /\ req[r].at \in {"authorised", "enabled", "coded"}
             /\ req'[r] # req[r]
             => /\ req[r].op \in Enrolments
                /\ factors \subseteq factors' /\ pairing' = pairing
                /\ codes' # codes => changed[req[r].token] = 1
       /\ \A t \in Tokens : row[t].by = "recovery" => pairing'[t] = pairing[t]]_vars

(* One challenge funds at most its attempts in wrong assertions, and one   *)
(* more for every further request that had read it (GetStepUpChallenge,    *)
(* FailStepUpChallenge).                                                   *)
GuessBudget ==
    \A t \in Tokens : guesses[t] < MaxAttempts + Cardinality(Requests)

(* The limits of a proof hold together: guesses are counted, a cancelled   *)
(* step-up and one proved before a revocation are over whichever request   *)
(* of it was under way, and a recovery code only enrols a factor.          *)
ProofsKeepTheirLimits ==
    /\ []GuessBudget
    /\ CancelledLetsNothingThrough
    /\ RevocationVoidsProofs
    /\ RecoveryOnlyEnrols
=============================================================================
