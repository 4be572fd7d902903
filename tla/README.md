# KySignOn: TLA+ models

KySignOn is a single-process Go server (HTTP handlers over one SQLite database) that is
an OpenID provider, a user directory, an outbound provisioning engine and an inbound SCIM
service. Its write transactions are `BEGIN IMMEDIATE`: one writer at a time, so a store
method that opens one transaction is one atomic step. What is hard in it happens *between*
transactions: a token request makes five of them, a delivery has an HTTP exchange in the
middle, an administrator's form carries a row read minutes ago, a worker carries a list.
The modules here put an interleaving point at each of those places and nowhere else.

## 1. Inventory

| Component (source) | State it keeps | Operations | What is hard |
|---|---|---|---|
| Outbound provisioning (`store/provisioning.go`, `store/sync_delivery.go`, `sync/sync.go`) | `sync_resource_state`, `account_sync_events`, `sync_delivery_attempts`, `paired_systems.provisioning_hold` | desired state per connector and account, outbox, claim, fence, deliver, record, resume, resync | overlapping passes, leases, lost answers, crashes, order of writes at the target |
| Restore (`store/restore.go`) | the whole database | close queued work, hold connectors, requeue logouts | a snapshot in the middle of deliveries |
| OAuth/OIDC grants (`oauth/oauth.go`, `store/store.go`, `store/app_access.go`) | `authorization_codes`, `issued_tokens`, `oidc_client_sessions`, policy revisions | authorize, exchange, register, bind, revoke | access lost inside an exchange, codes outliving a revocation |
| Sessions (`store/sessions.go`, `store/client_sessions.go`) | `sessions` and what cascades from them | sign in, revoke, expire, clean up | a sid minted for a login that is ending |
| Back-channel logout (`store/logout_deliveries.go`, `oauth/backchannel.go`) | `logout_deliveries` | queue, claim, post, finish, retry, prune | one attempt per client, late finishes, interrupted attempts |
| User directory (`store/store.go`, `api/admin_handlers.go`) | `users` | create, edit, delete; last-administrator guard | forms over old rows |
| Expiry (`store/expiry.go`) | end dates of accounts, memberships, assignments | minute follow-up | list read outside the transactions |
| Inbound SCIM (`store/scim_inbound*.go`) | source ownership of accounts and groups | upstream writes, disconnection | upstream and local state of one account |
| Outbound SCIM (`sync/scim*.go`, `store/scim.go`) | `scim_user_links` | look up, create, replace, deactivate | a create whose answer is lost |
| Drift reconciliation (`store/reconcile.go`, `sync/reconcile.go`) | jobs, observed state | list, compare, repair | a listing older than the state it is compared with |
| Sign-in, second factors, WebAuthn login, lockout (`api/auth_handlers.go`, `api/webauthn_handlers.go`, `mfa/mfa.go`) | `mfa_tokens`, `mfa_methods`, `mfa_challenges`, `webauthn_challenges`, `recovery_codes`, failed logins | password, token, factor, spend, session | two requests of one token, checks that are old when they are used |
| Step-up, passkey registration, device pairing (`store/stepup.go`, `api/stepup_handlers.go`, `api/device_handlers.go`) | `step_up_challenges`, `step_up_tokens`, pairings | ask, answer, cancel, spend, change | two answers to one challenge, a cancel that races a completion, a reset between grant and change |
| Application access (`store/app_access.go`, `store/app_roles.go`, `store/access_requests.go`, `store/delegations.go`) | policy, assignments, roles, requests, owners | assign, map, request, decide, lapse | every path must tell tokens and connector; lists read before their transactions |
| Groups and enrollment policy (`store/groups.go`, `store/enrollment_policy.go`, `store/group_enrollment.go`) | groups, memberships, policies, deadlines | write, join, leave, require | rules spread over triggers and guards; writes computed from an old read |
| Onboarding (`store/onboarding.go`) | `account_tokens` | issue, mail, redeem | a link that outlives what it was issued for |
| Alerts (`store/alerts.go`) | `alert_queue`, `alerts`, `alert_deliveries` | evaluate, fold, acknowledge, resolve, mail | passes cut short, quiet and bursting sources, readers who lose the right |
| Authorization interactions (`store/authorization_interactions.go`) | one-use rows bound to a browser and a login | create, bind, consume | limits and bindings |
| Push relays (`push-relay-shared/`, `workers/`) | token claims, budget in a durable object | claim, settle, take over | sends under a claim that is released |
| Audit, explanation, backup capsules, mail, crypto, configuration, web front end | | | mostly I/O and reads |

How they interact: every change of access, of an account or of a policy runs
`revokeLostAppAccessTx` and `reconcileProvisioningTx` in its own transaction; ending a
session queues rows of `logout_deliveries` in the same transaction; `StartWorker` (3-second
dispatch, minute follow-up), its alert and reconciliation goroutines and `StartLogoutWorker`
(four loops) consume the queues. `PROJECT.json` lists every component with its status, and
every hazard at its line.

## 2. Modules

| Module | Models | Composition |
|---|---|---|
| `Provisioning` | outbound provisioning of user accounts, and the restore | dispatchers, targets, operators and the directory |
| `OAuthGrants` | sessions, codes, tokens, sids, and which logouts are queued | token requests against every revocation |
| `LogoutDelivery` | the logout queue after a row was queued | worker loops, administrators, restarts |
| `AccountLifecycle` | accounts, roles, end dates, upstream state | edits, upstream writes, the expiry follow-up |
| `SignIn` | the sign-ins of one account: password, MFA token, factor, session, lockout | requests, devices, step-ups and changes of the account |
| `ScimDrift` | one resource of a SCIM connector: mapping, delivery, drift jobs, hold | deliveries, reconciliation workers, target, operators |
| `AppAccess` | one application: policy, assignments, roles, requests, owners, expiry | administrators, owners, users, the expiry follow-up |
| `InboundAccounts` | accounts an upstream owns, connectors and tokens, account links | SCIM writes, administrators' edits, link redemptions |
| `InboundGroups` | groups an upstream owns, memberships, enrollment policies and deadlines | SCIM group writes, administrators |
| `StepUp` | step-up challenges and grants, and the changes they guard | requests, browsers, phones, administrators |
| `OneTimeProof` | what a re-authentication promises | abstract; `StepUp` implements it |
| `Alerts` | audit queue, alerts, outages, mail | the alert worker, administrators, the clock |
| `MC*` | symmetry sets and constant functions for TLC | extends the module it is named for |
| `ProvisioningProofs`, `OAuthGrantsProofs`, `SignInProofs`, `StepUpProofs`, `AlertsProofs` | theorems about the module they are named for | extends that module and TLAPS |
| `ClientProofs`, `DirectoryProofs`, `ScimProofs` | theorems about two modules each | extends `LogoutDelivery` and `AppAccess`, `AccountLifecycle` and `InboundGroups`, `InboundAccounts` and `ScimDrift` |

Definitions keep the names of the Go functions where they model one. In each module the
definitions commented *Bug:* are deliberate faults, used only to show that a property can
fail; no specification mentions them.

### Provisioning

A *pair* is a connector and an account. `state` is its row in `sync_resource_state`,
`events` the outbox, ids standing for the rowid order, `fence` the row of
`sync_delivery_attempts`. `disp[d]` is one event's way through `DispatchPendingEvents`:
claimed, begun (fence taken), sent, then acknowledged, rejected, uncertain, unread or
missing, then recorded. `wire` holds writes that may still take effect and `remote` what
targets really have. Transactions on the tables are functions from a record of tables to a
record of tables (`QueueDesiredState`, `Reconcile`, `Offboard`, `Sweep`), so that an action
composes them as the Go code does.

Assumptions. `ResumeSyncDelivery` is the operator's word that the attempt is over: the model
requires it of the wire and of local dispatchers. A restore leaves nothing on the wire; its
database is the capsule, and the targets have moved on since it was taken: of an account
this directory once made there, any status (`MovedOn`), of which no row of the capsule
knows. The ghost `settled`, the revision last acknowledged, starts afresh with a restore, so
it tells an acknowledgement of this server from one the capsule brings back. What else the
lost time changed is in no table of the capsule: the events numbered after the restore are
newer than any write of before. Backoff and `recover_after` are left out, so any time may
pass. A webhook target answers 409 to a create only while it holds the account as active. No
production code sets a connector to `disabled`; pairing a system is an initial state. The
SCIM link marker is over-approximated by an optional lookup before a write; it is modelled
itself in `ScimDrift`.

### OAuthGrants

`ExchangeAuthorizationCode` is `ReadCode`, `Consume`, `RecordIssuedToken`,
`EnsureClientSession`, `Answer`, one transaction each (the answer none), with `Abandon`
for every error return. Revocations are the transactions of `store.go`, `sessions.go`,
`app_access.go`, `app_authentication.go`, `app_roles.go`, `enrollment_policy.go` and
`expiry.go`, composed of `RevokeGrants`, `EndSessions`, `Enqueue` and `Forget`. A user is
`ended` while active past the end date and `halted` when an edit then stored it as
disabled. Requests always carry `openid`; one without it ends like `Abandon`. Interactions
and step-up grants, deleted in the same transactions, are not modelled; a deleted client
is one disabled for good. Expired sessions are dropped without an announcement, as the
repository's README says they should be. The expiry tick is one
step here (`RunDueExpiries` makes several transactions of it); a lapse it has not reached yet
is exempt either way. Ghosts: `logins` (ID tokens a client holds),
`issued` (tokens per code), `takenBack` (codes from before a revocation of their scope).

### LogoutDelivery

A delivery is a number in `created_at` order; a row has a status, attempts, a claim token,
a lease (free, held, lapsed) and whether it is due. The 60-second lease outlasts the
10-second HTTP timeout, so a lease does not lapse under an attempt that is still posting;
it may lapse under one that has its answer. `Claim` is the whole transaction of
`ClaimLogoutDelivery`; when nothing is claimable it returns before the commit, the
deferred rollback undoes its first statement too, and so nothing happens. A restart drops
every worker and no lease. A restore is taken from the queue as it stands: with an older
capsule a delivered row is back in the queue or gone, and the receiver is told once more or
was told already, which `DeliveredIsFinal` does not speak of. Ghosts: `told`, `posts`.

### AccountLifecycle

An edit is `ReadUser` (the row as `scanUser` gives it, an ended account reading as
disabled) and `SaveUser` (form, `updateUser`'s merge with upstream fields, its guards, the
whole row). The follow-up is `ReadEnded` and one `EndAccount` per listed account. The
clock is a bounded counter, end dates are its values. Account creation, pending accounts
and profile fields are left out.

### SignIn

One account. `req[r]` is a request under way: past the lockout check (`password`, or
`reauth` at a step-up), past
`resolveMFAToken` (`resolved`), past a redeemed nonce (`asserted`), with a wrong factor not
yet counted (`missed`), with a right one (`proved`), with the token spent (`open`). Each
stage ends in one statement or transaction of the store: `IsAccountLocked`,
`RecordFailedLogin`, `IssueMFAToken`, `ConsumeTOTPCounter`, `ConsumeRecoveryCode`,
`ConsumeWebAuthnChallenge`, `RecordMFAFailure`, `ConsumeMFAToken`, the guarded insert of
the session; `Abandon` is every other return. Around them a phone answers, the lockout
ends, a session steps up or enrols, and an administrator resets factors, disables, enables
or sets a password. A session is known by the token that opened it. Ghosts: `uses`,
`opened`, `guesses`, `wrong`.

What is left out, and why. Expiry of tokens, challenges, nonces and sessions only takes
possibilities away, so the safety properties lose nothing; end dates of accounts are in
`AccountLifecycle`. TOTP codes are the steps they belong to, and any step may be presented
at any time, which is more than the clock and the window allow. A pending authorization
request changes which page the session continues to, not whether it is opened. A step-up is
its lockout check and, after the password hash and whatever factor it takes, a grant that
clears the count or a failure that adds to it; its challenges and grants are in `StepUp`.
Enrolling TOTP makes three
transactions, taken as one; the code that confirms it is not spent by the server, and is
not counted. `"none"` is a push challenge that was not made or was denied. A server that
stops between a wrong factor and its count would lose that count.

The instance shows the slack of checks made before the statement they protect: a token funds
one wrong factor more for every request that had resolved it already (`GuessBudget`), a
lockout one wrong answer more for every other sign-in or step-up past the check
(`LockoutBudget`). A request that loses the race for a token has spent its code. A sign-in
past its password or its factor goes on after that password or factor was replaced.

### ScimDrift

One connector and one resource, a user or a group. `link` is the row of `scim_user_links`:
absent, a create that began, or a remote id. A delivery goes through lookup, marker, create
or replace, each HTTP exchange a step that may be refused, lost, or applied late.
A worker claims a job, lists the target, compares in one transaction (`ReconcileDrift`) and
finishes; leases lapse under it. Access may also end by the clock, with the row left behind
until the next tick. The target's operators edit, delete and restore. Claims of single
events are left to `Provisioning`, and a job that ended is history whatever its outcome.

Assumptions. The target's operators change nothing between a lookup and the create that
follows it, nor while a create is late; `ResumeSyncDelivery` comes when nothing is on its
way. `Stuck` names what the code leaves to an operator on purpose: an account the connector
has no relation to, an uncertain write, a create marker without an account, a mapping to
another account than the one the target holds, a wanted group mapped to one that is gone.

### AppAccess

Direct assignments, one group, roles with their mappings, requests and owners of one
application that has an OpenID client (`token`, with the roles it carries) and a connection
(`sent`, the last desired state). An instant is absent (`unbounded`), ahead (`bounded`) or
past (`lapsed`). Every store method is an action that ends in `revokeLostAppAccessTx`,
`roleChangeTx` and the reconciliation, as the code does; `RunDueExpiries` reads its lists
and then handles one row per step. `missed` is a ghost: a role change made while a lapsed
row waited for its follow-up concerned this user too.

### InboundAccounts and InboundGroups

A SCIM write is two steps: token and row are read when the request arrives, the
transaction comes later, with whatever happened in between. The same holds for an
administrator's edit and for a link that is mailed. `InboundAccounts` keeps of an account
its owner, identifiers, status, what the upstream wants, the local override, whether it is
pending and its proven address; links carry a ghost that says a later event made them
stale. `InboundGroups` has the group with its members, the part of them the upstream
wrote, the policies and the deadlines of every account under each; the triggers of
`group_enrollment.go` are part of the actions that fire them.

### StepUp and OneTimeProof

`req[r]` is a request between two statements: a step-up being asked for, answered,
cancelled, or a change spending its grant. `row[t]` is the challenge and the grant of one
secret; `uses` and `changed` count what it let through and what that changed.
`OneTimeProof` is the promise: a proof is asked for or given for one operation of one
login, lets that operation through once and changes the account at most once, or dies.
`Stage` is the refinement mapping, read off the rows; the run checks `Contract!Spec`.
`OtherChange` stands for what the account's other step-ups do to its factors. A step-up by
recovery code pays for an enrolment only (`RecoveryOnlyEnrols`): no factor goes, no device is
paired, and the recovery codes stay as they are, except that enrolling TOTP renews them
(`EnableTOTP`), in a transaction that follows the one that saved the factor.

### Alerts

A pass reads clock and recipients, closes quiet login alerts, evaluates events, evaluates
outages, lists due mail and sends it row by row; each is a step, and failing or restarting
at any of them is another. A login failure has an account or an address as its source, and
counts for its address as well. An event has a random id and a `created_at` taken before
its transaction, which may be any instant up to its commit; the queue and the count of
failures go by both (`Precedes`), not by the order of commits. Mail rows carry attempts and
a backoff. A message the relay takes may still be reported as failed, its answer lost
(`mail.go:192`). Ghosts: `missed` (of an event: those after it in that order that were
evaluated before it committed), `late` (messages to someone since they lost the right to
read), `repeats`, `excused` (failed passes, and taken messages reported as failed), and on a
row `again` and `got`. Threshold and window do not change, retention is left out, and a pass
mails everything due (the code: 50).

## 3. Runs

All instances are small because every property is about one account at one connector, one
code, one login, one delivery or two administrators, and every race needs at most two
actors; a second one of each kind is there where two can interfere.

| Run | Instance | Shows |
|---|---|---|
| `provisioning` | a webhook with 2 dispatchers, 3 tokens, 2 events before operators stop and an MFA reset, or a SCIM connector with 3 events and, at any moment, an unpairing or a restore with the target moved on | `OneWriteInFlight`, `NoLostDesiredState`, `AckedOffboardingIsReal`, `RestoreIsQuiet`, `WritesLandInOrder` |
| `provisioning_live` | budget 2, one dispatcher, fair | `DesiredStateReached` |
| `grants` | 1 session, 2 token requests, 1 code, 2 administrative changes, 1 disabling of the client, fair | `UsableTokenHasAccess`, `SpentStaysSpent`, `EndedLoginsAnnounced`, `LoginsFollowAccess` |
| `logout_queue` | 2 deliveries to one client, 2 workers, 2 attempts, a retry, a restart or restore, fair | `OneInFlightUnlessRetried`, `AbsenceMeansTold`, `DeliveredIsFinal`, `AttemptsRunOut` |
| `accounts_writes` | 2 administrators, one owned upstream, 2 open edits, 3 writes, 2 instants, fair | `AdminsOutliveWrites`, `EndsAreEnforced` |
| `sign_in` | 2 MFA tokens, 2 requests, 1 recovery code, 1 TOTP step, limits of 1, 1 change, with nothing or everything enrolled | `TokenOpensOneSession`, `CodesUsedOnce`, `GuessingBounded`, `SessionsNeedActive`, `ApprovalOpensItsSignIn` |
| `scim_drift` | a user or a group, 2 remote ids, 1 worker, 2 job attempts, 1 delivery attempt, 3 upsets, held or not, fair | `OneAccount`, `ReleaseIsEvidence`, `Converges`, `JobsSettle` |
| `app_access` | 2 users, 1 role, 1 group, 2 changes, some grants bounded at the start, fair | `ToldWhatHolds`, `ApprovalTakesEffect`, `FollowUpSettles` |
| `inbound_accounts` | 2 accounts, 2 connectors, 1 SCIM write and 1 edit under way, 6 operations | `StatusFollowsSource`, `LinksFitTheirAccount`, `SidesKeepTheirOwn` |
| `inbound_groups` | 2 accounts, 1 group, 2 factors, 2 SCIM writes under way, 5 operations, 2 instants | `PoliciesCanBeMet`, `GraceNeverRestarts`, `StaleWritesUndoNothing` |
| `step_up` | 2 logins, 1 secret, 2 requests, 5 operations, 2 attempts, 1 administrative change | `OneProofOneChange` (refinement of `OneTimeProof`), `ProofsKeepTheirLimits` |
| `alerts` | an account and an address, threshold 2, ceiling 1, window 1, cooldown 2, 1 connector, 1 recipient, 2 mail attempts, 3 instants, 4 acts, fair | `BurstsShown`, `LoginNoiseBounded`, `MailIsCareful`, `WorkerCatchesUp` |

Some of these are conjunctions, and every part has a mutant of its own: `RestoreIsQuiet`
of `CapsuleNeverDelivered` and `HeldConnectorIsSilent`; `DesiredStateReached` of
`Provisioned` and `Deprovisioned`; `SpentStaysSpent` of `CodeSpentOnce` and
`NoRevivedGrant`; `GuessingBounded` of `GuessBudget` and `LockoutBudget`; `ToldWhatHolds`
of `RolesCurrent` and `ProvisionedHaveAccess`; `SidesKeepTheirOwn` of `LocalDisableHolds`,
`SourceFieldsKept` and `OnlyTheOwnerWrites`; `PoliciesCanBeMet` of `PoliciesSatisfiable`
and `ReachedHaveDeadline`; `StaleWritesUndoNothing` of `RequiredGroupsStay` and
`ConditionalWritesKeepOthers`; `ProofsKeepTheirLimits` of `GuessBudget`,
`CancelledLetsNothingThrough`, `RevocationVoidsProofs` and `RecoveryOnlyEnrols`;
`LoginNoiseBounded` of `LoginAlertsBounded` and `LoginMailCapped`; `MailIsCareful` of
`MailedOnce` and `LostReadersGetOneAtMost`; `WorkerCatchesUp` of `OutagesShown` and
`MailSettles`. `TypeOK` (`AccessTypeOK`, `DriftTypeOK`, `GroupsTypeOK`) of a module says
which values its variables take. It is proved for all eleven modules with a state, so no
run lists it.

Bounds. `MaxSerial`, `MaxResets`, `MaxRestores` (Provisioning), `MaxCodes`, `MaxChanges`,
`ClientToggles` (OAuthGrants), `MaxRetries`, `MaxRestarts` (LogoutDelivery), `MaxWrites`,
`MaxTime` (AccountLifecycle), `MaxChanges`, `MaxStep` (SignIn), `MaxUpsets` (ScimDrift),
`MaxChanges` (AppAccess, StepUp), `MaxOps`, `MaxTime`, `MaxInstant` (InboundAccounts,
InboundGroups, Alerts) limit what people do, what fails and how long the clock runs, never a
worker, a dispatcher or a token request. Attempt limits are 1 or 2 instead of 5 or 8: enough
for a first, a last and an exhausted attempt. Two runs have a constraint on their steps
(`Scenarios`): `provisioning` removes one of its two connectors first and goes on with the
other, whose target alone moves on at a restore; the SCIM connector is unpaired or restored
in a behaviour, not both: nothing is written to an unpaired system, and the proofs cover
both together. `alerts` has up to three login failures and one other act, or the other
rules, in a behaviour, not both; they share no row. With login failures there, the clock and people rest while a pass mails, and
no message fails: what a burst and its mail do is decided before. Outside login failures
events are numbered as they come, since no order of theirs is looked at. `LogoutDelivery`,
`AccountLifecycle`, `SignIn`, `ScimDrift`, `AppAccess`, `InboundAccounts`, `InboundGroups`
and `StepUp` run with `CHECK_DEADLOCK FALSE`: a queue with every delivery settled, a
directory whose bounded writes are spent, an account with no token left to issue, a target
that matches really stop. Symmetry is used where tokens, requests, names or factors are only
compared; no run with a liveness property uses it.

The models reach the following situations, most of which documents or comments of the
repository exclude. The properties above are stated so that they do not claim more than
holds.

Provisioning and restore
- `README.md:552` of the repository says what reaches a resumed connector "is what this
  directory wants now", and `store/restore.go:116` that reconciliation re-derives the work.
  The restore closes a queued deactivation with revision -1 (`store/restore.go:124`); the
  state row already says inactive, so the reconciliation sees nothing to do and a resumed
  webhook connector is never told. A SCIM connector's repair finds the account.
- `store/provisioning.go:156` forgets a row because "nothing downstream has heard of this
  resource". After a create with a lost answer, a resumed fence and a loss of access
  before the redelivery, the account is active at the target.
- A capsule brings back `offboarded_at`, `provisioned` and the desired state as they were
  (`store/restore.go:75` leaves `sync_resource_state` alone), while the target went on. An
  account that was enabled again after the capsule was taken reads as offboarded and is
  active at the target; the row says inactive, so the reconciliation sees nothing to do. A
  create the capsule does not know of leaves a row that is forgotten when access ends.
  `AckedOffboardingIsReal` therefore speaks of what was acknowledged since the last restore.
  A SCIM connector's repair lists the target and sees such accounts; a webhook has no list.
- A drift preview postpones the scheduled repair; a repair that saw the account does not
  mark the row provisioned.

Grants and logout
- `README.md:283` and `:285` say that losing access invalidates codes and that re-granting
  revives none. `UpdateOAuthClientWithAudit` (`store/store.go:1997`) revokes the tokens of a
  client it disables and leaves its codes, which work once the client is enabled again.
  `NoRevivedGrant` ends with the first disabling.
- `README.md:630` queues one delivery per client that saw a login. `enqueueLogoutTx`
  (`store/logout_deliveries.go:51`) skips a disabled client while `revokeLostAppAccessTx`
  deletes its sids, so a client disabled across an expiry tick and enabled again is not
  told of the later sign-out. `EndedLoginsAnnounced` ends with the first disabling too.
- `README.md:640` promises one delivery in flight per client. `RetryLogoutDeliveryNow`
  (`store/logout_deliveries.go:145`) clears the lease of an attempt under way, hence the
  condition of `OneInFlightUnlessRetried`.
- `store/logout_deliveries.go:68` says a delivery out of attempts is marked failed. When
  nothing is claimable `ClaimLogoutDelivery` returns before the commit (line 88) and the
  marking is rolled back: an interrupted last attempt stays queued until another delivery
  becomes claimable.

Accounts and sign-in
- `store/offboarding.go:8` says `offboardUserTx` is the one way a login stops, and
  `README.md:388` that the follow-up disables ended accounts with sessions and grants
  revoked. `scanUser` reads an account past its end date as disabled, so `updateUser`
  (`store/store.go:771`) stores the disabled status without offboarding and the follow-up
  no longer selects the row: its sessions work again when it is enabled.
- `docs/access-lifecycle-plan.md:663` says "stale jobs cannot undo extensions" and
  `store/expiry.go:93` that the last administrator is kept. `RunDueExpiries` reads its
  lists outside the transactions that act on them: an end date moved, an assignment or
  membership extended or an account promoted in between is overridden.
- `store/store.go:2399` says a factor reset "revokes everything that factor was backing".
  `ResetUserMFA` leaves `mfa_tokens` and `mfa_challenges`, so a push approval given before
  the reset, or a code accepted before it, still opens a session afterwards; and a change
  whose grant was spent before the reset still commits after it.
- "A removed method cannot finish" (`api/stepup_handlers.go:232`) holds at the read: a
  method removed between it and the completion does. A password-only step-up whose methods
  were read before a factor was enrolled still gets its grant.

Application access
- A role change made while a lapsed membership or grant waits for its follow-up passes the
  user over (`store/app_roles.go:17`). An approval replaces the instant of an existing
  direct grant. Owners may assign themselves directly although approving one's own request
  is refused.

Inbound
- A create that commits after `DeleteSCIMConnector` (`store/scim_inbound.go:385`) leaves an
  account or group owned by a connector that is gone.
- A link is mailed to the address read before it was minted: when the address changes in
  between, the live link is at the old address, and redeeming it proves the new one.
- A disconnect that disables does not offboard pending accounts (`store/scim_inbound.go:419`);
  an outstanding activation link activates them later.
- An edit from an old form restores an old local status; `If-Match` of a user is compared
  at the read only; a patch writes identifiers read earlier.
- Local membership changes do not move a group's version, so a conditional SCIM patch may
  undo them; without `If-Match` the later of two patches wins; a member another source owns
  makes every patch of the group fail. A policy switched off and on keeps old deadlines.

Alerts
- Login mail is one mailing per cooldown except when an acknowledged alert reopens, which
  mails each time. The window is counted from the pass, so a burst evaluated more than a
  window late (after a downtime) raises no alert.
- A failure that is stamped before and committed after a later one that has been evaluated is
  counted by neither (`store/alerts.go:367`; the stamp is taken at `audit/audit.go:151`,
  before the transaction). `BurstsShown` leaves it out of the later one's burst (`missed`).
- A message whose answer is lost after the relay took it counts as failed and is sent again,
  up to `alertDeliveryAttempts` times, without a pass having failed.
- A "resolved" mail may overtake an "opened" one in backoff.

### Fairness

Weak fairness for what a ticker, a lease or a timeout does: the reconcile tick, claims,
leases running out, lost answers and late writes; the minute follow-up; the logout
workers' polls, answers, finishes, leases and backoffs; deliveries, jobs, their leases and
late writes of `ScimDrift`; the passes of `AppAccess` and `Alerts`, with strong fairness
that a pass of `Alerts` has time to send sometimes. `Provisioning` also assumes that
an operator resumes an uncertain delivery in the end, and strong fairness that a
dispatcher gets to begin and send, that a target accepts sometimes, and that an outcome is
recorded sometimes: a pass may be cut off again and again, but not for ever. Nothing is
assumed of administrators or clients. `LogoutDelivery` lets every finish fail: the budget
alone ends a delivery.

## 4. Proofs

Eight modules hold theorems about the eleven modules that have a state. For each of those
they prove type correctness (`Spec => []TypeOK`) and the safety properties its run checks,
for every value of the constants: any number of accounts, connectors, groups, tokens,
requests and workers. The runs found the inductive invariants false or true on small
instances before they were proved.

Three proof modules extend two models each. The two share no state and are proved apart;
extending both only asks that their names differ, which is why `AppAccess`, `ScimDrift`
and `InboundGroups` have `AccessInit`, `DriftNext`, `GroupsSpec` and the like where the other
modules have `Init`, `Next` and `Spec`, and why an instant is `MaxInstant` and an account one
of `Accounts` in `InboundGroups`. No constant or variable is declared by both, so what one
assumes restricts nothing in the other.

`ProvisioningProofs`:

- `OneWriteInFlightAlways`. The property alone is not inductive: it does not say why two
  dispatchers differ. The invariant `FenceInv` does: tokens of events, dispatchers and
  writes are distinct and real, a dispatcher that may write owns the fence of its pair,
  every write on the wire of a paired system belongs to that fence, and a dispatcher waits
  for the write it sent.
- `RestoreIsQuietAlways`, along `Quiet`: events are numbered, those of the capsule are
  exhausted at a revision no state has (`Sealed`), so neither the sweep nor a resume brings
  one back, and nothing a dispatcher, the wire or a fence holds was in the capsule or is
  for a held connector.
- `WritesLandInOrderAlways`, `AckedOffboardingIsRealAlways` and `NoLostDesiredStateAlways`
  share the invariant `Ordered`. Per pair (`Tidy`): claimed work is the oldest that waits
  and within its budget (`Leased`), a fence belongs to a claimed event that is still there
  (`Owned`), open work is of a revision the row has had (`Described`), the latest work says
  what the row says and nothing that waits is older than what the target applied
  (`Newest`), a recorded offboarding leaves nothing that would bring the account back and,
  where it was acknowledged since the last restore, no active account at the target
  (`Ended`), and until a restore an unsettled row has open work of its own revision
  (`Kept`). Around it: what dispatchers and the wire hold are copies of outbox events
  (`Copied`), removals are queued only for accounts that are gone (`Rested`), and a fence
  names the event of whoever owns it (`Handed`). None of the three holds of a step alone: a
  late write is harmless because its fence kept the event in the outbox, and the event kept
  newer work from being claimed.

`OAuthGrantsProofs`:

- `TypeCorrect` needs `OneOrigin`: whatever descends from a code was minted and tells the
  same of its client and login.
- `UsableTokenHasAccessAlways`, along `TokensBacked`: a token in force belongs to a granted
  scope, an enabled client and an account that no disabling ended.
- `SpentStaysSpentAlways`, along `SpentOnce` (a code is unspent, or one request has spent
  it, or its token is registered) and `NothingBack` (what was taken back is neither a code
  nor a token in force).
- `EndedLoginsAnnouncedAlways`, along `LoginsFollowed`: a sid that was handed to a client,
  or is about to be by a request that bound it, is mapped or its logout is queued.

`ClientProofs`, logout:

- `TypeCorrect`, row by row (`RowOK`): claim token and lease come and go together.
- `DeliveredIsFinalAlways`: a finish writes only where its token stands, a token stands
  only on a queued row, so a delivered one is never touched (`Moves`).
- `AbsenceMeansToldAlways`: strengthened by `AckKnown`, what a worker believes it was told.
- `AttemptBudgetAlways`: strengthened by `Counted`, the column counts the posts. The run
  asks for `AttemptsRunOut` instead, which the prover cannot state.
- `OneInFlightAlways`: `Spec => []OneInFlightUnlessRetried`. The invariant `Exclusive`,
  kept until the first retry by hand, says that an attempt is covered by the one lease of
  its client or the client is gone.

`ClientProofs`, application access, from `AccessInv`:

- `AccessTypeCorrect` and `AppsAreToldWhatHolds`. `ToldWhatHolds` alone is not inductive:
  it says nothing of a user whose membership has lapsed, and a sweep that comes later would
  make whatever was told before count again. `Informed` says of every user what a token and
  the application may have been told: the roles of now, or, while a lapsed membership
  waits, those of the group still included (`Fine`), unless the user is marked as passed
  over; and where no row of the user waits and the follow-up rests, the application has the
  account exactly when the user has access. Each follow-up in the code is one lemma:
  `AccessFollows`, `MembershipFollows` and `RoleFollows` are `accessChangeTx` and
  `roleChangeTx` for the users they are given, and every handler is shown to give them the
  users it concerns.
- `ApprovalsTakeEffect`, an action property: only an approval leaves a request approved,
  and it re-reads whether the application is open and the user has access.

`DirectoryProofs`, accounts:

- `TypeCorrect`, along `Typed == TypeOK /\ FormsExist`: a form is only ever filled in over
  the row of an account that existed.
- `AdminsOutliveWritesAlways`: `Spec => AdminsOutliveWrites`, an action property. A write
  that passes the guard either leaves its account an acting administrator, or was not
  about one, or the guard counted more than one and another remains; a disconnection that
  disables leaves a local one.

`DirectoryProofs`, groups, from `GroupsInv`:

- `GroupsTypeCorrect`.
- `PoliciesAreMet`: `Met` is inductive per account together with the presence of an
  administrator, whose policies include those of every new account, and with members
  being accounts: a trigger looks at the accounts of its own table only, and the lemmas
  (`SameMet`, `StaysMet`) show that no others are reached by more than before. Upstream
  writes check nothing for a new group, so `UnusedGroup` is needed: a group that was never
  created carries no policy.
- `NoSecondGrace`: a trigger keeps every deadline there is (`DuesStay`), an edit takes the
  earlier one, and only a deleted group takes deadlines with it.
- `StaleGroupWritesUndoNothing`: `Seen` says that the version a request read is older than
  the group's or the group still has that name and those upstream members, and no session
  is behind an upstream's write (`NobodyActs`), so a required policy set after the read
  refuses every change of members.

`SignInProofs`:

- `TypeCorrect`, with the account's columns apart from the requests (`HandleTypes`,
  `OtherTypes`): a request past `resolveMFAToken` carries its token.
- `SessionsNeedActiveAlways`: disabling empties the sessions, and the only insert asks for
  an active account in its own statement.
- `TokenOpensOneSessionAlways`: the count alone is not inductive. `OneTaker` adds why:
  spending needs an unused token, so at most one request is about to open a session for
  it, and then it has opened none.
- `CodesUsedOnceAlways`: `Spent` adds that an accepted step is not above the counter and an
  accepted recovery code is no longer unused; every step keeps, takes or renews codes.
- `GuessingBoundedAlways`: check and count are separate statements, at sign-ins and step-ups
  alike, so the bound is the limit and one for each other request in between. `Charged` and
  `Locking` count those requests: a miss is on its token or about to be, and what is counted
  together with what is still trying stays below the limit and the number of requests.
- `ApprovalOpensItsSignInAlways`, along `Approved`: a request that goes on by push has the
  approved challenge of its own token.

`StepUpProofs`:

- `OneProofOneChangeAlways`: `Spec => OneProofOneChange`, the refinement of `OneTimeProof`
  for every step-up at once. Every step maps to a step of one step-up's proof or to none;
  the invariant `Proven` says why: an open challenge has no grant, a grant that is not used
  was not spent (`Sound`), a request that is authorised spent the grant of its own operation
  and changed nothing yet (`Fits`), and no two requests prove or act on one step-up
  (`Apart`).
- `ProofsKeepTheirLimitsAlways`, from `Proven` and `Cancelled`, `Voided` (a step-up from
  before a revocation is over, and whoever is still proving it has lost the login) and
  `Counted` (wrong assertions and the requests that have read the challenge, together).

`ScimProofs`, inbound accounts, all from `Sound == TypeOK /\ StatusFollowsSource /\
LinksFitTheirAccount`, which is inductive because every transaction reads the row again
and derives the status from it:

- `StatusFollowsSourceAlways` and `LinksFitTheirAccountAlways`.
- `SidesKeepTheirOwnAlways`, an action property: each of its parts (`HoldsDown`,
  `KeepsSource`, `OwnerOnly`) is shown of every step.

`ScimProofs`, drift, from `DriftInv`:

- `DriftTypeCorrect` and `NeverTwoAccounts`. `CreatesOnce` adds to `OneAccount` why a create
  is safe: a delivery at its create, and a create that may still land late, find no account
  at the target, because the lookup came after the marker and nobody else creates while the
  marker stands.
- `HoldsLiftOnEvidence`. That a listing was complete when it was read says nothing of the
  moment the job ends. `HeldBack` says that nothing is delivered under a hold and no create
  can be under way, and `Shows` follows a worker: as long as its listing is fresh it shows
  what the target holds (`Sees`), and once it has repaired the target is as wanted, is an
  operator's, or work is queued (`InHand`). Access changes, retries and other workers'
  repairs in between leave that true (`RequeueSettles`, `RepairKeepsSettled`).

`AlertsProofs`, all from `Inv`:

- `BurstsShownAlways`: an event is known by its id (`Logged`), and one that commits among
  later ones names in `missed` those that are evaluated already. So the failures the property
  counts for an event had committed when it was evaluated, and the pass counted them, or
  more: its instant is not after the clock (`Dated`). Quiet resolution closes no alert with
  such a failure under it.
- `LoginNoiseBoundedAlways`: `Counted` bounds the sources with an alert of their own, and
  no mail is later than the instant of the pass that raises alerts (`Dated`), so the
  cooldown sees every mailing.
- `MailIsCarefulAlways`: "repeats are no more than what excuses them" is not inductive.
  `Careful` adds the messages that were taken and that no pass will record any more
  (`Lost`): repeats and lost messages together are no more than the failed passes and lost
  answers, because either loses one message at most and a repeat takes one back. `Filed` and
  `Listed` say that a row is known by its key, number and recipient and stays pending while
  a pass holds it.

The assumptions are those of the modules, which TLC evaluates in the runs: `NoToken` and
`None` are no tokens, logins or operations; recovery codes are no TOTP steps; every
delivery has a client and every session an owner; limits are positive and bounds naturals;
requests are finitely many; administrators and upstream accounts are accounts; no end date
(`Never`) is no instant; `Local` and `Nobody` are no connectors and `Nobody` is no account,
and no address (`NoEmail`) is none; a target's identifiers are not the markers of a link,
and there are some; the keys of alerts of different kinds differ, as rows are unique on
rule and key.

Only model-checked: every liveness property (`DesiredStateReached`, `LoginsFollowAccess`,
`AttemptsRunOut`, `EndsAreEnforced`, `Converges`, `JobsSettle`, `FollowUpSettles`,
`WorkerCatchesUp`).
Liveness under fairness and ENABLED are out of the prover's reach, as is induction over
recursive data, so no module uses a RECURSIVE operator.

## 5. Not modelled

Authorization interactions and the relay coordinator are left for further modules (below).
The rate limiter is a token bucket in one process, and CSRF, headers and permissions are
checks of single requests. Audit rows, views, previews and explanations, formatting,
cryptography, backup files, configuration, mail transport, icons and the front end are I/O
or reads. `PROJECT.json` says for each component what is left out of it.

## 6. Plan

1. `AuthorizationInteractions`: the limits, the binding to a browser and a login across a
   re-authentication, and the one use; another refinement of `OneTimeProof`.
2. `RelayCoordinator`: claims, takeover, settlement and budget of the push relays.

Each module brings one run that asks everything of it at once; runs of one module that a
larger instance can answer together are merged.
