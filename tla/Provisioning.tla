---------------------------- MODULE Provisioning ----------------------------
(***************************************************************************)
(* Outbound provisioning: the desired state kept per connector and account *)
(* (sync_resource_state), the outbox that delivers it                      *)
(* (account_sync_events), the fence that owns one remote write             *)
(* (sync_delivery_attempts), and the dispatchers that carry events from a  *)
(* claim to a recorded outcome.                                            *)
(*                                                                         *)
(* Every store method runs in one SQLite IMMEDIATE transaction, so each is *)
(* one atomic action here; a dispatcher is between two transactions at     *)
(* every value of its pc, and the remote system answers, late or never, in *)
(* between.                                                                *)
(***************************************************************************)
EXTENDS Naturals, Integers, FiniteSets

CONSTANTS
    Systems,       \* paired systems (connectors)
    ScimSystems,   \* the ones of type 'scim'; the others are suite webhooks
    Users,         \* accounts of the directory
    Dispatchers,   \* events in the hands of some DispatchPendingEvents pass
    Tokens,        \* claim tokens (uuids)
    NoToken,       \* claim_token = ''
    AttemptLimit,  \* delivery budget of an event (5 in the code)
    MaxSerial,     \* bound per connector: no operator action once an account has so many
                   \* events there
    MaxResets,     \* bound: MFA-reset notifications in the outbox
    Removable,     \* bound: systems an administrator may unpair
    MaxRestores    \* bound: restores of a backup capsule

ASSUME ScimAssumption == ScimSystems \subseteq Systems
ASSUME TokenAssumption == NoToken \notin Tokens
ASSUME LimitAssumption == /\ AttemptLimit \in Nat \ {0}
                          /\ MaxSerial \in [Systems -> Nat] /\ MaxResets \in Nat
                          /\ MaxRestores \in Nat

Pairs == Systems \X Users

\* The absence of a row in sync_delivery_attempts and in sync_resource_state.
NoFence == [token |-> NoToken, id |-> 0]
NoRow == [exists |-> FALSE, active |-> FALSE, provisioned |-> FALSE,
          rev |-> 0, offboarded |-> FALSE, settled |-> -1]

VARIABLES
    users,    \* directory status; "ended" is active past its end date
    granted,  \* <<system, user>> whose app policy or assignment grants access
    paired,   \* systems still in paired_systems
    held,     \* systems with provisioning_hold
    state,    \* sync_resource_state (settled: ghost, the revision last acknowledged, -1 if
              \* none was since the last restore)
    events,   \* account_sync_events
    serial,   \* last event id issued per pair; ids stand for rowid order
    fence,    \* sync_delivery_attempts
    linked,   \* scim_user_links with a remote id
    disp,     \* one event's passage through DispatchPendingEvents
    wire,     \* remote writes sent and neither applied nor lost
    remote,   \* what each target really holds
    applied,  \* ghost: id of the last event whose write reached the target
    capsule,  \* ghost: <<pair, id>> of desired-state work a restore closed out
    restores

directory == <<users, granted, paired, held>>
outbox == <<state, events, serial>>
target == <<wire, remote, applied>>
ghosts == <<capsule, restores>>
vars == <<users, granted, paired, held, state, events, serial, fence, linked,
          disp, wire, remote, applied, capsule, restores>>

-----------------------------------------------------------------------------
(* Shapes                                                                  *)

UserStatus == {"absent", "active", "ended", "disabled", "gone"}
EventTypes == {"created", "updated", "deleted", "mfa_reset"}

Event == [pair : Pairs, id : Nat, type : EventTypes, active : BOOLEAN,
          rev : Int, status : {"pending", "failed", "delivered"},
          attempts : Nat, leased : BOOLEAN, token : Tokens \cup {NoToken}]

Row == [exists : BOOLEAN, active : BOOLEAN, provisioned : BOOLEAN,
        rev : Nat, offboarded : BOOLEAN, settled : Int]

\* "acked", "rejected", "missing" and "unread" are known outcomes that
\* FinishSyncDelivery has yet to record.
Known == {"acked", "rejected", "missing", "unread"}
DispatcherPc == {"idle", "claimed", "begun", "sent", "uncertain"} \cup Known
Idle == [pc |-> "idle"]
Working == [pc : DispatcherPc \ {"idle"}, ev : Event, sys : BOOLEAN]

RemoteStatus == {"none", "active", "inactive"}

Fenced(e) == fence[e.pair].id = e.id /\ fence[e.pair] # NoFence

\* The view effective_app_access: an active account that has not ended, with a grant.
Access(g, u) == {p \in g : p[1] \in paired /\ u[p[2]] = "active"}

Stateless(e) == e.type \in {"deleted", "mfa_reset"}

-----------------------------------------------------------------------------
(* Transaction bodies, over D = [state, events, serial]                    *)

Tables == [state : [Pairs -> Row], events : SUBSET Event, serial : [Pairs -> Nat]]
Db == [state |-> state, events |-> events, serial |-> serial]

NewEvent(D, p, type, active, rev) ==
    [pair |-> p, id |-> D.serial[p] + 1, type |-> type, active |-> active,
     rev |-> rev, status |-> "pending", attempts |-> 0, leased |-> FALSE,
     token |-> NoToken]

\* insertResourceEventTx: new[p] is the event queued for each pair of its domain.
Insert(D, new) ==
    [state |-> D.state,
     events |-> D.events \cup {new[p] : p \in DOMAIN new},
     serial |-> [p \in Pairs |-> IF p \in DOMAIN new THEN D.serial[p] + 1 ELSE D.serial[p]]]

\* Nothing downstream has heard of this resource: forget it.
Forgotten(D, p, want) ==
    want \in {"off", "delete"} /\ ~D.state[p].provisioned /\ fence[p] = NoFence

EventType(D, p, want) ==
    CASE want = "delete" -> "deleted"
      [] want = "resend" \/ (want = "on" /\ ~D.state[p].provisioned) -> "created"
      [] OTHER -> "updated"

Superseded(e) ==
    e.status \in {"pending", "failed"} /\ ~Stateless(e) /\ ~Fenced(e)

\* The bug that lets an acknowledgement outlive the state it acknowledged.
NextRowKeepingAck(row, want) ==
    [row EXCEPT !.exists = TRUE, !.active = want \in {"on", "resend"}, !.rev = @ + 1]

NextRow(row, want) ==
    [row EXCEPT !.exists = TRUE, !.active = want \in {"on", "resend"},
                !.rev = @ + 1, !.offboarded = FALSE]

\* queueDesiredStateTx for every pair W does not "keep". W[p] is one of
\* "on", "resend" (on, with force), "off", "delete" (off, announced as removal).
QueueDesiredState(D, W) ==
    LET touched == {p \in Pairs : W[p] # "keep"}
        queued == {p \in touched : ~Forgotten(D, p, W[p])}
        rows == [p \in Pairs |->
                    IF p \in queued THEN NextRow(D.state[p], W[p])
                    ELSE IF p \in touched THEN NoRow ELSE D.state[p]]
        kept == {e \in D.events : ~(e.pair \in touched /\ Superseded(e))}
    IN  Insert([state |-> rows, events |-> kept, serial |-> D.serial],
               [p \in queued |->
                  NewEvent(D, p, EventType(D, p, W[p]), rows[p].active, rows[p].rev)])

\* queueUserUpdateTx: a profile change for accounts desired and staying desired.
QueueUserUpdate(D, u, acc) ==
    QueueDesiredState(D, [p \in Pairs |->
        IF p[2] = u /\ D.state[p].active /\ p \in acc THEN "on" ELSE "keep"])

\* offboardUserTx: every connector that holds the account by a row or a link.
Offboard(D, u, want) ==
    LET holds == {p \in Pairs : /\ p[2] = u /\ p[1] \in paired
                                /\ D.state[p].exists \/ p \in linked}
        rows == [p \in Pairs |->
                   IF p \in holds /\ p \in linked
                   THEN [D.state[p] EXCEPT !.exists = TRUE, !.provisioned = TRUE]
                   ELSE D.state[p]]
    IN  QueueDesiredState([state |-> rows, events |-> D.events, serial |-> D.serial],
                          [p \in Pairs |-> IF p \in holds THEN want ELSE "keep"])

\* Exhausted work: what a newer state has overtaken is discarded, what still
\* describes the current state, or carries none, re-enters the queue.
Exhausted(e) == e.status = "failed" /\ ~Fenced(e)
Current(D, e) == D.state[e.pair].exists /\ e.rev = D.state[e.pair].rev
Revived(e) == [e EXCEPT !.status = "pending", !.attempts = 0]

\* Bug: giving up on exhausted work, as if desired state lapsed.
SweepDroppingAll(D) ==
    [state |-> D.state, serial |-> D.serial,
     events |-> {e \in D.events : Exhausted(e) => Stateless(e)}]

Sweep(D) ==
    [state |-> D.state, serial |-> D.serial,
     events |-> {IF Exhausted(e) THEN Revived(e) ELSE e :
                   e \in {f \in D.events : Exhausted(f) => Stateless(f) \/ Current(D, f)}}]

\* reconcileProvisioningTx, for accounts.
Reconcile(D, acc) ==
    Sweep(QueueDesiredState(D, [p \in Pairs |->
        CASE p \in acc /\ ~D.state[p].active -> "on"
          [] p \notin acc /\ D.state[p].active -> "off"
          [] OTHER -> "keep"]))

Commit(D) == state' = D.state /\ events' = D.events /\ serial' = D.serial

-----------------------------------------------------------------------------
Init ==
    /\ users = [u \in Users |-> "absent"]
    /\ granted \in SUBSET Pairs
    /\ paired = Systems
    /\ held = {}
    /\ state = [p \in Pairs |-> NoRow]
    /\ events = {}
    /\ serial = [p \in Pairs |-> 0]
    /\ fence = [p \in Pairs |-> NoFence]
    /\ linked = {}
    /\ disp = [d \in Dispatchers |-> Idle]
    /\ wire = {}
    /\ remote = [p \in Pairs |-> "none"]
    /\ applied = [p \in Pairs |-> 0]
    /\ capsule = {}
    /\ restores = 0

-----------------------------------------------------------------------------
(* Directory operations                                                    *)

\* Named bound on what administrators do.
MayOperate == \A p \in Pairs : serial[p] < MaxSerial[p[1]]
Delivery == <<fence, linked, disp, target, ghosts>>

\* CreateUserWithSyncEvents
CreateUser(u) ==
    /\ MayOperate /\ users[u] = "absent"
    /\ users' = [users EXCEPT ![u] = "active"]
    /\ Commit(Reconcile(Db, Access(granted, users')))
    /\ UNCHANGED <<granted, paired, held, Delivery>>

\* updateUser: profile edits, disablement, re-enablement. An account past its end
\* date reads as disabled, so disabling it again does not offboard.
UpdateUser(u, to) ==
    /\ MayOperate /\ users[u] \in {"active", "ended", "disabled"}
    /\ to = "ended" => users[u] = "ended"
    /\ users' = [users EXCEPT ![u] = to]
    /\ LET acc == Access(granted, users')
           d == IF users[u] = "active" /\ to = "disabled" THEN Offboard(Db, u, "off") ELSE Db
       IN  Commit(Reconcile(QueueUserUpdate(d, u, acc), acc))
    /\ UNCHANGED <<granted, paired, held, Delivery>>

\* The end date of an account passes; effective access ends with no transaction.
EndDatePasses(u) ==
    /\ MayOperate /\ users[u] = "active"
    /\ users' = [users EXCEPT ![u] = "ended"]
    /\ UNCHANGED <<granted, paired, held, outbox, Delivery>>

\* RunDueExpiries, the step for one ended account.
ExpireAccount(u) ==
    /\ users[u] = "ended"
    /\ users' = [users EXCEPT ![u] = "disabled"]
    /\ Commit(Offboard(Db, u, "off"))
    /\ UNCHANGED <<granted, paired, held, Delivery>>

\* DeleteUserWithSyncEvents. Connectors without a row get a bare deletion, recorded
\* as a target at revision 0.
DeleteUser(u) ==
    /\ MayOperate /\ users[u] \in {"active", "ended", "disabled"}
    /\ users' = [users EXCEPT ![u] = "gone"]
    /\ granted' = {p \in granted : p[2] # u}
    /\ LET d == Offboard(Db, u, "delete")
           strangers == {p \in Pairs : p[2] = u /\ p[1] \in paired /\ ~d.state[p].exists}
           rows == [p \in Pairs |->
                      IF p \in strangers THEN [NoRow EXCEPT !.exists = TRUE] ELSE d.state[p]]
           told == Insert([state |-> rows, events |-> d.events, serial |-> d.serial],
                          [p \in strangers |-> NewEvent(d, p, "deleted", FALSE, 0)])
       IN  Commit(Reconcile(told, Access(granted', users')))
    /\ UNCHANGED <<paired, held, Delivery>>

\* ResetUserMFA: a notification for every connector that holds the account. It
\* neither supersedes nor is superseded.
ResetMFA(u) ==
    /\ MayOperate /\ users[u] \in {"active", "ended", "disabled"}
    /\ Cardinality({e \in events : e.type = "mfa_reset"}) < MaxResets
    /\ LET told == {p \in Pairs : p[2] = u /\ state[p].active}
       IN  Commit(Insert(Db, [p \in told |->
                    NewEvent(Db, p, "mfa_reset", users[u] = "active", state[p].rev)]))
    /\ UNCHANGED <<directory, Delivery>>

\* setAppAssignment, SetAppPolicy and group changes: an access mutation reconciles
\* in its own transaction.
ChangeAccess(p) ==
    /\ MayOperate /\ p[1] \in paired /\ users[p[2]] # "gone"
    /\ granted' = IF p \in granted THEN granted \ {p} ELSE granted \cup {p}
    /\ Commit(Reconcile(Db, Access(granted', users)))
    /\ UNCHANGED <<users, paired, held, Delivery>>

\* Access that changes without a mutation path: an assignment or membership expires,
\* a client deletion cascades.
AccessDrifts(p) ==
    /\ MayOperate /\ p \in granted
    /\ granted' = granted \ {p}
    /\ UNCHANGED <<users, paired, held, outbox, Delivery>>

\* ReconcileProvisioning: the worker's minute tick, and the shared follow-up of
\* RunDueExpiries.
ReconcileTick ==
    /\ Commit(Reconcile(Db, Access(granted, users)))
    /\ UNCHANGED <<directory, Delivery>>

\* ResyncSystem: re-send everything desired of one connector.
ResyncSystem(s) ==
    /\ MayOperate /\ s \in paired
    /\ LET d == Reconcile(Db, Access(granted, users))
       IN  Commit(QueueDesiredState(d, [p \in Pairs |->
               IF p[1] = s /\ d.state[p].active THEN "resend" ELSE "keep"]))
    /\ UNCHANGED <<directory, Delivery>>

\* DeletePairedSystem: rows, links and fences go with the system, events stay.
DeletePairedSystem(s) ==
    /\ s \in paired \cap Removable
    /\ paired' = paired \ {s}
    /\ held' = held \ {s}
    /\ granted' = {p \in granted : p[1] # s}
    /\ state' = [p \in Pairs |-> IF p[1] = s THEN NoRow ELSE state[p]]
    /\ fence' = [p \in Pairs |-> IF p[1] = s THEN NoFence ELSE fence[p]]
    /\ linked' = {p \in linked : p[1] # s}
    /\ UNCHANGED <<users, events, serial, disp, target, ghosts>>

\* DeleteDeliveredSyncEvents
Prune(e) ==
    /\ e.status = "delivered"
    /\ events' = events \ {e}
    /\ UNCHANGED <<directory, state, serial, Delivery>>

-----------------------------------------------------------------------------
(* Delivery: DispatchPendingEvents, one event                              *)

\* Bug: claiming on a held system.
DueWhileHeld(e) ==
    /\ e.status = "pending" /\ e.attempts < AttemptLimit /\ ~e.leased
    /\ fence[e.pair] = NoFence
    /\ \A f \in events : f.pair = e.pair /\ f.status = "pending"
                         /\ f.attempts < AttemptLimit => f.id >= e.id

\* The WHERE clause of ClaimDueSyncEvents. Backoff is left out: any time may pass.
Due(e) ==
    /\ e.status = "pending" /\ e.attempts < AttemptLimit /\ ~e.leased
    /\ fence[e.pair] = NoFence
    /\ \A f \in events : f.pair = e.pair /\ f.status = "pending"
                         /\ f.attempts < AttemptLimit => f.id >= e.id
    /\ e.pair[1] \notin held

TokensInUse ==
    {e.token : e \in events} \cup {fence[p].token : p \in Pairs} \cup
    {w.token : w \in wire} \cup {disp[d].ev.token : d \in {c \in Dispatchers : disp[c] # Idle}}

Step(d, pc) == disp' = [disp EXCEPT ![d].pc = pc]
Drop(d) == disp' = [disp EXCEPT ![d] = Idle]

\* ClaimDueSyncEvents: a lease and a fresh token.
Claim(d) ==
    /\ disp[d] = Idle
    /\ Tokens \ TokensInUse # {}
    /\ \E e \in events :
         LET t == CHOOSE t \in Tokens : t \notin TokensInUse
             mine == [e EXCEPT !.leased = TRUE, !.token = t]
         IN  /\ Due(e)
             /\ events' = (events \ {e}) \cup {mine}
             /\ disp' = [disp EXCEPT ![d] = [pc |-> "claimed", ev |-> mine,
                                             sys |-> e.pair[1] \in paired]]
    /\ UNCHANGED <<directory, state, serial, fence, linked, target, ghosts>>

LeaseExpires(e) ==
    /\ e.leased
    /\ events' = (events \ {e}) \cup {[e EXCEPT !.leased = FALSE]}
    /\ UNCHANGED <<directory, state, serial, Delivery>>

\* The claimed row is still there, still leased to this claim and still pending.
ClaimValid(ev) ==
    \E e \in events : /\ e.pair = ev.pair /\ e.id = ev.id /\ e.token = ev.token
                      /\ e.leased /\ e.status = "pending"

MayBegin(ev) == ClaimValid(ev) /\ fence[ev.pair] = NoFence

\* BeginSyncDelivery
Begin(d) ==
    /\ disp[d].pc = "claimed"
    /\ MayBegin(disp[d].ev)
    /\ fence' = [fence EXCEPT ![disp[d].ev.pair] =
                    [token |-> disp[d].ev.token, id |-> disp[d].ev.id]]
    /\ Step(d, "begun")
    /\ UNCHANGED <<directory, outbox, linked, target, ghosts>>

BeginRefused(d) ==
    /\ disp[d].pc = "claimed"
    /\ ~MayBegin(disp[d].ev)
    /\ Drop(d)
    /\ UNCHANGED <<directory, outbox, fence, linked, target, ghosts>>

\* What the pass finds before it sends: the system is gone; it could not be read; the
\* secret, the configuration or a SCIM lookup fails. The system is read once per pass,
\* so it may have been unpaired since (sys: paired when the event was claimed).
LoadSystem(d) ==
    /\ disp[d].pc = "begun"
    /\ \/ disp[d].ev.pair[1] \notin paired /\ Step(d, "missing")
       \/ Step(d, "unread")
       \/ disp[d].sys /\ Step(d, "rejected")
    /\ UNCHANGED <<directory, outbox, fence, linked, target, ghosts>>

Scim(ev) == ev.pair[1] \in ScimSystems

\* deliverSCIM: an externalId lookup that finds the account stores the mapping.
FindRemote(d) ==
    LET p == disp[d].ev.pair IN
    /\ disp[d].pc = "begun" /\ disp[d].sys /\ p[1] \in paired
    /\ Scim(disp[d].ev) /\ disp[d].ev.type # "mfa_reset"
    /\ remote[p] # "none" /\ p \notin linked
    /\ linked' = linked \cup {p}
    /\ UNCHANGED <<directory, outbox, fence, disp, target, ghosts>>

\* deliverSCIM sends nothing for an MFA reset, nor to deactivate an absent account.
NothingToSend(ev) ==
    Scim(ev) /\ (ev.type = "mfa_reset" \/ (~ev.active /\ remote[ev.pair] = "none"))

SkipWrite(d) ==
    /\ disp[d].pc = "begun" /\ disp[d].sys
    /\ NothingToSend(disp[d].ev)
    /\ Step(d, "acked")
    /\ UNCHANGED <<directory, outbox, fence, linked, target, ghosts>>

\* deliver, deliverSCIM: one mutation. A SCIM account the lookup finds is linked first.
Send(d) ==
    /\ disp[d].pc = "begun" /\ disp[d].sys
    /\ ~NothingToSend(disp[d].ev)
    /\ Scim(disp[d].ev) /\ remote[disp[d].ev.pair] # "none" => disp[d].ev.pair \in linked
    /\ wire' = wire \cup {disp[d].ev}
    /\ Step(d, "sent")
    /\ UNCHANGED <<directory, outbox, fence, linked, remote, applied, ghosts>>

\* What the target does with a write it accepts.
Lands(w) ==
    /\ wire' = wire \ {w}
    /\ IF w.type = "mfa_reset" THEN UNCHANGED <<remote, applied>>
       ELSE /\ remote' = [remote EXCEPT ![w.pair] =
                            IF w.active THEN "active"
                            ELSE IF @ = "none" THEN "none" ELSE "inactive"]
            /\ applied' = [applied EXCEPT ![w.pair] = w.id]

Awaiting(d) == disp[d].pc = "sent" /\ disp[d].ev \in wire

\* 200, 201, 204 (and 404 for a removal): a SCIM create also stores the link.
Accept(d) ==
    LET ev == disp[d].ev IN
    /\ Awaiting(d) /\ Lands(ev) /\ Step(d, "acked")
    /\ linked' = IF Scim(ev) /\ ev.active /\ ev.pair[1] \in paired
                 THEN linked \cup {ev.pair} ELSE linked
    /\ UNCHANGED <<directory, outbox, fence, ghosts>>

\* A webhook target answers 409 to a create of an account it holds.
Conflict(d) ==
    LET ev == disp[d].ev IN
    /\ Awaiting(d) /\ ~Scim(ev) /\ ev.type = "created" /\ remote[ev.pair] = "active"
    /\ wire' = wire \ {ev} /\ Step(d, "acked")
    /\ UNCHANGED <<directory, outbox, fence, linked, remote, applied, ghosts>>

\* A 4xx other than 408: the target did not apply the write.
Refuse(d) ==
    /\ Awaiting(d)
    /\ wire' = wire \ {disp[d].ev} /\ Step(d, "rejected")
    /\ UNCHANGED <<directory, outbox, fence, linked, remote, applied, ghosts>>

\* createSCIMUser: 201 without a usable id or with another externalId is an error,
\* though the account now exists.
AcceptUnusable(d) ==
    LET ev == disp[d].ev IN
    /\ Awaiting(d) /\ Scim(ev) /\ ev.active /\ ev.pair \notin linked
    /\ Lands(ev) /\ Step(d, "rejected")
    /\ UNCHANGED <<directory, outbox, fence, linked, ghosts>>

\* Timeout, connection loss, 5xx, 202 or 408 on a mutation.
LoseAnswer(d) ==
    /\ disp[d].pc = "sent"
    /\ Step(d, "uncertain")
    /\ UNCHANGED <<directory, outbox, fence, linked, target, ghosts>>

\* A write nobody waits for any more lands late, or never.
Late(w) ==
    /\ Lands(w) \/ (wire' = wire \ {w} /\ UNCHANGED <<remote, applied>>)
    /\ UNCHANGED <<directory, outbox, fence, linked, disp, ghosts>>

\* Bug: an uncertain outcome recorded like a plain failure, the fence released.
MarkUncertainReleasing(d) ==
    /\ disp[d].pc = "uncertain"
    /\ fence' = [fence EXCEPT ![disp[d].ev.pair] = NoFence]
    /\ Drop(d)
    /\ UNCHANGED <<directory, outbox, linked, target, ghosts>>

\* MarkSyncDeliveryUncertain: the fence stays.
MarkUncertain(d) ==
    /\ disp[d].pc = "uncertain"
    /\ Drop(d)
    /\ UNCHANGED <<directory, outbox, fence, linked, target, ghosts>>

\* The status and attempts FinishSyncDelivery writes for each known outcome.
Outcome(pc, attempts) ==
    CASE pc = "acked" -> [status |-> "delivered", attempts |-> attempts + 1]
      [] pc = "missing" -> [status |-> "failed", attempts |-> attempts]
      [] pc = "unread" -> [status |-> "pending", attempts |-> attempts]
      [] pc = "rejected" ->
           [status |-> IF attempts + 1 >= AttemptLimit THEN "failed" ELSE "pending",
            attempts |-> attempts + 1]

\* provisionedTx: a delivered inactive state of the current revision is the
\* acknowledgement; a delivered create or update marks the row provisioned.
Acknowledge(row, ev) ==
    IF ~row.exists \/ ev.type = "mfa_reset" THEN row
    ELSE [row EXCEPT !.offboarded = @ \/ (ev.type # "created" /\ ~row.active /\ ev.rev = row.rev),
                     !.provisioned = @ \/ ev.type # "deleted",
                     !.settled = ev.rev]

\* FinishSyncDelivery: only the attempt that still owns the fence records an outcome.
Finish(d) ==
    LET ev == disp[d].ev
        out == Outcome(disp[d].pc, ev.attempts)
        mine == {e \in events : e.pair = ev.pair /\ e.id = ev.id /\ e.token = ev.token}
    IN
    /\ disp[d].pc \in Known
    /\ Drop(d)
    /\ IF fence[ev.pair].token = ev.token
       THEN /\ fence' = [fence EXCEPT ![ev.pair] = NoFence]
            /\ events' = (events \ mine) \cup
                 {[e EXCEPT !.status = out.status, !.attempts = out.attempts,
                            !.leased = FALSE, !.token = NoToken] : e \in mine}
            /\ state' = IF out.status = "delivered"
                        THEN [state EXCEPT ![ev.pair] = Acknowledge(@, ev)] ELSE state
       ELSE UNCHANGED <<fence, events, state>>
    /\ UNCHANGED <<directory, serial, linked, target, ghosts>>

\* The process stops, or the pass returns early on a database error.
Crash(d) ==
    /\ disp[d] # Idle
    /\ Drop(d)
    /\ UNCHANGED <<directory, outbox, fence, linked, target, ghosts>>

-----------------------------------------------------------------------------
(* Operator recovery and restore                                           *)

\* What the operator confirms: the attempt is over, nothing of it is still running.
Quiescent(t) ==
    /\ \A w \in wire : w.token # t
    /\ \A d \in Dispatchers : disp[d].pc \in {"begun", "sent"} => disp[d].ev.token # t

\* Bug: recovery that discards the attempt's event along with its fence.
ResumeDiscarding(p) ==
    /\ fence[p] # NoFence
    /\ Quiescent(fence[p].token)
    /\ fence' = [fence EXCEPT ![p] = NoFence]
    /\ events' = {e \in events : e.pair # p \/ e.id # fence[p].id}
    /\ UNCHANGED <<directory, state, serial, linked, disp, target, ghosts>>

\* ResumeSyncDelivery: the fence goes and its event is queued afresh.
ResumeSyncDelivery(p) ==
    /\ fence[p] # NoFence
    /\ Quiescent(fence[p].token)
    /\ fence' = [fence EXCEPT ![p] = NoFence]
    /\ LET its == {e \in events : e.pair = p /\ e.id = fence[p].id}
       IN  events' = (events \ its) \cup
             {[e EXCEPT !.status = "pending", !.attempts = 0, !.leased = FALSE,
                        !.token = NoToken] : e \in its}
    /\ UNCHANGED <<directory, state, serial, linked, disp, target, ghosts>>

\* Bug: closing the queue out without the sentinel revision.
ClosedKeepingRevision(e) == [e EXCEPT !.status = "failed", !.leased = FALSE, !.token = NoToken]

\* Revision -1 is one no state row can carry.
Closed(e) == [e EXCEPT !.status = "failed", !.rev = -1, !.leased = FALSE, !.token = NoToken]

\* A row as the capsule has it; nothing in it was acknowledged since the restore (ghost).
FromCapsule(row) == [row EXCEPT !.settled = -1]

\* What a target may hold once the world has moved on: this directory never deletes an
\* account there, so one it once made is switched on or off.
MovedOn(r) == IF r = "none" THEN RemoteStatus ELSE RemoteStatus \ {"none"}

\* The directory comes back from a capsule on a fresh process, nothing sent by the old one
\* still under way. The database is the capsule, sync_resource_state included; the targets
\* are as the server left them after it was taken, which no table here knows of.
ApplyRestoredState ==
    /\ restores < MaxRestores
    /\ restores' = restores + 1
    /\ LET open == {e \in events : e.status \in {"pending", "failed"} /\ e.rev # -1}
       IN  /\ events' = (events \ open) \cup {Closed(e) : e \in open}
           /\ capsule' = capsule \cup {<<e.pair, e.id>> : e \in {f \in open : ~Stateless(f)}}
    /\ held' = paired
    /\ fence' = [p \in Pairs |-> NoFence]
    /\ disp' = [d \in Dispatchers |-> Idle]
    /\ wire' = {}
    /\ remote' \in [Pairs -> RemoteStatus] /\ \A p \in Pairs : remote'[p] \in MovedOn(remote[p])
    /\ state' = [p \in Pairs |-> FromCapsule(state[p])]
    /\ UNCHANGED <<users, granted, paired, serial, linked, applied>>

\* ResumeProvisioning: the hold lifted on the operator's word.
ResumeProvisioning(s) ==
    /\ s \in held
    /\ held' = held \ {s}
    /\ UNCHANGED <<users, granted, paired, outbox, Delivery>>

-----------------------------------------------------------------------------
UserStep(u) ==
    \/ CreateUser(u)
    \/ \E to \in {"active", "ended", "disabled"} : UpdateUser(u, to)
    \/ EndDatePasses(u)
    \/ ExpireAccount(u)
    \/ DeleteUser(u)
    \/ ResetMFA(u)

SystemStep(s) ==
    \/ ResyncSystem(s)
    \/ DeletePairedSystem(s)
    \/ ResumeProvisioning(s)

DispatcherStep(d) ==
    \/ Claim(d) \/ Begin(d) \/ BeginRefused(d) \/ LoadSystem(d) \/ FindRemote(d)
    \/ SkipWrite(d) \/ Send(d) \/ Accept(d) \/ Conflict(d) \/ Refuse(d)
    \/ AcceptUnusable(d) \/ LoseAnswer(d) \/ MarkUncertain(d) \/ Finish(d)
    \/ Crash(d)

Next ==
    \/ \E u \in Users : UserStep(u)
    \/ \E s \in Systems : SystemStep(s)
    \/ \E p \in Pairs : ChangeAccess(p) \/ AccessDrifts(p) \/ ResumeSyncDelivery(p)
    \/ ReconcileTick
    \/ \E e \in events : LeaseExpires(e) \/ Prune(e)
    \/ \E d \in Dispatchers : DispatcherStep(d)
    \/ \E w \in wire : Late(w)
    \/ ApplyRestoredState

Spec == Init /\ [][Next]_vars

\* The tickers of StartWorker keep firing, leases lapse, requests time out, writes end,
\* operators recover fenced attempts; and a pass that is started again and again is
\* not stopped at the same step every time: the target accepts one of endless retries.
Recorded(d) ==
    /\ Finish(d) /\ disp[d].pc = "acked"
    /\ fence[disp[d].ev.pair].token = disp[d].ev.token

Fairness ==
    /\ WF_vars(ReconcileTick)
    /\ WF_vars(\E e \in events : LeaseExpires(e))
    /\ WF_vars(\E w \in wire : Late(w))
    /\ \A u \in Users : WF_vars(ExpireAccount(u))
    /\ \A p \in Pairs : WF_vars(ResumeSyncDelivery(p))
    /\ \A d \in Dispatchers :
         /\ WF_vars(Claim(d)) /\ WF_vars(BeginRefused(d))
         /\ WF_vars(LoseAnswer(d)) /\ WF_vars(MarkUncertain(d))
         /\ SF_vars(Begin(d)) /\ SF_vars(Send(d) \/ SkipWrite(d))
         /\ SF_vars(Accept(d)) /\ SF_vars(Recorded(d)) /\ WF_vars(Finish(d))

FairSpec == Spec /\ Fairness

-----------------------------------------------------------------------------
(* Properties                                                              *)

\* Every table row, dispatcher and in-flight write has the shape the schema and
\* DispatchPendingEvents give it.
TypeOK ==
    /\ users \in [Users -> UserStatus]
    /\ granted \subseteq Pairs
    /\ paired \subseteq Systems
    /\ held \subseteq paired
    /\ state \in [Pairs -> Row]
    /\ events \subseteq Event
    /\ serial \in [Pairs -> Nat]
    /\ fence \in [Pairs -> [token : Tokens \cup {NoToken}, id : Nat]]
    /\ linked \subseteq Pairs
    /\ disp \in [Dispatchers -> Working \cup {Idle}]
    /\ wire \subseteq Event
    /\ remote \in [Pairs -> RemoteStatus]
    /\ applied \in [Pairs -> Nat]
    /\ capsule \subseteq Pairs \X Nat
    /\ restores \in 0..MaxRestores

\* Tokens of the deliveries that may still write to a resource: begun but unsent, or
\* sent and neither applied nor lost.
Writing(p) ==
    {w.token : w \in {v \in wire : v.pair = p}} \cup
    {disp[d].ev.token : d \in {c \in Dispatchers :
        disp[c].pc \in {"begun", "sent"} /\ disp[c].ev.pair = p}}

\* Two deliveries never write to one account of a connector at the same time, across
\* overlapping passes, expired leases, crashes, lost answers and operator recovery:
\* what BeginSyncDelivery's durable fence is for.
OneWriteInFlight ==
    \A p \in Pairs : p[1] \in paired =>
        \A t1, t2 \in Writing(p) : t1 = t2

\* A write queued earlier never reaches a target after one queued later: no old create
\* is replayed over a newer deactivation (ClaimDueSyncEvents' older-event check, the
\* sweep of overtaken failures, and the fence together).
WritesLandInOrder ==
    [][\A p \in Pairs : p[1] \in paired' => applied'[p] >= applied[p]]_vars

\* An offboarding recorded here is over there: offboarded_at is never set for an account its
\* connector still serves, before a restore and for what is acknowledged after one. What a
\* capsule brings back as offboarded says nothing of a target that has since moved on.
AckedOffboardingIsReal ==
    \A p \in Pairs : p[1] \in paired /\ state[p].offboarded /\ state[p].settled # -1
                       => remote[p] # "active"

\* Desired state does not lapse: a recorded state the connector has not acknowledged
\* always has queued or exhausted work of its own revision behind it. A restore closes
\* the capsule's work on purpose and is the exception.
NoLostDesiredState ==
    restores = 0 => \A p \in Pairs : state[p].exists =>
        \/ state[p].settled = state[p].rev
        \/ \E e \in events : /\ e.pair = p /\ e.rev = state[p].rev
                             /\ e.type # "mfa_reset" /\ e.status # "delivered"

\* The desired-state work a capsule carried is never sent to a target, whatever is
\* resumed, reconciled or resynced afterwards.
CapsuleNeverDelivered == \A w \in wire : <<w.pair, w.id>> \notin capsule

\* A held connector receives nothing: no write is under way to it and no dispatcher
\* has begun one.
HeldConnectorIsSilent ==
    \A p \in Pairs : p[1] \in held => Writing(p) = {}

\* What ApplyRestoredState is for: a restored directory keeps quiet until an operator has
\* looked, and never sends what its capsule was in the middle of.
RestoreIsQuiet == CapsuleNeverDelivered /\ HeldConnectorIsSilent

\* Access that is there to stay reaches the connector, through lost answers, exhausted
\* budgets, crashes and recovery.
Provisioned ==
    \A p \in Pairs : <>[](p \in Access(granted, users)) => <>[](remote[p] = "active")

\* An inactive desired state that is there to stay takes the account away: an
\* exhausted deactivation is retried until the connector takes it.
Deprovisioned ==
    \A p \in Pairs :
        <>[](p[1] \in paired \ held /\ state[p].exists /\ ~state[p].active)
            => <>[](remote[p] # "active")

\* The workers bring every connector to the state recorded for it, in both directions.
DesiredStateReached == Provisioned /\ Deprovisioned
=============================================================================
