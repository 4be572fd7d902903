------------------------- MODULE ProvisioningProofs -------------------------
(***************************************************************************)
(* Proofs about Provisioning, for any number of connectors, accounts,      *)
(* dispatchers and tokens: type correctness; the fence lets one delivery   *)
(* at a time write to an account of a connector; a restored directory      *)
(* keeps quiet; and desired state is kept, reaches the target in order,    *)
(* and is over there when its offboarding is acknowledged.                 *)
(***************************************************************************)
EXTENDS Provisioning, TLAPS

Busy(d) == disp[d] # Idle

-----------------------------------------------------------------------------
(* Type correctness                                                        *)

\* A row with the columns queueDesiredStateTx writes is a row.
LEMMA NextRowType ==
    ASSUME NEW row \in Row, NEW want
    PROVE  NextRow(row, want) \in Row
<1>1. ASSUME NEW b \in BOOLEAN, NEW n \in Nat
      PROVE  [row EXCEPT !.exists = TRUE, !.active = b, !.rev = n, !.offboarded = FALSE] \in Row
  BY DEF Row
<1>2. (want \in {"on", "resend"}) \in BOOLEAN /\ row.rev + 1 \in Nat
  <2>1. row.rev + 1 \in Nat
    BY DEF Row
  <2> QED  BY <2>1
<1> QED  BY <1>1, <1>2, Zenon DEF NextRow

\* The absent row is a row at revision 0.
LEMMA NoRowType == NoRow \in Row
BY DEF NoRow, Row

\* A row as a restore brings it back is the captured row, unacknowledged since.
Returned(row, row2) ==
    /\ row2 \in Row /\ row2.settled = -1
    /\ row2.exists = row.exists /\ row2.active = row.active /\ row2.rev = row.rev
    /\ row2.offboarded = row.offboarded
    /\ row = NoRow => row2 = NoRow

LEMMA FromCapsuleRow ==
    ASSUME NEW row \in Row
    PROVE  Returned(row, FromCapsule(row))
<1>1. -1 \in Int
  OBVIOUS
<1>2. PICK n \in Int : n = -1
  BY <1>1
<1>3. PICK r : r = [row EXCEPT !.settled = n]
  OBVIOUS
<1>4. /\ r \in Row /\ r.settled = n /\ r.exists = row.exists /\ r.active = row.active
      /\ r.rev = row.rev /\ r.offboarded = row.offboarded
  BY <1>3 DEF Row
<1>5. ASSUME row = NoRow  PROVE r = NoRow
  <2>1. NoRow = [NoRow EXCEPT !.settled = n]
    BY <1>2 DEF NoRow
  <2> QED  BY <1>3, <1>5, <2>1
<1> QED  BY <1>2, <1>3, <1>4, <1>5 DEF FromCapsule, Returned

\* The event insertResourceEventTx queues is an event.
LEMMA NewEventType ==
    ASSUME NEW D \in Tables, NEW p \in Pairs, NEW type \in EventTypes,
           NEW active \in BOOLEAN, NEW rev \in Int
    PROVE  NewEvent(D, p, type, active, rev) \in Event
BY DEF NewEvent, Event, Tables

\* Queuing well-formed events for a set of pairs keeps the tables well formed.
LEMMA InsertType ==
    ASSUME NEW D \in Tables, NEW P \in SUBSET Pairs, NEW new \in [P -> Event]
    PROVE  Insert(D, new) \in Tables
<1>1. DOMAIN new = P
  OBVIOUS
<1>2. D.state \in [Pairs -> Row] /\ D.events \subseteq Event /\ D.serial \in [Pairs -> Nat]
  BY DEF Tables
<1>3. D.events \cup {new[p] : p \in DOMAIN new} \subseteq Event
  BY <1>1, <1>2
<1>4. [p \in Pairs |-> IF p \in DOMAIN new THEN D.serial[p] + 1 ELSE D.serial[p]] \in [Pairs -> Nat]
  BY <1>2
<1> QED  BY <1>2, <1>3, <1>4 DEF Insert, Tables

\* queueDesiredStateTx keeps the tables well formed.
LEMMA QueueType ==
    ASSUME NEW D \in Tables, NEW W
    PROVE  QueueDesiredState(D, W) \in Tables
<1> DEFINE touched == {p \in Pairs : W[p] # "keep"}
           queued == {p \in touched : ~Forgotten(D, p, W[p])}
           rows == [p \in Pairs |->
                       IF p \in queued THEN NextRow(D.state[p], W[p])
                       ELSE IF p \in touched THEN NoRow ELSE D.state[p]]
           kept == {e \in D.events : ~(e.pair \in touched /\ Superseded(e))}
           cleared == [state |-> rows, events |-> kept, serial |-> D.serial]
           new == [p \in queued |->
                     NewEvent(D, p, EventType(D, p, W[p]), rows[p].active, rows[p].rev)]
<1>1. D.state \in [Pairs -> Row] /\ D.events \subseteq Event /\ D.serial \in [Pairs -> Nat]
  BY DEF Tables
<1>2. rows \in [Pairs -> Row]
  <2>1. ASSUME NEW p \in Pairs  PROVE rows[p] \in Row
    BY <1>1, NextRowType, NoRowType
  <2> QED  BY <2>1
<1>3. cleared \in Tables
  BY <1>1, <1>2 DEF Tables
<1>4. queued \in SUBSET Pairs
  OBVIOUS
<1>5. new \in [queued -> Event]
  <2>1. ASSUME NEW p \in queued
        PROVE  NewEvent(D, p, EventType(D, p, W[p]), rows[p].active, rows[p].rev) \in Event
    <3>1. EventType(D, p, W[p]) \in EventTypes
      BY DEF EventType, EventTypes
    <3>2. rows[p] \in Row
      BY <1>2
    <3>3. rows[p].active \in BOOLEAN /\ rows[p].rev \in Int
      BY <3>2 DEF Row
    <3> HIDE DEF rows
    <3> QED  BY <3>1, <3>3, NewEventType
  <2> QED  BY <2>1
<1>6. Insert(cleared, new) \in Tables
  <2> HIDE DEF cleared, new, queued
  <2> QED  BY <1>3, <1>4, <1>5, InsertType
<1> QED  BY <1>6 DEF QueueDesiredState

\* offboardUserTx keeps the tables well formed.
LEMMA OffboardType ==
    ASSUME NEW D \in Tables, NEW u, NEW want
    PROVE  Offboard(D, u, want) \in Tables
<1> DEFINE holds == {p \in Pairs : /\ p[2] = u /\ p[1] \in paired
                                   /\ D.state[p].exists \/ p \in linked}
           rows == [p \in Pairs |->
                      IF p \in holds /\ p \in linked
                      THEN [D.state[p] EXCEPT !.exists = TRUE, !.provisioned = TRUE]
                      ELSE D.state[p]]
           marked == [state |-> rows, events |-> D.events, serial |-> D.serial]
<1>1. D.state \in [Pairs -> Row] /\ D.events \subseteq Event /\ D.serial \in [Pairs -> Nat]
  BY DEF Tables
<1>2. ASSUME NEW p \in Pairs  PROVE rows[p] \in Row
  BY <1>1 DEF Row
<1>3. marked \in Tables
  BY <1>1, <1>2 DEF Tables
<1> HIDE DEF marked
<1>4. QueueDesiredState(marked, [p \in Pairs |-> IF p \in holds THEN want ELSE "keep"]) \in Tables
  BY <1>3, QueueType
<1> QED  BY <1>4 DEF Offboard, marked

\* The sweep of exhausted work keeps the tables well formed.
LEMMA SweepType ==
    ASSUME NEW D \in Tables
    PROVE  Sweep(D) \in Tables
<1>1. ASSUME NEW e \in Event  PROVE Revived(e) \in Event
  BY DEF Revived, Event
<1>2. D.state \in [Pairs -> Row] /\ D.events \subseteq Event /\ D.serial \in [Pairs -> Nat]
  BY DEF Tables
<1> QED  BY <1>1, <1>2 DEF Sweep, Tables

\* reconcileProvisioningTx keeps the tables well formed.
LEMMA ReconcileType ==
    ASSUME NEW D \in Tables, NEW acc
    PROVE  Reconcile(D, acc) \in Tables
BY QueueType, SweepType DEF Reconcile

\* queueUserUpdateTx keeps the tables well formed.
LEMMA UserUpdateType ==
    ASSUME NEW D \in Tables, NEW u, NEW acc
    PROVE  QueueUserUpdate(D, u, acc) \in Tables
BY QueueType DEF QueueUserUpdate

\* Commit writes well-formed tables back.
LEMMA CommitType ==
    ASSUME NEW D \in Tables, Commit(D)
    PROVE  state' \in [Pairs -> Row] /\ events' \subseteq Event /\ serial' \in [Pairs -> Nat]
BY DEF Commit, Tables

\* The tables of a well-typed state.
LEMMA DbType == TypeOK => Db \in Tables
BY DEF TypeOK, Db, Tables

\* Event, after the edits a dispatcher or operator makes to a row.
LEMMA EventEdits ==
    ASSUME NEW e \in Event
    PROVE  /\ \A t \in Tokens : [e EXCEPT !.leased = TRUE, !.token = t] \in Event
           /\ [e EXCEPT !.leased = FALSE] \in Event
           /\ Closed(e) \in Event
           /\ \A s \in {"pending", "failed", "delivered"}, n \in Nat :
                [e EXCEPT !.status = s, !.attempts = n, !.leased = FALSE, !.token = NoToken] \in Event
<1>1. ASSUME NEW t \in Tokens
      PROVE  [e EXCEPT !.leased = TRUE, !.token = t] \in Event
  BY DEF Event
<1>2. [e EXCEPT !.leased = FALSE] \in Event
  BY DEF Event
<1>3. ASSUME NEW s \in {"pending", "failed", "delivered"}, NEW n \in Nat
      PROVE  [e EXCEPT !.status = s, !.attempts = n, !.leased = FALSE, !.token = NoToken] \in Event
  BY DEF Event
<1>4. ASSUME NEW r \in Int, NEW s \in {"pending", "failed", "delivered"}
      PROVE  [e EXCEPT !.status = s, !.rev = r, !.leased = FALSE, !.token = NoToken] \in Event
  BY DEF Event
<1>5. -1 \in Int
  OBVIOUS
<1>6. Closed(e) \in Event
  BY <1>4, <1>5 DEF Closed
<1> QED  BY <1>1, <1>2, <1>3, <1>6

\* FinishSyncDelivery writes a status and an attempt count.
LEMMA OutcomeType ==
    ASSUME NEW pc \in Known, NEW n \in Nat
    PROVE  /\ Outcome(pc, n).status \in {"pending", "failed", "delivered"}
           /\ Outcome(pc, n).attempts \in Nat
BY DEF Outcome, Known

\* provisionedTx keeps a row a row.
LEMMA AcknowledgeType ==
    ASSUME NEW row \in Row, NEW ev \in Event
    PROVE  Acknowledge(row, ev) \in Row
<1>1. ASSUME NEW b \in BOOLEAN, NEW c \in BOOLEAN, NEW n \in Int
      PROVE  [row EXCEPT !.offboarded = b, !.provisioned = c, !.settled = n] \in Row
  BY DEF Row
<1>2. /\ (row.offboarded \/ (ev.type # "created" /\ ~row.active /\ ev.rev = row.rev)) \in BOOLEAN
      /\ (row.provisioned \/ ev.type # "deleted") \in BOOLEAN
  OBVIOUS
<1>3. ev.rev \in Int
  BY DEF Event
<1> QED  BY <1>1, <1>2, <1>3, Zenon DEF Acknowledge

\* Expanding UNCHANGED of the variable groups.
LEMMA Groups ==
    /\ UNCHANGED directory <=> UNCHANGED <<users, granted, paired, held>>
    /\ UNCHANGED outbox <=> UNCHANGED <<state, events, serial>>
    /\ UNCHANGED target <=> UNCHANGED <<wire, remote, applied>>
    /\ UNCHANGED ghosts <=> UNCHANGED <<capsule, restores>>
    /\ UNCHANGED Delivery <=> UNCHANGED <<fence, linked, disp, wire, remote, applied, capsule, restores>>
BY DEF directory, outbox, target, ghosts, Delivery

\* Directory operations and the worker tick keep every variable in its type.
LEMMA DirectoryStepType ==
    ASSUME TypeOK,
           \/ \E u \in Users : UserStep(u)
           \/ \E s \in Systems : ResyncSystem(s)
           \/ \E p \in Pairs : ChangeAccess(p) \/ AccessDrifts(p)
           \/ ReconcileTick
    PROVE  TypeOK'
<1>0. Db \in Tables
  BY DbType
<1>1. UNCHANGED Delivery
  BY DEF UserStep, CreateUser, UpdateUser, EndDatePasses, ExpireAccount, DeleteUser, ResetMFA,
         ResyncSystem, ChangeAccess, AccessDrifts, ReconcileTick
<1>2. /\ users' \in [Users -> UserStatus] /\ granted' \subseteq Pairs
      /\ paired' = paired /\ held' = held
  <2>1. ASSUME NEW u \in Users, UserStep(u)  PROVE <1>2
    <3>1. CASE CreateUser(u)  BY <3>1 DEF CreateUser, TypeOK, UserStatus
    <3>2. CASE \E to \in {"active", "ended", "disabled"} : UpdateUser(u, to)
      BY <3>2 DEF UpdateUser, TypeOK, UserStatus
    <3>3. CASE EndDatePasses(u)  BY <3>3 DEF EndDatePasses, TypeOK, UserStatus
    <3>4. CASE ExpireAccount(u)  BY <3>4 DEF ExpireAccount, TypeOK, UserStatus
    <3>5. CASE DeleteUser(u)  BY <3>5 DEF DeleteUser, TypeOK, UserStatus
    <3>6. CASE ResetMFA(u)  BY <3>6 DEF ResetMFA, TypeOK, directory
    <3> QED  BY <2>1, <3>1, <3>2, <3>3, <3>4, <3>5, <3>6 DEF UserStep
  <2>2. ASSUME NEW s \in Systems, ResyncSystem(s)  PROVE <1>2
    BY <2>2 DEF ResyncSystem, TypeOK, directory
  <2>3. ASSUME NEW p \in Pairs, ChangeAccess(p) \/ AccessDrifts(p)  PROVE <1>2
    BY <2>3 DEF ChangeAccess, AccessDrifts, TypeOK
  <2>4. CASE ReconcileTick
    BY <2>4 DEF ReconcileTick, TypeOK, directory
  <2> QED  BY <2>1, <2>2, <2>3, <2>4
<1>3. \/ UNCHANGED outbox
      \/ \E D \in Tables : Commit(D)
  <2>1. ASSUME NEW u \in Users, UserStep(u)  PROVE <1>3
    <3>1. CASE CreateUser(u)  BY <1>0, <3>1, ReconcileType DEF CreateUser
    <3>2. ASSUME NEW to, UpdateUser(u, to)  PROVE <1>3
      <4> DEFINE acc == Access(granted, users')
                 d == IF users[u] = "active" /\ to = "disabled" THEN Offboard(Db, u, "off") ELSE Db
      <4>1. d \in Tables
        BY <1>0, OffboardType
      <4>2. Reconcile(QueueUserUpdate(d, u, acc), acc) \in Tables
        <5> HIDE DEF d, acc
        <5> QED  BY <4>1, UserUpdateType, ReconcileType
      <4> QED  BY <3>2, <4>2 DEF UpdateUser
    <3>3. CASE EndDatePasses(u)  BY <3>3 DEF EndDatePasses
    <3>4. CASE ExpireAccount(u)  BY <1>0, <3>4, OffboardType DEF ExpireAccount
    <3>5. CASE DeleteUser(u)
      <4> DEFINE d == Offboard(Db, u, "delete")
                 strangers == {p \in Pairs : p[2] = u /\ p[1] \in paired /\ ~d.state[p].exists}
                 rows == [p \in Pairs |->
                            IF p \in strangers THEN [NoRow EXCEPT !.exists = TRUE] ELSE d.state[p]]
                 marked == [state |-> rows, events |-> d.events, serial |-> d.serial]
                 new == [p \in strangers |-> NewEvent(d, p, "deleted", FALSE, 0)]
      <4>1. d \in Tables
        BY <1>0, OffboardType
      <4>2. marked \in Tables
        <5> HIDE DEF d
        <5>1. [NoRow EXCEPT !.exists = TRUE] \in Row
          BY NoRowType DEF Row
        <5>2. d.state \in [Pairs -> Row] /\ d.events \subseteq Event /\ d.serial \in [Pairs -> Nat]
          BY <4>1 DEF Tables
        <5> QED  BY <5>1, <5>2 DEF Tables
      <4>3. new \in [strangers -> Event]
        <5> HIDE DEF d
        <5>1. ASSUME NEW p \in strangers  PROVE NewEvent(d, p, "deleted", FALSE, 0) \in Event
          <6>1. "deleted" \in EventTypes /\ FALSE \in BOOLEAN /\ 0 \in Int /\ p \in Pairs
            BY DEF EventTypes
          <6> QED  BY <4>1, <6>1, NewEventType
        <5> QED  BY <5>1
      <4>4. strangers \in SUBSET Pairs
        OBVIOUS
      <4>5. Insert(marked, new) \in Tables
        <5> HIDE DEF marked, new, strangers
        <5> QED  BY <4>2, <4>3, <4>4, InsertType
      <4>6. Reconcile(Insert(marked, new), Access(granted', users')) \in Tables
        <5> HIDE DEF marked, new
        <5> QED  BY <4>5, ReconcileType
      <4> QED  BY <3>5, <4>6 DEF DeleteUser
    <3>6. CASE ResetMFA(u)
      <4> DEFINE told == {p \in Pairs : p[2] = u /\ state[p].active}
                 new == [p \in told |->
                           NewEvent(Db, p, "mfa_reset", users[u] = "active", state[p].rev)]
      <4>1. ASSUME NEW p \in told
            PROVE  NewEvent(Db, p, "mfa_reset", users[u] = "active", state[p].rev) \in Event
        <5>1. state[p].rev \in Int
          BY DEF TypeOK, Row
        <5>2. (users[u] = "active") \in BOOLEAN /\ "mfa_reset" \in EventTypes
          BY DEF EventTypes
        <5> QED  BY <1>0, <5>1, <5>2, NewEventType, Zenon
      <4>2. new \in [told -> Event] /\ told \in SUBSET Pairs
        BY <4>1
      <4>3. Insert(Db, new) \in Tables
        <5> HIDE DEF new, told
        <5> QED  BY <1>0, <4>2, InsertType
      <4> QED  BY <3>6, <4>3 DEF ResetMFA
    <3> QED  BY <2>1, <3>1, <3>2, <3>3, <3>4, <3>5, <3>6 DEF UserStep
  <2>2. ASSUME NEW s \in Systems, ResyncSystem(s)  PROVE <1>3
    BY <1>0, <2>2, ReconcileType, QueueType DEF ResyncSystem
  <2>3. ASSUME NEW p \in Pairs, ChangeAccess(p) \/ AccessDrifts(p)  PROVE <1>3
    BY <1>0, <2>3, ReconcileType DEF ChangeAccess, AccessDrifts
  <2>4. CASE ReconcileTick
    BY <1>0, <2>4, ReconcileType DEF ReconcileTick
  <2> QED  BY <2>1, <2>2, <2>3, <2>4
<1>4. state' \in [Pairs -> Row] /\ events' \subseteq Event /\ serial' \in [Pairs -> Nat]
  BY <1>3, CommitType, Groups DEF TypeOK
<1> QED  BY <1>1, <1>2, <1>4, Groups DEF TypeOK

\* A dispatcher that holds an event moves between well-typed states.
LEMMA DispatcherMoves ==
    ASSUME TypeOK, NEW d \in Dispatchers
    PROVE  /\ disp[d].pc # "idle" <=> Busy(d)
           /\ Busy(d) => /\ disp[d] \in Working
                         /\ disp[d].ev \in Event /\ disp[d].ev.pair \in Pairs
                         /\ disp[d].ev.token \in Tokens \cup {NoToken}
           /\ \A pc \in DispatcherPc \ {"idle"} :
                Busy(d) => [disp EXCEPT ![d].pc = pc] \in [Dispatchers -> Working \cup {Idle}]
           /\ [disp EXCEPT ![d] = Idle] \in [Dispatchers -> Working \cup {Idle}]
<1>1. disp[d] \in Working \cup {Idle}
  BY DEF TypeOK
<1>2. disp[d].pc # "idle" <=> Busy(d)
  BY <1>1 DEF Busy, Idle, Working
<1>3. Busy(d) => /\ disp[d] \in Working
                 /\ disp[d].ev \in Event /\ disp[d].ev.pair \in Pairs
                 /\ disp[d].ev.token \in Tokens \cup {NoToken}
  BY <1>1 DEF Busy, Working, Event
<1>4. ASSUME NEW pc \in DispatcherPc \ {"idle"}, Busy(d)
      PROVE  [disp EXCEPT ![d].pc = pc] \in [Dispatchers -> Working \cup {Idle}]
  <2>1. [disp[d] EXCEPT !.pc = pc] \in Working
    BY <1>3, <1>4 DEF Working
  <2> QED  BY <2>1 DEF TypeOK
<1>5. [disp EXCEPT ![d] = Idle] \in [Dispatchers -> Working \cup {Idle}]
  BY DEF TypeOK
<1> QED  BY <1>2, <1>3, <1>4, <1>5

\* What a target does with a write keeps wire, remote and applied in their types.
LEMMA LandsType ==
    ASSUME TypeOK, NEW w \in Event, Lands(w)
    PROVE  /\ wire' \subseteq Event
           /\ remote' \in [Pairs -> RemoteStatus] /\ applied' \in [Pairs -> Nat]
<1>1. w.pair \in Pairs /\ w.id \in Nat
  BY DEF Event
<1> QED  BY <1>1 DEF Lands, TypeOK, RemoteStatus

\* Every step of a dispatcher keeps every variable in its type.
LEMMA DispatcherStepType ==
    ASSUME TypeOK, NEW d \in Dispatchers, DispatcherStep(d)
    PROVE  TypeOK'
<1> USE DispatcherMoves
<1> DEFINE ev == disp[d].ev
<1>1. CASE Claim(d)
  <2>1. PICK e \in events :
          LET t == CHOOSE t \in Tokens : t \notin TokensInUse
              mine == [e EXCEPT !.leased = TRUE, !.token = t]
          IN  /\ events' = (events \ {e}) \cup {mine}
              /\ disp' = [disp EXCEPT ![d] = [pc |-> "claimed", ev |-> mine,
                                              sys |-> e.pair[1] \in paired]]
    BY <1>1 DEF Claim
  <2> DEFINE t == CHOOSE t \in Tokens : t \notin TokensInUse
             mine == [e EXCEPT !.leased = TRUE, !.token = t]
  <2>2. t \in Tokens
    BY <1>1 DEF Claim
  <2>3. mine \in Event
    <3> HIDE DEF t
    <3> QED  BY <2>2, EventEdits DEF TypeOK
  <2> HIDE DEF mine
  <2>4. [pc |-> "claimed", ev |-> mine, sys |-> e.pair[1] \in paired] \in Working
    <3>1. (e.pair[1] \in paired) \in BOOLEAN
      OBVIOUS
    <3>2. ASSUME NEW b \in BOOLEAN  PROVE [pc |-> "claimed", ev |-> mine, sys |-> b] \in Working
      BY <2>3 DEF Working, DispatcherPc
    <3> QED  BY <3>1, <3>2, Zenon
  <2>5. disp' \in [Dispatchers -> Working \cup {Idle}] /\ events' \subseteq Event
    BY <2>1, <2>3, <2>4 DEF TypeOK, mine
  <2> QED  BY <1>1, <2>5, Groups DEF Claim, TypeOK
<1>2. CASE Begin(d)
  <2>1. ev \in Event /\ ev.pair \in Pairs /\ ev.id \in Nat /\ ev.token \in Tokens \cup {NoToken}
    BY <1>2 DEF Begin, Event
  <2>2. fence' \in [Pairs -> [token : Tokens \cup {NoToken}, id : Nat]]
    BY <1>2, <2>1 DEF Begin, TypeOK
  <2> QED  BY <1>2, <2>2, Groups DEF Begin, TypeOK, Step, DispatcherPc
<1>3. CASE BeginRefused(d)
  BY <1>3, Groups DEF BeginRefused, TypeOK, Drop
<1>4. CASE LoadSystem(d)
  <2>1. Busy(d)
    BY <1>4 DEF LoadSystem
  <2>2. Step(d, "missing") \/ Step(d, "unread") \/ Step(d, "rejected")
    BY <1>4 DEF LoadSystem
  <2>3. disp' \in [Dispatchers -> Working \cup {Idle}]
    BY <2>1, <2>2, SMTT(30) DEF Step, DispatcherPc, Known
  <2> QED  BY <1>4, <2>3, Groups DEF LoadSystem, TypeOK
<1>5. CASE FindRemote(d)
  <2>1. ev.pair \in Pairs
    BY <1>5 DEF FindRemote
  <2> QED  BY <1>5, <2>1, Groups DEF FindRemote, TypeOK
<1>6. CASE SkipWrite(d)
  BY <1>6, Groups DEF SkipWrite, TypeOK, Step, DispatcherPc, Known
<1>7. CASE Send(d)
  <2>1. ev \in Event
    BY <1>7 DEF Send
  <2> QED  BY <1>7, <2>1, Groups DEF Send, TypeOK, Step, DispatcherPc
<1>8. CASE Accept(d)
  <2>1. ev \in Event /\ ev.pair \in Pairs
    BY <1>8 DEF Accept, Awaiting
  <2>2. /\ wire' \subseteq Event
        /\ remote' \in [Pairs -> RemoteStatus] /\ applied' \in [Pairs -> Nat]
    BY <1>8, <2>1, LandsType DEF Accept
  <2> QED  BY <1>8, <2>1, <2>2, Groups DEF Accept, Awaiting, TypeOK, Step, DispatcherPc, Known
<1>9. CASE Conflict(d)
  BY <1>9, Groups DEF Conflict, Awaiting, TypeOK, Step, DispatcherPc, Known
<1>10. CASE Refuse(d)
  BY <1>10, Groups DEF Refuse, Awaiting, TypeOK, Step, DispatcherPc, Known
<1>11. CASE AcceptUnusable(d)
  <2>1. ev \in Event
    BY <1>11 DEF AcceptUnusable, Awaiting
  <2>2. /\ wire' \subseteq Event
        /\ remote' \in [Pairs -> RemoteStatus] /\ applied' \in [Pairs -> Nat]
    BY <1>11, <2>1, LandsType DEF AcceptUnusable
  <2> QED  BY <1>11, <2>2, Groups DEF AcceptUnusable, Awaiting, TypeOK, Step, DispatcherPc, Known
<1>12. CASE LoseAnswer(d)
  BY <1>12, Groups DEF LoseAnswer, TypeOK, Step, DispatcherPc
<1>13. CASE MarkUncertain(d)
  BY <1>13, Groups DEF MarkUncertain, TypeOK, Drop
<1>14. CASE Finish(d)
  <2> DEFINE out == Outcome(disp[d].pc, ev.attempts)
             mine == {e \in events : e.pair = ev.pair /\ e.id = ev.id /\ e.token = ev.token}
  <2>1. ev \in Event /\ ev.pair \in Pairs /\ ev.attempts \in Nat /\ disp[d].pc \in Known
    BY <1>14 DEF Finish, Known, Event
  <2>2. out.status \in {"pending", "failed", "delivered"} /\ out.attempts \in Nat
    BY <2>1, OutcomeType
  <2>3. (events \ mine) \cup
          {[e EXCEPT !.status = out.status, !.attempts = out.attempts,
                     !.leased = FALSE, !.token = NoToken] : e \in mine} \subseteq Event
    <3> HIDE DEF out
    <3>1. ASSUME NEW e \in mine
          PROVE  [e EXCEPT !.status = out.status, !.attempts = out.attempts,
                           !.leased = FALSE, !.token = NoToken] \in Event
      <4>1. e \in Event
        BY DEF TypeOK
      <4> QED  BY <2>2, <4>1, EventEdits
    <3> QED  BY <3>1 DEF TypeOK
  <2>4. [state EXCEPT ![ev.pair] = Acknowledge(@, ev)] \in [Pairs -> Row]
    BY <2>1, AcknowledgeType DEF TypeOK
  <2>5. [fence EXCEPT ![ev.pair] = NoFence] \in [Pairs -> [token : Tokens \cup {NoToken}, id : Nat]]
    BY DEF TypeOK, NoFence
  <2>6. /\ events' \subseteq Event /\ state' \in [Pairs -> Row]
        /\ fence' \in [Pairs -> [token : Tokens \cup {NoToken}, id : Nat]]
    <3> HIDE DEF out
    <3>1. CASE fence[ev.pair].token = ev.token
      BY <1>14, <3>1, <2>3, <2>4, <2>5 DEF Finish, TypeOK, out
    <3>2. CASE fence[ev.pair].token # ev.token
      BY <1>14, <3>2 DEF Finish, TypeOK
    <3> QED  BY <3>1, <3>2
  <2>7. disp' \in [Dispatchers -> Working \cup {Idle}]
    BY <1>14 DEF Finish, Drop
  <2>8. UNCHANGED <<directory, serial, linked, target, ghosts>>
    BY <1>14 DEF Finish
  <2> QED  BY <2>6, <2>7, <2>8, Groups DEF TypeOK
<1>15. CASE Crash(d)
  BY <1>15, Groups DEF Crash, TypeOK, Drop
<1> QED  BY <1>1, <1>2, <1>3, <1>4, <1>5, <1>6, <1>7, <1>8, <1>9, <1>10, <1>11, <1>12, <1>13,
            <1>14, <1>15 DEF DispatcherStep

\* Spec keeps every variable in its type: every store transaction and every dispatcher
\* step writes rows of the schema, for any number of connectors and accounts.
THEOREM TypeCorrect == Spec => []TypeOK
<1>1. Init => TypeOK
  BY NoRowType, LimitAssumption DEF Init, TypeOK, UserStatus, NoFence, Event, RemoteStatus
<1>2. TypeOK /\ [Next]_vars => TypeOK'
  <2> SUFFICES ASSUME TypeOK, [Next]_vars  PROVE TypeOK'
    OBVIOUS
  <2>1. CASE \/ \E u \in Users : UserStep(u)
             \/ \E s \in Systems : ResyncSystem(s)
             \/ \E p \in Pairs : ChangeAccess(p) \/ AccessDrifts(p)
             \/ ReconcileTick
    BY <2>1, DirectoryStepType
  <2>2. ASSUME NEW s \in Systems, DeletePairedSystem(s)  PROVE TypeOK'
    BY <2>2, NoRowType, Groups DEF DeletePairedSystem, TypeOK, NoFence
  <2>3. ASSUME NEW s \in Systems, ResumeProvisioning(s)  PROVE TypeOK'
    BY <2>3, Groups DEF ResumeProvisioning, TypeOK
  <2>4. ASSUME NEW p \in Pairs, ResumeSyncDelivery(p)  PROVE TypeOK'
    <3> DEFINE its == {e \in events : e.pair = p /\ e.id = fence[p].id}
    <3>1. (events \ its) \cup
             {[e EXCEPT !.status = "pending", !.attempts = 0, !.leased = FALSE,
                        !.token = NoToken] : e \in its} \subseteq Event
      <4>1. ASSUME NEW e \in its
            PROVE  [e EXCEPT !.status = "pending", !.attempts = 0, !.leased = FALSE,
                             !.token = NoToken] \in Event
        <5>1. e \in Event /\ "pending" \in {"pending", "failed", "delivered"} /\ 0 \in Nat
          BY DEF TypeOK
        <5> QED  BY <5>1, EventEdits
      <4> QED  BY <4>1 DEF TypeOK
    <3>2. events' \subseteq Event
      BY <2>4, <3>1 DEF ResumeSyncDelivery
    <3> QED  BY <2>4, <3>2, Groups DEF ResumeSyncDelivery, TypeOK, NoFence
  <2>5. ASSUME NEW e \in events, LeaseExpires(e) \/ Prune(e)  PROVE TypeOK'
    <3>1. events' \subseteq Event
      BY <2>5, EventEdits DEF LeaseExpires, Prune, TypeOK
    <3> QED  BY <2>5, <3>1, Groups DEF LeaseExpires, Prune, TypeOK
  <2>6. ASSUME NEW d \in Dispatchers, DispatcherStep(d)  PROVE TypeOK'
    BY <2>6, DispatcherStepType
  <2>7. ASSUME NEW w \in wire, Late(w)  PROVE TypeOK'
    <3>1. w \in Event
      BY DEF TypeOK
    <3>2. /\ wire' \subseteq Event
          /\ remote' \in [Pairs -> RemoteStatus] /\ applied' \in [Pairs -> Nat]
      BY <2>7, <3>1, LandsType DEF Late, TypeOK
    <3> QED  BY <2>7, <3>2, Groups DEF Late, TypeOK
  <2>8. CASE ApplyRestoredState
    <3> DEFINE open == {e \in events : e.status \in {"pending", "failed"}}
    <3>1. (events \ open) \cup {Closed(e) : e \in open} \subseteq Event
      BY EventEdits DEF TypeOK
    <3>2. {<<e.pair, e.id>> : e \in {f \in open : ~Stateless(f)}} \subseteq Pairs \X Nat
      BY DEF TypeOK, Event
    <3>3. restores' \in 0..MaxRestores
      BY <2>8, LimitAssumption DEF ApplyRestoredState, TypeOK
    <3>4. events' \subseteq Event /\ capsule' \subseteq Pairs \X Nat
      BY <2>8, <3>1, <3>2 DEF ApplyRestoredState, TypeOK
    <3>5. state' \in [Pairs -> Row] /\ remote' \in [Pairs -> RemoteStatus]
      BY <2>8, FromCapsuleRow DEF ApplyRestoredState, TypeOK, Returned
    <3> QED  BY <2>8, <3>3, <3>4, <3>5 DEF ApplyRestoredState, TypeOK, NoFence
  <2>9. CASE UNCHANGED vars
    BY <2>9 DEF vars, TypeOK
  <2> QED  BY <2>1, <2>2, <2>3, <2>4, <2>5, <2>6, <2>7, <2>8, <2>9 DEF Next, SystemStep
<1> QED  BY <1>1, <1>2, PTL DEF Spec

-----------------------------------------------------------------------------
(* One write in flight                                                     *)

\* A claim token belongs to one dispatcher.
TokensDistinct ==
    \A c, d \in Dispatchers :
        Busy(c) /\ Busy(d) /\ disp[c].ev.token = disp[d].ev.token => c = d

\* A dispatcher's token is a real one.
TokensReal == \A d \in Dispatchers : Busy(d) => disp[d].ev.token \in Tokens

\* From the fence to the answer, a delivery owns the fence of its resource.
DispatcherOwnsFence ==
    \A d \in Dispatchers :
        disp[d].pc \in {"begun", "sent"} /\ disp[d].ev.pair[1] \in paired
            => fence[disp[d].ev.pair].token = disp[d].ev.token

\* So does a write in flight, whatever became of the dispatcher that sent it.
WriteOwnsFence ==
    \A w \in wire : /\ w.token \in Tokens
                    /\ w.pair[1] \in paired => fence[w.pair].token = w.token

\* A dispatcher whose write is in flight is waiting for the answer or has given it up.
WriterWaits ==
    \A d \in Dispatchers, w \in wire :
        Busy(d) /\ disp[d].ev.token = w.token
            => disp[d].pc \in {"sent", "uncertain"} /\ disp[d].ev = w

FenceInv == /\ TokensDistinct /\ TokensReal
            /\ DispatcherOwnsFence /\ WriteOwnsFence /\ WriterWaits

\* The invariant is only about the fence, the dispatchers, the writes in flight and
\* the set of paired systems.
LEMMA FenceInvStutters ==
    ASSUME FenceInv, UNCHANGED <<fence, disp, wire, paired>>
    PROVE  FenceInv'
BY DEF FenceInv, TokensDistinct, TokensReal, DispatcherOwnsFence, WriteOwnsFence, WriterWaits, Busy

\* Removing writes from the wire, and fences of systems no longer paired, keeps it.
LEMMA FewerWrites ==
    ASSUME FenceInv, UNCHANGED <<fence, disp, paired>>, wire' \subseteq wire
    PROVE  FenceInv'
BY DEF FenceInv, TokensDistinct, TokensReal, DispatcherOwnsFence, WriteOwnsFence, WriterWaits, Busy

\* A dispatcher that lets go of its event gives up nothing the fence protects.
LEMMA DropKeepsFenceInv ==
    ASSUME TypeOK, FenceInv, NEW d \in Dispatchers, Drop(d), UNCHANGED <<fence, wire, paired>>
    PROVE  FenceInv'
<1>1. \A c \in Dispatchers : c # d => disp'[c] = disp[c]
  BY DEF Drop, TypeOK
<1>2. disp'[d] = Idle
  BY DEF Drop, TypeOK
<1>3. \A c \in Dispatchers : disp'[c].pc # "idle" => c # d
  BY <1>2 DEF Idle
<1>4. TokensDistinct' /\ TokensReal'
  BY <1>1, <1>2 DEF FenceInv, TokensDistinct, TokensReal, Busy
<1>5. DispatcherOwnsFence' /\ WriteOwnsFence'
  BY <1>1, <1>3 DEF FenceInv, DispatcherOwnsFence, WriteOwnsFence
<1>6. WriterWaits'
  BY <1>1, <1>2 DEF FenceInv, WriterWaits, Busy
<1> QED  BY <1>4, <1>5, <1>6 DEF FenceInv

\* What changing a dispatcher's pc leaves alone.
LEMMA StepFacts ==
    ASSUME TypeOK, NEW d \in Dispatchers, Busy(d), NEW pc \in DispatcherPc \ {"idle"}, Step(d, pc)
    PROVE  /\ \A c \in Dispatchers : c # d => disp'[c] = disp[c]
           /\ disp'[d].pc = pc /\ disp'[d].ev = disp[d].ev
           /\ \A c \in Dispatchers : Busy(c)' <=> Busy(c)
           /\ \A c \in Dispatchers : Busy(c) => disp'[c].ev = disp[c].ev
<1>1. disp[d] \in Working
  BY DispatcherMoves
<1>2. disp' = [disp EXCEPT ![d] = [disp[d] EXCEPT !.pc = pc]]
  BY DEF Step, TypeOK
<1>3. disp'[d] = [disp[d] EXCEPT !.pc = pc]
  BY <1>2 DEF TypeOK
<1>4. disp'[d].pc = pc /\ disp'[d].ev = disp[d].ev
  BY <1>1, <1>3 DEF Working
<1>5. disp'[d] # Idle
  BY <1>4 DEF Idle
<1>6. \A c \in Dispatchers : c # d => disp'[c] = disp[c]
  BY <1>2 DEF TypeOK
<1> QED  BY <1>4, <1>5, <1>6 DEF Busy

\* Leaving the window in which the dispatcher itself may write keeps the invariant,
\* provided no write of its own is left on the wire unless it still waits for it.
LEMMA StepKeepsFenceInv ==
    ASSUME TypeOK, FenceInv, NEW d \in Dispatchers, Busy(d),
           NEW pc \in DispatcherPc \ {"idle", "begun", "sent"}, Step(d, pc),
           UNCHANGED <<fence, paired>>, wire' \subseteq wire,
           pc = "uncertain" \/ \A w \in wire' : w.token # disp[d].ev.token
    PROVE  FenceInv'
<1>1. /\ \A c \in Dispatchers : c # d => disp'[c] = disp[c]
      /\ disp'[d].pc = pc /\ disp'[d].ev = disp[d].ev
      /\ \A c \in Dispatchers : Busy(c)' <=> Busy(c)
      /\ \A c \in Dispatchers : Busy(c) => disp'[c].ev = disp[c].ev
  BY StepFacts
<1>2. TokensDistinct' /\ TokensReal'
  BY <1>1 DEF FenceInv, TokensDistinct, TokensReal
<1>3. DispatcherOwnsFence'
  BY <1>1 DEF FenceInv, DispatcherOwnsFence
<1>4. WriteOwnsFence'
  BY DEF FenceInv, WriteOwnsFence
<1>5. WriterWaits'
  BY <1>1 DEF FenceInv, WriterWaits
<1> QED  BY <1>2, <1>3, <1>4, <1>5 DEF FenceInv

\* Every dispatcher step preserves the fence invariant.
LEMMA DispatcherStepFence ==
    ASSUME TypeOK, FenceInv, NEW d \in Dispatchers, DispatcherStep(d)
    PROVE  FenceInv'
<1> DEFINE ev == disp[d].ev
<1>0. /\ disp[d].pc # "idle" <=> Busy(d)
      /\ Busy(d) => ev \in Event /\ ev.pair \in Pairs
  BY DispatcherMoves
<1>1. CASE Claim(d)
  <2>1. PICK e \in events :
          LET t == CHOOSE t \in Tokens : t \notin TokensInUse
              mine == [e EXCEPT !.leased = TRUE, !.token = t]
          IN  disp' = [disp EXCEPT ![d] = [pc |-> "claimed", ev |-> mine,
                                           sys |-> e.pair[1] \in paired]]
    BY <1>1 DEF Claim
  <2> DEFINE t == CHOOSE t \in Tokens : t \notin TokensInUse
             mine == [e EXCEPT !.leased = TRUE, !.token = t]
  <2>2. t \in Tokens /\ t \notin TokensInUse
    BY <1>1 DEF Claim
  <2>3. mine.token = t
    <3> HIDE DEF t
    <3> QED  BY DEF TypeOK, Event
  <2>4. disp'[d].pc = "claimed" /\ disp'[d].ev = mine
    BY <2>1 DEF TypeOK
  <2>5. \A c \in Dispatchers : c # d => disp'[c] = disp[c]
    BY <2>1 DEF TypeOK
  <2> HIDE DEF mine, t
  <2>6. \A c \in Dispatchers : Busy(c) => disp[c].ev.token # t
    BY <2>2 DEF TokensInUse, Busy
  <2>7. \A w \in wire : w.token # t
    BY <2>2 DEF TokensInUse
  <2>8. UNCHANGED <<fence, wire, paired>>
    BY <1>1, Groups DEF Claim
  <2>9. TokensDistinct' /\ TokensReal'
    BY <2>2, <2>3, <2>4, <2>5, <2>6 DEF FenceInv, TokensDistinct, TokensReal, Busy
  <2>10. DispatcherOwnsFence' /\ WriteOwnsFence'
    BY <2>4, <2>5, <2>8 DEF FenceInv, DispatcherOwnsFence, WriteOwnsFence
  <2>11. WriterWaits'
    BY <2>3, <2>4, <2>5, <2>7, <2>8 DEF FenceInv, WriterWaits, Busy
  <2> QED  BY <2>9, <2>10, <2>11 DEF FenceInv
<1>2. CASE Begin(d)
  <2>1. Busy(d) /\ disp[d].pc = "claimed" /\ fence[ev.pair] = NoFence /\ Step(d, "begun")
    BY <1>0, <1>2 DEF Begin, MayBegin
  <2>2. UNCHANGED <<wire, paired>>
    BY <1>2, Groups DEF Begin
  <2>3. /\ \A c \in Dispatchers : c # d => disp'[c] = disp[c]
        /\ disp'[d].pc = "begun" /\ disp'[d].ev = ev
        /\ \A c \in Dispatchers : Busy(c)' <=> Busy(c)
        /\ \A c \in Dispatchers : Busy(c) => disp'[c].ev = disp[c].ev
    BY <2>1, StepFacts DEF DispatcherPc
  <2>4. fence'[ev.pair].token = ev.token /\ \A p \in Pairs : p # ev.pair => fence'[p] = fence[p]
    BY <1>0, <1>2, <2>1 DEF Begin, TypeOK
  <2>5. \A w \in wire : w.pair[1] \in paired => w.pair # ev.pair
    BY <2>1, TokenAssumption DEF FenceInv, WriteOwnsFence, NoFence
  <2>6. \A c \in Dispatchers : disp[c].pc \in {"begun", "sent"} /\ disp[c].ev.pair[1] \in paired
            => disp[c].ev.pair # ev.pair
    <3> SUFFICES ASSUME NEW c \in Dispatchers, disp[c].pc \in {"begun", "sent"},
                        disp[c].ev.pair[1] \in paired, disp[c].ev.pair = ev.pair
                 PROVE  FALSE
      OBVIOUS
    <3>1. Busy(c)
      BY DispatcherMoves
    <3> QED  BY <2>1, <3>1, TokenAssumption
             DEF FenceInv, DispatcherOwnsFence, TokensReal, NoFence
  <2>7. TokensDistinct' /\ TokensReal'
    BY <2>3 DEF FenceInv, TokensDistinct, TokensReal
  <2>8. DispatcherOwnsFence'
    <3> SUFFICES ASSUME NEW c \in Dispatchers, disp'[c].pc \in {"begun", "sent"},
                        disp'[c].ev.pair[1] \in paired'
                 PROVE  fence'[disp'[c].ev.pair].token = disp'[c].ev.token
      BY DEF DispatcherOwnsFence
    <3>1. CASE c = d  BY <2>3, <2>4, <3>1
    <3>2. CASE c # d
      <4>1. disp'[c] = disp[c] /\ disp[c].ev.pair # ev.pair
        BY <2>2, <2>3, <2>6, <3>2
      <4>2. disp[c].ev.pair \in Pairs
        BY <2>3, <3>2, DispatcherMoves
      <4> QED  BY <2>2, <2>4, <4>1, <4>2 DEF FenceInv, DispatcherOwnsFence
    <3> QED  BY <3>1, <3>2
  <2>9. WriteOwnsFence'
    BY <2>2, <2>4, <2>5 DEF FenceInv, WriteOwnsFence, TypeOK, Event
  <2>10. WriterWaits'
    BY <2>1, <2>2, <2>3 DEF FenceInv, WriterWaits
  <2> QED  BY <2>7, <2>8, <2>9, <2>10 DEF FenceInv
<1>3. CASE BeginRefused(d)
  BY <1>3, DropKeepsFenceInv, Groups DEF BeginRefused
<1>4. CASE LoadSystem(d)
  <2>1. Busy(d) /\ \A w \in wire : w.token # ev.token
    BY <1>0, <1>4 DEF LoadSystem, FenceInv, WriterWaits
  <2>2. UNCHANGED <<fence, paired, wire>>
    BY <1>4, Groups DEF LoadSystem
  <2>3. PICK pc \in {"missing", "unread", "rejected"} : Step(d, pc)
    BY <1>4 DEF LoadSystem
  <2> QED  BY <2>1, <2>2, <2>3, StepKeepsFenceInv DEF DispatcherPc, Known
<1>5. CASE FindRemote(d)
  BY <1>5, FenceInvStutters, Groups DEF FindRemote
<1>6. CASE SkipWrite(d)
  <2>1. Busy(d) /\ \A w \in wire : w.token # ev.token
    BY <1>0, <1>6 DEF SkipWrite, FenceInv, WriterWaits
  <2> QED  BY <1>6, <2>1, StepKeepsFenceInv, Groups DEF SkipWrite, DispatcherPc, Known
<1>7. CASE Send(d)
  <2>1. Busy(d) /\ disp[d].pc = "begun" /\ Step(d, "sent") /\ wire' = wire \cup {ev}
    BY <1>0, <1>7 DEF Send
  <2>2. UNCHANGED <<fence, paired>>
    BY <1>7, Groups DEF Send
  <2>3. /\ \A c \in Dispatchers : c # d => disp'[c] = disp[c]
        /\ disp'[d].pc = "sent" /\ disp'[d].ev = ev
        /\ \A c \in Dispatchers : Busy(c)' <=> Busy(c)
        /\ \A c \in Dispatchers : Busy(c) => disp'[c].ev = disp[c].ev
    BY <2>1, StepFacts DEF DispatcherPc
  <2>4. \A w \in wire : w.token # ev.token
    BY <2>1 DEF FenceInv, WriterWaits
  <2>5. \A c \in Dispatchers : Busy(c) /\ disp[c].ev.token = ev.token => c = d
    BY <2>1 DEF FenceInv, TokensDistinct
  <2>6. TokensDistinct' /\ TokensReal'
    BY <2>3 DEF FenceInv, TokensDistinct, TokensReal
  <2>7. DispatcherOwnsFence'
    BY <2>1, <2>2, <2>3 DEF FenceInv, DispatcherOwnsFence
  <2>8. WriteOwnsFence'
    BY <2>1, <2>2 DEF FenceInv, WriteOwnsFence, DispatcherOwnsFence, TokensReal
  <2>9. WriterWaits'
    BY <2>1, <2>3, <2>4, <2>5 DEF FenceInv, WriterWaits
  <2> QED  BY <2>6, <2>7, <2>8, <2>9 DEF FenceInv
<1>8. CASE Accept(d) \/ Conflict(d) \/ Refuse(d) \/ AcceptUnusable(d)
  <2>1. Busy(d) /\ disp[d].pc = "sent"
    BY <1>0, <1>8 DEF Accept, Conflict, Refuse, AcceptUnusable, Awaiting
  <2>2. wire' = wire \ {ev} /\ UNCHANGED <<fence, paired>>
    BY <1>8, Groups DEF Accept, Conflict, Refuse, AcceptUnusable, Lands
  <2>3. \A w \in wire' : w.token # ev.token
    BY <2>1, <2>2 DEF FenceInv, WriterWaits
  <2>4. PICK pc \in {"acked", "rejected"} : Step(d, pc)
    BY <1>8 DEF Accept, Conflict, Refuse, AcceptUnusable
  <2> QED  BY <2>1, <2>2, <2>3, <2>4, StepKeepsFenceInv DEF DispatcherPc, Known
<1>9. CASE LoseAnswer(d)
  BY <1>0, <1>9, StepKeepsFenceInv, Groups DEF LoseAnswer, DispatcherPc
<1>10. CASE MarkUncertain(d)
  BY <1>10, DropKeepsFenceInv, Groups DEF MarkUncertain
<1>11. CASE Finish(d)
  <2>1. Busy(d) /\ disp[d].pc \in Known /\ Drop(d) /\ UNCHANGED <<wire, paired>>
    BY <1>0, <1>11, Groups DEF Finish, Known
  <2>2. CASE fence[ev.pair].token # ev.token
    <3>1. fence' = fence
      BY <1>11, <2>2 DEF Finish
    <3> QED  BY <2>1, <3>1, DropKeepsFenceInv
  <2>3. CASE fence[ev.pair].token = ev.token
    <3>1. fence' = [fence EXCEPT ![ev.pair] = NoFence]
      BY <1>11, <2>3 DEF Finish
    <3>2. \A p \in Pairs : p # ev.pair => fence'[p] = fence[p]
      BY <3>1 DEF TypeOK
    <3>3. \A c \in Dispatchers : c # d => disp'[c] = disp[c]
      BY <2>1 DEF Drop, TypeOK
    <3>4. disp'[d] = Idle
      BY <2>1 DEF Drop, TypeOK
    <3>5. \A w \in wire : w.token # ev.token
      BY <2>1 DEF FenceInv, WriterWaits, Known
    <3>6. \A w \in wire : w.pair[1] \in paired => w.pair # ev.pair
      BY <2>3, <3>5 DEF FenceInv, WriteOwnsFence
    <3>7. ASSUME NEW c \in Dispatchers, disp'[c].pc \in {"begun", "sent"},
                 disp'[c].ev.pair[1] \in paired
          PROVE  fence'[disp'[c].ev.pair].token = disp'[c].ev.token
      <4>1. c # d
        BY <3>4, <3>7 DEF Idle
      <4>2. disp'[c] = disp[c]
        BY <3>3, <4>1
      <4>3. Busy(c) /\ disp[c].ev.pair \in Pairs
        BY <3>7, <4>2, DispatcherMoves
      <4>4. disp[c].ev.token # ev.token
        BY <2>1, <4>1, <4>3 DEF FenceInv, TokensDistinct
      <4>5. fence[disp[c].ev.pair].token = disp[c].ev.token
        BY <3>7, <4>2 DEF FenceInv, DispatcherOwnsFence
      <4> QED  BY <2>3, <3>2, <4>2, <4>3, <4>4, <4>5
    <3>8. DispatcherOwnsFence'
      BY <2>1, <3>7 DEF DispatcherOwnsFence
    <3>9. TokensDistinct' /\ TokensReal'
      BY <3>3, <3>4 DEF FenceInv, TokensDistinct, TokensReal, Busy
    <3>10. WriteOwnsFence'
      BY <2>1, <3>2, <3>6 DEF FenceInv, WriteOwnsFence, TypeOK, Event
    <3>11. WriterWaits'
      BY <2>1, <3>3, <3>4 DEF FenceInv, WriterWaits, Busy
    <3> QED  BY <3>8, <3>9, <3>10, <3>11 DEF FenceInv
  <2> QED  BY <2>2, <2>3
<1>12. CASE Crash(d)
  BY <1>12, DropKeepsFenceInv, Groups DEF Crash
<1> QED  BY <1>1, <1>2, <1>3, <1>4, <1>5, <1>6, <1>7, <1>8, <1>9, <1>10, <1>11, <1>12
         DEF DispatcherStep

\* Operator recovery of a quiescent attempt releases a fence nothing depends on.
LEMMA ResumeFence ==
    ASSUME TypeOK, FenceInv, NEW p \in Pairs, ResumeSyncDelivery(p)
    PROVE  FenceInv'
<1>1. UNCHANGED <<disp, wire, paired>> /\ fence' = [fence EXCEPT ![p] = NoFence]
  BY Groups DEF ResumeSyncDelivery
<1>2. Quiescent(fence[p].token)
  BY DEF ResumeSyncDelivery
<1>3. \A q \in Pairs : q # p => fence'[q] = fence[q]
  BY <1>1 DEF TypeOK
<1>4. TokensDistinct' /\ TokensReal' /\ WriterWaits'
  BY <1>1 DEF FenceInv, TokensDistinct, TokensReal, WriterWaits, Busy
<1>5. WriteOwnsFence'
  BY <1>1, <1>2, <1>3 DEF FenceInv, WriteOwnsFence, Quiescent, TypeOK, Event
<1>6. ASSUME NEW d \in Dispatchers, disp[d].pc \in {"begun", "sent"}, disp[d].ev.pair[1] \in paired
      PROVE  fence'[disp[d].ev.pair].token = disp[d].ev.token
  <2>1. disp[d].ev.pair \in Pairs
    BY <1>6, DispatcherMoves
  <2>2. fence[disp[d].ev.pair].token = disp[d].ev.token
    BY <1>6 DEF FenceInv, DispatcherOwnsFence
  <2>3. disp[d].ev.pair # p
    BY <1>2, <1>6, <2>2 DEF Quiescent
  <2> QED  BY <1>3, <2>1, <2>2, <2>3
<1>7. DispatcherOwnsFence'
  BY <1>1, <1>6 DEF DispatcherOwnsFence
<1> QED  BY <1>4, <1>5, <1>7 DEF FenceInv

\* Under the fence invariant every write in flight carries the fence's token.
LEMMA FenceInvSuffices == FenceInv => OneWriteInFlight
<1> SUFFICES ASSUME FenceInv, NEW p \in Pairs, p[1] \in paired
             PROVE  \A t \in Writing(p) : t = fence[p].token
  BY DEF OneWriteInFlight
<1> QED  BY DEF FenceInv, WriteOwnsFence, DispatcherOwnsFence, Writing

\* FenceInv is inductive: every attempt that may write holds the fence of its account.
LEMMA FenceInvAlways == Spec => []FenceInv
<1>1. Init => FenceInv
  BY DEF Init, FenceInv, TokensDistinct, TokensReal, DispatcherOwnsFence, WriteOwnsFence,
         WriterWaits, Busy, Idle
<1>2. TypeOK /\ FenceInv /\ [Next]_vars => FenceInv'
  <2> SUFFICES ASSUME TypeOK, FenceInv, [Next]_vars  PROVE FenceInv'
    OBVIOUS
  <2>1. ASSUME NEW u \in Users, UserStep(u)  PROVE FenceInv'
    BY <2>1, FenceInvStutters, Groups
    DEF UserStep, CreateUser, UpdateUser, EndDatePasses, ExpireAccount, DeleteUser, ResetMFA
  <2>2. ASSUME NEW s \in Systems, ResyncSystem(s) \/ ResumeProvisioning(s)  PROVE FenceInv'
    BY <2>2, FenceInvStutters, Groups DEF ResyncSystem, ResumeProvisioning
  <2>3. ASSUME NEW s \in Systems, DeletePairedSystem(s)  PROVE FenceInv'
    <3>1. /\ UNCHANGED <<disp, wire>> /\ paired' = paired \ {s}
          /\ \A p \in Pairs : p[1] # s => fence'[p] = fence[p]
      BY <2>3, Groups DEF DeletePairedSystem
    <3>2. TokensDistinct' /\ TokensReal' /\ WriterWaits'
      BY <3>1 DEF FenceInv, TokensDistinct, TokensReal, WriterWaits, Busy
    <3>3. WriteOwnsFence'
      BY <3>1 DEF FenceInv, WriteOwnsFence, TypeOK, Event
    <3>4. ASSUME NEW d \in Dispatchers, disp[d].pc \in {"begun", "sent"},
                 disp[d].ev.pair[1] \in paired'
          PROVE  fence'[disp[d].ev.pair].token = disp[d].ev.token
      <4>1. disp[d].ev.pair \in Pairs
        BY <3>4, DispatcherMoves
      <4> QED  BY <3>1, <3>4, <4>1 DEF FenceInv, DispatcherOwnsFence
    <3>5. DispatcherOwnsFence'
      BY <3>1, <3>4 DEF DispatcherOwnsFence
    <3> QED  BY <3>2, <3>3, <3>5 DEF FenceInv
  <2>4. ASSUME NEW p \in Pairs, ChangeAccess(p) \/ AccessDrifts(p)  PROVE FenceInv'
    BY <2>4, FenceInvStutters, Groups DEF ChangeAccess, AccessDrifts
  <2>5. ASSUME NEW p \in Pairs, ResumeSyncDelivery(p)  PROVE FenceInv'
    BY <2>5, ResumeFence
  <2>6. CASE ReconcileTick
    BY <2>6, FenceInvStutters, Groups DEF ReconcileTick
  <2>7. ASSUME NEW e \in events, LeaseExpires(e) \/ Prune(e)  PROVE FenceInv'
    BY <2>7, FenceInvStutters, Groups DEF LeaseExpires, Prune
  <2>8. ASSUME NEW d \in Dispatchers, DispatcherStep(d)  PROVE FenceInv'
    BY <2>8, DispatcherStepFence
  <2>9. ASSUME NEW w \in wire, Late(w)  PROVE FenceInv'
    <3>1. wire' \subseteq wire /\ UNCHANGED <<fence, disp, paired>>
      BY <2>9, Groups DEF Late, Lands
    <3> QED  BY <3>1, FewerWrites
  <2>10. CASE ApplyRestoredState
    <3>1. wire' = {} /\ disp' = [d \in Dispatchers |-> Idle]
      BY <2>10 DEF ApplyRestoredState
    <3> QED  BY <3>1 DEF FenceInv, TokensDistinct, TokensReal, DispatcherOwnsFence,
                         WriteOwnsFence, WriterWaits, Busy, Idle
  <2>11. CASE UNCHANGED vars
    BY <2>11, FenceInvStutters DEF vars
  <2> QED  BY <2>1, <2>2, <2>3, <2>4, <2>5, <2>6, <2>7, <2>8, <2>9, <2>10, <2>11
           DEF Next, SystemStep
<1> QED  BY <1>1, <1>2, TypeCorrect, PTL DEF Spec

\* At most one delivery at a time may write to an account of a paired connector
\* (BeginSyncDelivery's durable fence), however many passes overlap, whichever leases
\* expire, answers are lost, processes crash or attempts are recovered.
THEOREM OneWriteInFlightAlways == Spec => []OneWriteInFlight
BY TypeCorrect, FenceInvAlways, FenceInvSuffices, PTL

-----------------------------------------------------------------------------
(* A restored directory is quiet                                           *)

\* The outbox numbers its events per connector and account, and what a capsule carried stays
\* closed: exhausted, at a revision no state has.
Sealed(D) ==
    /\ \A e \in D.events : e.id <= D.serial[e.pair]
    /\ \A e, f \in D.events : e.pair = f.pair /\ e.id = f.id => e = f
    /\ \A x \in capsule : x[2] <= D.serial[x[1]]
    /\ \A e \in D.events :
          <<e.pair, e.id>> \in capsule => e.status = "failed" /\ e.rev = -1 /\ ~Stateless(e)

\* What a dispatcher holds was claimed after the restore and after the hold.
MaySend(e) == <<e.pair, e.id>> \notin capsule /\ e.pair[1] \notin held

Quiet ==
    /\ Sealed(Db)
    /\ \A d \in Dispatchers : Busy(d) => MaySend(disp[d].ev)
    /\ \A w \in wire : MaySend(w)
    /\ \A p \in Pairs : fence[p] # NoFence => <<p, fence[p].id>> \notin capsule

\* The columns that name an event survive the edits of its row.
LEMMA EventNames ==
    ASSUME NEW e \in Event
    PROVE  /\ \A t : LET f == [e EXCEPT !.leased = TRUE, !.token = t]
                     IN  /\ f.pair = e.pair /\ f.id = e.id /\ f.type = e.type
                         /\ f.rev = e.rev /\ f.status = e.status /\ f.token = t
           /\ LET f == [e EXCEPT !.leased = FALSE]
              IN  f.pair = e.pair /\ f.id = e.id /\ f.type = e.type /\ f.rev = e.rev
                    /\ f.status = e.status
           /\ LET f == Closed(e)
              IN  f.pair = e.pair /\ f.id = e.id /\ f.type = e.type /\ f.rev = -1
                    /\ f.status = "failed"
           /\ LET f == Revived(e)
              IN  f.pair = e.pair /\ f.id = e.id /\ f.type = e.type /\ f.rev = e.rev
                    /\ f.status = "pending"
           /\ \A s, n : LET f == [e EXCEPT !.status = s, !.attempts = n, !.leased = FALSE,
                                           !.token = NoToken]
                        IN  /\ f.pair = e.pair /\ f.id = e.id /\ f.type = e.type
                            /\ f.rev = e.rev /\ f.status = s
BY DEF Event, Closed, Revived

\* Events that go leave the outbox sealed.
LEMMA SealedFewer ==
    ASSUME NEW D \in Tables, Sealed(D), NEW E \in Tables,
           E.events \subseteq D.events, E.serial = D.serial
    PROVE  Sealed(E)
BY DEF Sealed

\* So do new events, which take the next number.
LEMMA InsertSealed ==
    ASSUME capsule \subseteq Pairs \X Nat,
           NEW D \in Tables, Sealed(D), NEW P \in SUBSET Pairs, NEW new \in [P -> Event],
           \A p \in P : new[p].pair = p /\ new[p].id = D.serial[p] + 1
    PROVE  Sealed(Insert(D, new))
<1> DEFINE E == Insert(D, new)
<1>1. DOMAIN new = P
  OBVIOUS
<1>2. D.events \subseteq Event /\ D.serial \in [Pairs -> Nat]
  BY DEF Tables
<1>3. /\ E.events = D.events \cup {new[p] : p \in P}
      /\ \A p \in Pairs : E.serial[p] = IF p \in P THEN D.serial[p] + 1 ELSE D.serial[p]
  BY <1>1 DEF Insert
<1> HIDE DEF E
<1>4. \A e \in E.events : e \in Event /\ e.pair \in Pairs
  BY <1>2, <1>3 DEF Event
<1>5. ASSUME NEW e \in E.events, e \notin D.events
      PROVE  e.pair \in P /\ e = new[e.pair] /\ e.id = D.serial[e.pair] + 1
  BY <1>3, <1>5
<1>6. ASSUME NEW e \in D.events
      PROVE  e.pair \in Pairs /\ e.id \in Nat /\ e.id <= D.serial[e.pair]
  BY <1>2 DEF Sealed, Event
<1>7. \A p \in Pairs : D.serial[p] \in Nat /\ E.serial[p] \in Nat /\ D.serial[p] <= E.serial[p]
  BY <1>2, <1>3
<1>8. ASSUME NEW e \in E.events  PROVE e.id <= E.serial[e.pair]
  BY <1>2, <1>3, <1>5, <1>6, <1>7
<1>9. ASSUME NEW e \in E.events, NEW f \in E.events, e.pair = f.pair, e.id = f.id
      PROVE  e = f
  <2>1. CASE e \in D.events /\ f \in D.events
    BY <1>9, <2>1 DEF Sealed
  <2>2. CASE e \notin D.events /\ f \notin D.events
    BY <1>5, <1>9, <2>2
  <2>3. ASSUME NEW g \in D.events, NEW h \in E.events, h \notin D.events, g.pair = h.pair
        PROVE  g.id # h.id
    BY <1>5, <1>6, <1>7, <2>3
  <2> QED  BY <1>9, <2>1, <2>2, <2>3
<1>10. ASSUME NEW x \in capsule
       PROVE  x[1] \in Pairs /\ x[2] \in Nat /\ x[2] <= D.serial[x[1]] /\ x[2] <= E.serial[x[1]]
  <2>1. x[1] \in Pairs /\ x[2] \in Nat /\ x[2] <= D.serial[x[1]]
    BY DEF Sealed
  <2> QED  BY <1>7, <2>1
<1>11. ASSUME NEW e \in E.events, <<e.pair, e.id>> \in capsule
       PROVE  e.status = "failed" /\ e.rev = -1 /\ ~Stateless(e)
  <2>1. e.id <= D.serial[e.pair] /\ e.pair \in Pairs /\ e.id \in Nat
    BY <1>4, <1>10, <1>11 DEF Event
  <2>2. e \in D.events
    BY <1>5, <1>7, <2>1
  <2> QED  BY <1>11, <2>2 DEF Sealed
<1> QED  BY <1>8, <1>9, <1>10, <1>11 DEF Sealed, E

\* What queueDesiredStateTx writes: some events of the outbox go, and each account and connector
\* it touches gets at most one new event.
LEMMA QueueSealed ==
    ASSUME capsule \subseteq Pairs \X Nat, NEW D \in Tables, Sealed(D), NEW W
    PROVE  Sealed(QueueDesiredState(D, W))
<1> DEFINE touched == {p \in Pairs : W[p] # "keep"}
           queued == {p \in touched : ~Forgotten(D, p, W[p])}
           rows == [p \in Pairs |->
                       IF p \in queued THEN NextRow(D.state[p], W[p])
                       ELSE IF p \in touched THEN NoRow ELSE D.state[p]]
           kept == {e \in D.events : ~(e.pair \in touched /\ Superseded(e))}
           cleared == [state |-> rows, events |-> kept, serial |-> D.serial]
           new == [p \in queued |->
                     NewEvent(D, p, EventType(D, p, W[p]), rows[p].active, rows[p].rev)]
<1>1. D.state \in [Pairs -> Row] /\ D.events \subseteq Event /\ D.serial \in [Pairs -> Nat]
  BY DEF Tables
<1>2. rows \in [Pairs -> Row]
  <2>1. ASSUME NEW p \in Pairs  PROVE rows[p] \in Row
    BY <1>1, NextRowType, NoRowType
  <2> QED  BY <2>1
<1>3. cleared \in Tables
  BY <1>1, <1>2 DEF Tables
<1>4. queued \in SUBSET Pairs
  OBVIOUS
<1>5. new \in [queued -> Event] /\ \A p \in queued : new[p].pair = p /\ new[p].id = D.serial[p] + 1
  <2>1. ASSUME NEW p \in queued
        PROVE  LET e == NewEvent(D, p, EventType(D, p, W[p]), rows[p].active, rows[p].rev)
               IN  e \in Event /\ e.pair = p /\ e.id = D.serial[p] + 1
    <3>1. EventType(D, p, W[p]) \in EventTypes
      BY DEF EventType, EventTypes
    <3>2. rows[p] \in Row
      BY <1>2
    <3>3. rows[p].active \in BOOLEAN /\ rows[p].rev \in Int
      BY <3>2 DEF Row
    <3> HIDE DEF rows
    <3>4. NewEvent(D, p, EventType(D, p, W[p]), rows[p].active, rows[p].rev) \in Event
      BY <3>1, <3>3, NewEventType
    <3> QED  BY <3>4 DEF NewEvent
  <2> HIDE DEF rows, queued
  <2> QED  BY <2>1
<1>6. Sealed(cleared)
  <2>1. cleared.events \subseteq D.events /\ cleared.serial = D.serial
    OBVIOUS
  <2> HIDE DEF cleared
  <2> QED  BY <1>3, <2>1, SealedFewer
<1>7. Sealed(Insert(cleared, new))
  <2>1. cleared.serial = D.serial
    OBVIOUS
  <2> HIDE DEF cleared, new, queued
  <2> QED  BY <1>3, <1>4, <1>5, <1>6, <2>1, InsertSealed
<1> QED  BY <1>7 DEF QueueDesiredState

\* The sweep revives stateless work and work of the current revision, neither of which is sealed.
LEMMA SweepSealed ==
    ASSUME NEW D \in Tables, Sealed(D)
    PROVE  Sealed(Sweep(D))
<1> DEFINE E == Sweep(D)
           K == {f \in D.events : Exhausted(f) => Stateless(f) \/ Current(D, f)}
<1>1. D.state \in [Pairs -> Row] /\ D.events \subseteq Event /\ D.serial \in [Pairs -> Nat]
  BY DEF Tables
<1>2. E.serial = D.serial /\ E.events = {IF Exhausted(e) THEN Revived(e) ELSE e : e \in K}
  BY DEF Sweep
<1>3. ASSUME NEW e \in E.events
      PROVE  \E f \in D.events : /\ e.pair = f.pair /\ e.id = f.id
                                 /\ e = IF Exhausted(f) THEN Revived(f) ELSE f
                                 /\ Exhausted(f) => Stateless(f) \/ Current(D, f)
  <2>1. PICK f \in K : e = IF Exhausted(f) THEN Revived(f) ELSE f
    BY <1>2
  <2>2. f \in Event
    BY <1>1
  <2> QED  BY <2>1, <2>2, EventNames
<1> HIDE DEF E, K
<1>4. \A e \in E.events : e.id <= E.serial[e.pair]
  BY <1>2, <1>3 DEF Sealed
<1>5. \A e, f \in E.events : e.pair = f.pair /\ e.id = f.id => e = f
  BY <1>3 DEF Sealed
<1>6. \A x \in capsule : x[2] <= E.serial[x[1]]
  BY <1>2 DEF Sealed
<1>7. ASSUME NEW e \in E.events, <<e.pair, e.id>> \in capsule
      PROVE  e.status = "failed" /\ e.rev = -1 /\ ~Stateless(e)
  <2>1. PICK f \in D.events : /\ e.pair = f.pair /\ e.id = f.id
                              /\ e = IF Exhausted(f) THEN Revived(f) ELSE f
                              /\ Exhausted(f) => Stateless(f) \/ Current(D, f)
    BY <1>3
  <2>2. f.status = "failed" /\ f.rev = -1 /\ ~Stateless(f)
    BY <1>7, <2>1 DEF Sealed
  <2>3. D.state[f.pair].rev \in Nat
    BY <1>1 DEF Event, Row
  <2>4. ~Current(D, f)
    BY <2>2, <2>3 DEF Current
  <2> QED  BY <2>1, <2>2, <2>4
<1> QED  BY <1>4, <1>5, <1>6, <1>7 DEF Sealed, E

LEMMA OffboardSealed ==
    ASSUME capsule \subseteq Pairs \X Nat, NEW D \in Tables, Sealed(D), NEW u, NEW want
    PROVE  Sealed(Offboard(D, u, want))
<1> DEFINE holds == {p \in Pairs : /\ p[2] = u /\ p[1] \in paired
                                   /\ D.state[p].exists \/ p \in linked}
           rows == [p \in Pairs |->
                      IF p \in holds /\ p \in linked
                      THEN [D.state[p] EXCEPT !.exists = TRUE, !.provisioned = TRUE]
                      ELSE D.state[p]]
           marked == [state |-> rows, events |-> D.events, serial |-> D.serial]
<1>1. D.state \in [Pairs -> Row] /\ D.events \subseteq Event /\ D.serial \in [Pairs -> Nat]
  BY DEF Tables
<1>2. ASSUME NEW p \in Pairs  PROVE rows[p] \in Row
  BY <1>1 DEF Row
<1>3. marked \in Tables
  BY <1>1, <1>2 DEF Tables
<1>4. marked.events \subseteq D.events /\ marked.serial = D.serial
  OBVIOUS
<1> HIDE DEF marked
<1>5. Sealed(marked)
  BY <1>3, <1>4, SealedFewer
<1>6. Sealed(QueueDesiredState(marked, [p \in Pairs |-> IF p \in holds THEN want ELSE "keep"]))
  BY <1>3, <1>5, QueueSealed
<1> QED  BY <1>6 DEF Offboard, marked

LEMMA ReconcileSealed ==
    ASSUME capsule \subseteq Pairs \X Nat, NEW D \in Tables, Sealed(D), NEW acc
    PROVE  Sealed(Reconcile(D, acc))
BY QueueType, QueueSealed, SweepSealed DEF Reconcile

LEMMA UserUpdateSealed ==
    ASSUME capsule \subseteq Pairs \X Nat, NEW D \in Tables, Sealed(D), NEW u, NEW acc
    PROVE  Sealed(QueueUserUpdate(D, u, acc))
BY QueueSealed DEF QueueUserUpdate

\* The directory's transactions keep the outbox sealed.
LEMMA DirectorySealed ==
    ASSUME TypeOK, Sealed(Db),
           \/ \E u \in Users : UserStep(u)
           \/ \E s \in Systems : ResyncSystem(s)
           \/ \E p \in Pairs : ChangeAccess(p) \/ AccessDrifts(p)
           \/ ReconcileTick
    PROVE  Sealed(Db)'
<1>0. Db \in Tables /\ capsule \subseteq Pairs \X Nat
  BY DbType DEF TypeOK
<1>1. UNCHANGED Delivery
  BY DEF UserStep, CreateUser, UpdateUser, EndDatePasses, ExpireAccount, DeleteUser, ResetMFA,
         ResyncSystem, ChangeAccess, AccessDrifts, ReconcileTick
<1>2. \/ UNCHANGED outbox
      \/ \E D : Commit(D) /\ Sealed(D)
  <2>1. ASSUME NEW u \in Users, UserStep(u)  PROVE <1>2
    <3>1. CASE CreateUser(u)  BY <1>0, <3>1, ReconcileSealed DEF CreateUser
    <3>2. ASSUME NEW to, UpdateUser(u, to)  PROVE <1>2
      <4> DEFINE acc == Access(granted, users')
                 d == IF users[u] = "active" /\ to = "disabled" THEN Offboard(Db, u, "off") ELSE Db
      <4>1. d \in Tables /\ Sealed(d)
        BY <1>0, OffboardType, OffboardSealed
      <4>2. Sealed(Reconcile(QueueUserUpdate(d, u, acc), acc))
        <5> HIDE DEF d, acc
        <5> QED  BY <1>0, <4>1, UserUpdateType, UserUpdateSealed, ReconcileSealed
      <4> QED  BY <3>2, <4>2 DEF UpdateUser
    <3>3. CASE EndDatePasses(u)  BY <3>3 DEF EndDatePasses
    <3>4. CASE ExpireAccount(u)  BY <1>0, <3>4, OffboardSealed DEF ExpireAccount
    <3>5. CASE DeleteUser(u)
      <4> DEFINE d == Offboard(Db, u, "delete")
                 strangers == {p \in Pairs : p[2] = u /\ p[1] \in paired /\ ~d.state[p].exists}
                 rows == [p \in Pairs |->
                            IF p \in strangers THEN [NoRow EXCEPT !.exists = TRUE] ELSE d.state[p]]
                 marked == [state |-> rows, events |-> d.events, serial |-> d.serial]
                 new == [p \in strangers |-> NewEvent(d, p, "deleted", FALSE, 0)]
      <4>1. d \in Tables /\ Sealed(d)
        BY <1>0, OffboardType, OffboardSealed
      <4>2. marked \in Tables
        <5> HIDE DEF d
        <5>1. [NoRow EXCEPT !.exists = TRUE] \in Row
          BY NoRowType DEF Row
        <5>2. d.state \in [Pairs -> Row] /\ d.events \subseteq Event /\ d.serial \in [Pairs -> Nat]
          BY <4>1 DEF Tables
        <5> QED  BY <5>1, <5>2 DEF Tables
      <4>3. /\ new \in [strangers -> Event]
            /\ \A p \in strangers : new[p].pair = p /\ new[p].id = d.serial[p] + 1
        <5> HIDE DEF d
        <5>1. ASSUME NEW p \in strangers
              PROVE  LET e == NewEvent(d, p, "deleted", FALSE, 0)
                     IN  e \in Event /\ e.pair = p /\ e.id = d.serial[p] + 1
          <6>1. "deleted" \in EventTypes /\ FALSE \in BOOLEAN /\ 0 \in Int /\ p \in Pairs
            BY DEF EventTypes
          <6>2. NewEvent(d, p, "deleted", FALSE, 0) \in Event
            BY <4>1, <6>1, NewEventType
          <6> QED  BY <6>2 DEF NewEvent
        <5> HIDE DEF strangers
        <5> QED  BY <5>1
      <4>4. strangers \in SUBSET Pairs
        OBVIOUS
      <4>5. Sealed(marked) /\ marked.serial = d.serial
        <5>1. marked.events \subseteq d.events /\ marked.serial = d.serial
          OBVIOUS
        <5> HIDE DEF marked, d
        <5> QED  BY <4>1, <4>2, <5>1, SealedFewer
      <4>6. Insert(marked, new) \in Tables /\ Sealed(Insert(marked, new))
        <5> HIDE DEF marked, new, strangers, d
        <5> QED  BY <1>0, <4>2, <4>3, <4>4, <4>5, InsertType, InsertSealed
      <4>7. Sealed(Reconcile(Insert(marked, new), Access(granted', users')))
        <5> HIDE DEF marked, new
        <5> QED  BY <1>0, <4>6, ReconcileSealed
      <4> QED  BY <3>5, <4>7 DEF DeleteUser
    <3>6. CASE ResetMFA(u)
      <4> DEFINE told == {p \in Pairs : p[2] = u /\ state[p].active}
                 new == [p \in told |->
                           NewEvent(Db, p, "mfa_reset", users[u] = "active", state[p].rev)]
      <4>1. ASSUME NEW p \in told
            PROVE  LET e == NewEvent(Db, p, "mfa_reset", users[u] = "active", state[p].rev)
                   IN  e \in Event /\ e.pair = p /\ e.id = Db.serial[p] + 1
        <5>1. state[p].rev \in Int
          BY DEF TypeOK, Row
        <5>2. (users[u] = "active") \in BOOLEAN /\ "mfa_reset" \in EventTypes
          BY DEF EventTypes
        <5>3. NewEvent(Db, p, "mfa_reset", users[u] = "active", state[p].rev) \in Event
          BY <1>0, <5>1, <5>2, NewEventType, Zenon
        <5> QED  BY <5>3 DEF NewEvent
      <4>2. /\ new \in [told -> Event] /\ told \in SUBSET Pairs
            /\ \A p \in told : new[p].pair = p /\ new[p].id = Db.serial[p] + 1
        <5> HIDE DEF told
        <5>1. new \in [told -> Event] /\ \A p \in told : new[p].pair = p /\ new[p].id = Db.serial[p] + 1
          BY <4>1
        <5> QED  BY <5>1 DEF told
      <4>3. Sealed(Insert(Db, new))
        <5> HIDE DEF new, told
        <5> QED  BY <1>0, <4>2, InsertSealed
      <4> QED  BY <3>6, <4>3 DEF ResetMFA
    <3> QED  BY <2>1, <3>1, <3>2, <3>3, <3>4, <3>5, <3>6 DEF UserStep
  <2>2. ASSUME NEW s \in Systems, ResyncSystem(s)  PROVE <1>2
    BY <1>0, <2>2, ReconcileType, ReconcileSealed, QueueSealed DEF ResyncSystem
  <2>3. ASSUME NEW p \in Pairs, ChangeAccess(p) \/ AccessDrifts(p)  PROVE <1>2
    BY <1>0, <2>3, ReconcileSealed DEF ChangeAccess, AccessDrifts
  <2>4. CASE ReconcileTick
    BY <1>0, <2>4, ReconcileSealed DEF ReconcileTick
  <2> QED  BY <2>1, <2>2, <2>3, <2>4
<1>3. capsule' = capsule
  BY <1>1, Groups
<1>4. CASE UNCHANGED outbox
  BY <1>3, <1>4, Groups DEF Sealed, Db
<1>5. ASSUME NEW D, Commit(D), Sealed(D)  PROVE Sealed(Db)'
  BY <1>3, <1>5 DEF Sealed, Db, Commit
<1> QED  BY <1>2, <1>4, <1>5

\* A dispatcher's and an operator's edits of rows outside the capsule keep it sealed.
LEMMA EditsSealed ==
    ASSUME TypeOK, Sealed(Db), UNCHANGED <<serial, capsule>>,
           NEW S \in SUBSET events, NEW T, events' = (events \ S) \cup T,
           \A e \in T : \E f \in S : e.pair = f.pair /\ e.id = f.id,
           \A e \in T : <<e.pair, e.id>> \notin capsule,
           \A e, f \in T : e.pair = f.pair /\ e.id = f.id => e = f
    PROVE  Sealed(Db)'
<1>1. Db.events = events /\ Db.serial = serial /\ Db'.events = events' /\ Db'.serial = serial
  BY DEF Db
<1>2. \A e \in events' : e.id <= serial[e.pair]
  BY <1>1 DEF Sealed
<1>3. ASSUME NEW e \in events', NEW f \in events', e.pair = f.pair, e.id = f.id  PROVE e = f
  <2>1. \A a, b \in events : a.pair = b.pair /\ a.id = b.id => a = b
    BY <1>1 DEF Sealed
  <2>2. ASSUME NEW a \in events \ S, NEW b \in T  PROVE a.pair # b.pair \/ a.id # b.id
    BY <2>1
  <2> QED  BY <1>3, <2>1, <2>2
<1>4. \A x \in capsule : x[2] <= serial[x[1]]
  BY <1>1 DEF Sealed
<1>5. \A e \in events' : <<e.pair, e.id>> \in capsule
                            => e.status = "failed" /\ e.rev = -1 /\ ~Stateless(e)
  BY <1>1 DEF Sealed
<1> QED  BY <1>1, <1>2, <1>3, <1>4, <1>5 DEF Sealed, Stateless

\* Steps that neither touch the outbox nor hand a dispatcher anything new.
LEMMA QuietStays ==
    ASSUME Quiet, UNCHANGED <<events, serial, capsule>>, held' \subseteq held,
           wire' \subseteq wire,
           \A d \in Dispatchers : Busy(d)' => Busy(d) /\ disp'[d].ev = disp[d].ev,
           \A p \in Pairs : fence'[p] = fence[p] \/ fence'[p] = NoFence
    PROVE  Quiet'
<1>1. Sealed(Db)'
  BY DEF Quiet, Sealed, Db
<1>2. ASSUME NEW e, MaySend(e)  PROVE <<e.pair, e.id>> \notin capsule' /\ e.pair[1] \notin held'
  BY <1>2 DEF MaySend
<1> QED  BY <1>1, <1>2 DEF Quiet, MaySend

\* A dispatcher that drops its event, or only moves on.
LEMMA QuietMoves ==
    ASSUME TypeOK, NEW d \in Dispatchers,
           \/ Drop(d)
           \/ Busy(d) /\ \E pc \in DispatcherPc \ {"idle"} : Step(d, pc)
           \/ UNCHANGED disp
    PROVE  \A c \in Dispatchers : Busy(c)' => Busy(c) /\ disp'[c].ev = disp[c].ev
<1>1. CASE Drop(d)
  BY <1>1 DEF Drop, Busy, TypeOK
<1>2. CASE Busy(d) /\ \E pc \in DispatcherPc \ {"idle"} : Step(d, pc)
  BY <1>2, StepFacts
<1>3. CASE UNCHANGED disp
  BY <1>3 DEF Busy
<1> QED  BY <1>1, <1>2, <1>3

\* The row a claim leaves: the event, leased under a token nobody uses.
Claims(e, m) ==
    /\ m.pair = e.pair /\ m.id = e.id /\ m.type = e.type /\ m.active = e.active /\ m.rev = e.rev
    /\ m.status = e.status /\ m.attempts = e.attempts
    /\ m.leased = TRUE /\ m.token \in Tokens \ TokensInUse

LEMMA ClaimFacts ==
    ASSUME TypeOK, NEW d \in Dispatchers, Claim(d)
    PROVE  \E e \in events, m \in Event :
              /\ Due(e) /\ Claims(e, m)
              /\ events' = (events \ {e}) \cup {m}
              /\ disp'[d].pc = "claimed" /\ disp'[d].ev = m
              /\ \A c \in Dispatchers : c # d => disp'[c] = disp[c]
<1>1. PICK e \in events :
        LET t == CHOOSE t \in Tokens : t \notin TokensInUse
            mine == [e EXCEPT !.leased = TRUE, !.token = t]
        IN  /\ Due(e)
            /\ events' = (events \ {e}) \cup {mine}
            /\ disp' = [disp EXCEPT ![d] = [pc |-> "claimed", ev |-> mine,
                                            sys |-> e.pair[1] \in paired]]
  BY DEF Claim
<1>2. PICK t \in Tokens \ TokensInUse :
        /\ events' = (events \ {e}) \cup {[e EXCEPT !.leased = TRUE, !.token = t]}
        /\ disp' = [disp EXCEPT ![d] = [pc |-> "claimed",
                                        ev |-> [e EXCEPT !.leased = TRUE, !.token = t],
                                        sys |-> e.pair[1] \in paired]]
  <2> DEFINE t == CHOOSE t \in Tokens : t \notin TokensInUse
  <2>1. t \in Tokens \ TokensInUse
    BY DEF Claim
  <2> QED  BY <1>1, <2>1
<1>3. PICK m : m = [e EXCEPT !.leased = TRUE, !.token = t]
  OBVIOUS
<1>4. m \in Event
  BY <1>3, EventEdits DEF TypeOK
<1>5. Claims(e, m)
  BY <1>3 DEF Claims, TypeOK, Event
<1>6. /\ disp'[d].pc = "claimed" /\ disp'[d].ev = m
      /\ \A c \in Dispatchers : c # d => disp'[c] = disp[c]
  BY <1>2, <1>3 DEF TypeOK
<1> QED  BY <1>1, <1>2, <1>3, <1>4, <1>5, <1>6

LEMMA DispatcherStepQuiet ==
    ASSUME TypeOK, Quiet, NEW d \in Dispatchers, DispatcherStep(d)
    PROVE  Quiet'
<1> DEFINE ev == disp[d].ev
<1>0. /\ disp[d].pc # "idle" <=> Busy(d)
      /\ Busy(d) => ev \in Event /\ ev.pair \in Pairs /\ MaySend(ev)
  BY DispatcherMoves DEF Quiet
<1>1. CASE Claim(d)
  <2>1. PICK e \in events, m \in Event :
          /\ Due(e) /\ Claims(e, m)
          /\ events' = (events \ {e}) \cup {m}
          /\ disp'[d].ev = m /\ \A c \in Dispatchers : c # d => disp'[c] = disp[c]
    BY <1>1, ClaimFacts
  <2>2. m.pair = e.pair /\ m.id = e.id
    BY <2>1 DEF Claims
  <2>3. e.status = "pending" /\ e.pair[1] \notin held
    BY <2>1 DEF Due
  <2>4. <<e.pair, e.id>> \notin capsule
    BY <2>3 DEF Quiet, Sealed, Db
  <2>5. UNCHANGED <<fence, wire, held, serial, capsule>>
    BY <1>1, Groups DEF Claim
  <2>6. Sealed(Db)'
    <3> DEFINE S == {e}
               T == {m}
    <3>1. S \in SUBSET events /\ events' = (events \ S) \cup T
      BY <2>1
    <3>2. /\ \A f \in T : \E g \in S : f.pair = g.pair /\ f.id = g.id
          /\ \A f \in T : <<f.pair, f.id>> \notin capsule
          /\ \A f, g \in T : f = g
      BY <2>2, <2>4
    <3> HIDE DEF S, T
    <3>3. Sealed(Db)
      BY DEF Quiet
    <3> QED  BY <2>5, <3>1, <3>2, <3>3, EditsSealed
  <2>7. <<m.pair, m.id>> \notin capsule' /\ m.pair[1] \notin held'
    BY <2>2, <2>3, <2>4, <2>5
  <2> QED  BY <2>1, <2>5, <2>6, <2>7 DEF Quiet, MaySend, Busy
<1>2. CASE Begin(d)
  <2>1. Busy(d) /\ Step(d, "begun")
    BY <1>0, <1>2 DEF Begin
  <2>2. \A c \in Dispatchers : Busy(c)' => Busy(c) /\ disp'[c].ev = disp[c].ev
    BY <2>1, QuietMoves DEF DispatcherPc
  <2>3. UNCHANGED <<events, serial, capsule, held, wire>>
    BY <1>2, Groups DEF Begin
  <2>4. \A p \in Pairs : fence'[p] = fence[p] \/ (p = ev.pair /\ fence'[p].id = ev.id)
    BY <1>0, <1>2, <2>1 DEF Begin, TypeOK
  <2>5. \A p \in Pairs : fence'[p] # NoFence => <<p, fence'[p].id>> \notin capsule
    BY <1>0, <2>1, <2>4 DEF Quiet, MaySend
  <2>6. Sealed(Db)'
    BY <2>3 DEF Quiet, Sealed, Db
  <2> QED  BY <2>2, <2>3, <2>5, <2>6 DEF Quiet, MaySend
<1>3. CASE BeginRefused(d) \/ MarkUncertain(d) \/ Crash(d) \/ FindRemote(d)
  <2>1. Drop(d) \/ UNCHANGED disp
    BY <1>3 DEF BeginRefused, MarkUncertain, Crash, FindRemote
  <2>2. UNCHANGED <<events, serial, capsule, held, wire, fence>>
    BY <1>3, Groups DEF BeginRefused, MarkUncertain, Crash, FindRemote
  <2> QED  BY <2>1, <2>2, QuietMoves, QuietStays
<1>4. CASE LoadSystem(d) \/ SkipWrite(d) \/ Accept(d) \/ Conflict(d) \/ Refuse(d)
           \/ AcceptUnusable(d) \/ LoseAnswer(d)
  <2>1. Busy(d) /\ \E pc \in DispatcherPc \ {"idle"} : Step(d, pc)
    BY <1>0, <1>4 DEF LoadSystem, SkipWrite, Accept, Conflict, Refuse, AcceptUnusable, LoseAnswer,
                      Awaiting, DispatcherPc, Known
  <2>2. UNCHANGED <<events, serial, capsule, held, fence>> /\ wire' \subseteq wire
    BY <1>4, Groups DEF LoadSystem, SkipWrite, Accept, Conflict, Refuse, AcceptUnusable,
                        LoseAnswer, Lands
  <2> QED  BY <2>1, <2>2, QuietMoves, QuietStays
<1>5. CASE Send(d)
  <2>1. Busy(d) /\ Step(d, "sent") /\ wire' = wire \cup {ev}
    BY <1>0, <1>5 DEF Send
  <2>2. \A c \in Dispatchers : Busy(c)' => Busy(c) /\ disp'[c].ev = disp[c].ev
    BY <2>1, QuietMoves DEF DispatcherPc
  <2>3. UNCHANGED <<events, serial, capsule, held, fence>>
    BY <1>5, Groups DEF Send
  <2>4. Sealed(Db)'
    BY <2>3 DEF Quiet, Sealed, Db
  <2>5. \A w \in wire' : <<w.pair, w.id>> \notin capsule /\ w.pair[1] \notin held
    BY <1>0, <2>1 DEF Quiet, MaySend
  <2> QED  BY <2>2, <2>3, <2>4, <2>5 DEF Quiet, MaySend
<1>6. CASE Finish(d)
  <2>1. Busy(d) /\ Drop(d) /\ UNCHANGED <<serial, capsule, held, wire>>
    BY <1>0, <1>6, Groups DEF Finish, Known
  <2>2. \A c \in Dispatchers : Busy(c)' => Busy(c) /\ disp'[c].ev = disp[c].ev
    BY <2>1, QuietMoves
  <2>3. CASE fence[ev.pair].token # ev.token
    <3>1. fence' = fence /\ events' = events
      BY <1>6, <2>3 DEF Finish
    <3> QED  BY <2>1, <2>2, <3>1, QuietStays
  <2>4. CASE fence[ev.pair].token = ev.token
    <3> DEFINE out == Outcome(disp[d].pc, ev.attempts)
               mine == {e \in events : e.pair = ev.pair /\ e.id = ev.id /\ e.token = ev.token}
               g(e) == [e EXCEPT !.status = out.status, !.attempts = out.attempts,
                                 !.leased = FALSE, !.token = NoToken]
               T == {g(e) : e \in mine}
    <3>1. events' = (events \ mine) \cup T /\ fence' = [fence EXCEPT ![ev.pair] = NoFence]
      BY <1>6, <2>4 DEF Finish
    <3>2. mine \in SUBSET events
      OBVIOUS
    <3>3. ASSUME NEW e \in mine  PROVE g(e).pair = ev.pair /\ g(e).id = ev.id
      <4>1. e \in Event /\ e.pair = ev.pair /\ e.id = ev.id
        BY DEF TypeOK
      <4> QED  BY <4>1, EventNames
    <3>4. \A a, b \in mine : a = b
      BY DEF Quiet, Sealed, Db
    <3> HIDE DEF g
    <3>5. /\ \A e \in T : \E f \in mine : e.pair = f.pair /\ e.id = f.id
          /\ \A e \in T : e.pair = ev.pair /\ e.id = ev.id
          /\ \A e, f \in T : e = f
      BY <3>3, <3>4
    <3>6. \A e \in T : <<e.pair, e.id>> \notin capsule
      BY <1>0, <2>1, <3>5 DEF MaySend
    <3>7. Sealed(Db)'
      <4> HIDE DEF mine, T
      <4> QED  BY <2>1, <3>1, <3>2, <3>5, <3>6, EditsSealed, ZenonT(30) DEF Quiet
    <3>8. \A p \in Pairs : fence'[p] = fence[p] \/ fence'[p] = NoFence
      BY <3>1 DEF TypeOK
    <3> QED  BY <2>1, <2>2, <3>7, <3>8 DEF Quiet, MaySend
  <2> QED  BY <2>3, <2>4
<1> QED  BY <1>1, <1>2, <1>3, <1>4, <1>5, <1>6 DEF DispatcherStep

\* Work that is queued afresh was begun after the restore.
LEMMA ResumeQuiet ==
    ASSUME TypeOK, Quiet, NEW p \in Pairs, ResumeSyncDelivery(p)
    PROVE  Quiet'
<1> DEFINE its == {e \in events : e.pair = p /\ e.id = fence[p].id}
           g(e) == [e EXCEPT !.status = "pending", !.attempts = 0, !.leased = FALSE,
                             !.token = NoToken]
           T == {g(e) : e \in its}
<1>1. /\ events' = (events \ its) \cup T /\ fence' = [fence EXCEPT ![p] = NoFence]
      /\ UNCHANGED <<serial, capsule, held, wire, disp>> /\ fence[p] # NoFence
  BY Groups DEF ResumeSyncDelivery
<1>2. its \in SUBSET events
  OBVIOUS
<1>3. ASSUME NEW e \in its  PROVE g(e).pair = p /\ g(e).id = fence[p].id
  <2>1. e \in Event /\ e.pair = p /\ e.id = fence[p].id
    BY DEF TypeOK
  <2> QED  BY <2>1, EventNames
<1>4. \A a, b \in its : a = b
  BY DEF Quiet, Sealed, Db
<1> HIDE DEF g
<1>5. /\ \A e \in T : \E f \in its : e.pair = f.pair /\ e.id = f.id
      /\ \A e \in T : e.pair = p /\ e.id = fence[p].id
      /\ \A e, f \in T : e = f
  BY <1>3, <1>4
<1>6. \A e \in T : <<e.pair, e.id>> \notin capsule
  BY <1>1, <1>5 DEF Quiet
<1>7. Sealed(Db)'
  <2> HIDE DEF its, T
  <2> QED  BY <1>1, <1>2, <1>5, <1>6, EditsSealed, ZenonT(30) DEF Quiet
<1>8. \A q \in Pairs : fence'[q] = fence[q] \/ fence'[q] = NoFence
  BY <1>1 DEF TypeOK
<1> QED  BY <1>1, <1>7, <1>8 DEF Quiet, MaySend, Busy

\* ApplyRestoredState adds to the capsule what it closes, and nothing is left that could send it.
LEMMA RestoreQuiet ==
    ASSUME TypeOK, Quiet, ApplyRestoredState
    PROVE  Quiet'
<1> DEFINE open == {e \in events : e.status \in {"pending", "failed"} /\ e.rev # -1}
           T == {Closed(e) : e \in open}
<1>1. /\ events' = (events \ open) \cup T
      /\ capsule' = capsule \cup {<<e.pair, e.id>> : e \in {f \in open : ~Stateless(f)}}
      /\ fence' = [p \in Pairs |-> NoFence] /\ disp' = [d \in Dispatchers |-> Idle]
      /\ wire' = {} /\ serial' = serial
  BY DEF ApplyRestoredState
<1>2. ASSUME NEW e \in open
      PROVE  /\ Closed(e).pair = e.pair /\ Closed(e).id = e.id /\ Closed(e).type = e.type
             /\ Closed(e).rev = -1 /\ Closed(e).status = "failed"
  <2>1. e \in Event
    BY DEF TypeOK
  <2> QED  BY <2>1, EventNames
<1>3. /\ \A e \in events : e.id <= serial[e.pair]
      /\ \A e, f \in events : e.pair = f.pair /\ e.id = f.id => e = f
      /\ \A x \in capsule : x[2] <= serial[x[1]]
      /\ \A e \in events :
            <<e.pair, e.id>> \in capsule => e.status = "failed" /\ e.rev = -1 /\ ~Stateless(e)
  BY DEF Quiet, Sealed, Db
<1>4. ASSUME NEW e \in events'
      PROVE  \E f \in events : /\ e.pair = f.pair /\ e.id = f.id /\ e.type = f.type
                               /\ e = IF f \in open THEN Closed(f) ELSE f
  BY <1>1, <1>2
<1>5. \A e \in events' : e.id <= serial[e.pair]
  BY <1>3, <1>4
<1>6. \A e, f \in events' : e.pair = f.pair /\ e.id = f.id => e = f
  BY <1>3, <1>4
<1>7. \A x \in capsule' : x[2] <= serial[x[1]]
  BY <1>1, <1>3
<1>8. ASSUME NEW e \in events', <<e.pair, e.id>> \in capsule'
      PROVE  e.status = "failed" /\ e.rev = -1 /\ e.type \notin {"deleted", "mfa_reset"}
  <2>1. PICK f \in events : /\ e.pair = f.pair /\ e.id = f.id /\ e.type = f.type
                            /\ e = IF f \in open THEN Closed(f) ELSE f
    BY <1>4
  <2>2. CASE <<e.pair, e.id>> \in capsule
    <3>1. f.status = "failed" /\ f.rev = -1 /\ ~Stateless(f)
      BY <1>3, <2>1, <2>2
    <3>2. e = f
      BY <2>1, <3>1
    <3> QED  BY <3>1, <3>2 DEF Stateless
  <2>3. CASE <<e.pair, e.id>> \notin capsule
    <3>1. PICK h \in open : ~Stateless(h) /\ <<e.pair, e.id>> = <<h.pair, h.id>>
      BY <1>1, <1>8, <2>3
    <3>2. h \in events /\ h.pair = f.pair /\ h.id = f.id
      BY <2>1, <3>1
    <3>3. f = h
      BY <1>3, <3>2
    <3> QED  BY <1>2, <2>1, <3>1, <3>3 DEF Stateless
  <2> QED  BY <2>2, <2>3
<1>9. Sealed(Db)'
  BY <1>1, <1>5, <1>6, <1>7, <1>8 DEF Sealed, Db, Stateless
<1> QED  BY <1>1, <1>9 DEF Quiet, Busy

\* Quiet is inductive: what a capsule's queue was in the middle of stays sealed.
LEMMA QuietAlways == Spec => []Quiet
<1>1. Init => Quiet
  BY DEF Init, Quiet, Sealed, Db, Busy
<1>2. TypeOK /\ Quiet /\ [Next]_vars => Quiet'
  <2> SUFFICES ASSUME TypeOK, Quiet, [Next]_vars  PROVE Quiet'
    OBVIOUS
  <2>1. CASE \/ \E u \in Users : UserStep(u)
             \/ \E s \in Systems : ResyncSystem(s)
             \/ \E p \in Pairs : ChangeAccess(p) \/ AccessDrifts(p)
             \/ ReconcileTick
    <3>1. Sealed(Db)'
      BY <2>1, DirectorySealed DEF Quiet
    <3>2. UNCHANGED <<fence, disp, wire, capsule, held>>
      BY <2>1, Groups DEF UserStep, CreateUser, UpdateUser, EndDatePasses, ExpireAccount,
         DeleteUser, ResetMFA, ResyncSystem, ChangeAccess, AccessDrifts, ReconcileTick
    <3> QED  BY <3>1, <3>2 DEF Quiet, MaySend, Busy
  <2>2. ASSUME NEW s \in Systems, DeletePairedSystem(s) \/ ResumeProvisioning(s)  PROVE Quiet'
    <3>1. /\ UNCHANGED <<events, serial, capsule, wire, disp>> /\ held' \subseteq held
          /\ \A p \in Pairs : fence'[p] = fence[p] \/ fence'[p] = NoFence
      BY <2>2, Groups DEF DeletePairedSystem, ResumeProvisioning
    <3> QED  BY <3>1, QuietStays DEF Busy
  <2>3. ASSUME NEW p \in Pairs, ResumeSyncDelivery(p)  PROVE Quiet'
    BY <2>3, ResumeQuiet
  <2>4. ASSUME NEW e \in events, LeaseExpires(e)  PROVE Quiet'
    <3> DEFINE f == [e EXCEPT !.leased = FALSE]
    <3>1. /\ e \in Event /\ f.pair = e.pair /\ f.id = e.id /\ f.type = e.type
          /\ f.rev = e.rev /\ f.status = e.status
      BY EventNames DEF TypeOK
    <3>2. events' = (events \ {e}) \cup {f} /\ UNCHANGED <<serial, capsule, held, wire, disp, fence>>
      BY <2>4, Groups DEF LeaseExpires
    <3> HIDE DEF f
    <3>3. Sealed(Db)'
      BY <3>1, <3>2 DEF Quiet, Sealed, Db, Stateless
    <3> QED  BY <3>2, <3>3 DEF Quiet, MaySend, Busy
  <2>5. ASSUME NEW e \in events, Prune(e)  PROVE Quiet'
    <3>1. events' \subseteq events /\ UNCHANGED <<serial, capsule, held, wire, disp, fence>>
      BY <2>5, Groups DEF Prune
    <3>2. Sealed(Db)'
      BY <3>1 DEF Quiet, Sealed, Db, Stateless
    <3> QED  BY <3>1, <3>2 DEF Quiet, MaySend, Busy
  <2>6. ASSUME NEW d \in Dispatchers, DispatcherStep(d)  PROVE Quiet'
    BY <2>6, DispatcherStepQuiet
  <2>7. ASSUME NEW w \in wire, Late(w)  PROVE Quiet'
    <3>1. wire' \subseteq wire /\ UNCHANGED <<events, serial, capsule, held, disp, fence>>
      BY <2>7, Groups DEF Late, Lands
    <3> QED  BY <3>1, QuietStays DEF Busy
  <2>8. CASE ApplyRestoredState
    BY <2>8, RestoreQuiet
  <2>9. CASE UNCHANGED vars
    BY <2>9, QuietStays DEF vars, Busy
  <2> QED  BY <2>1, <2>2, <2>3, <2>4, <2>5, <2>6, <2>7, <2>8, <2>9 DEF Next, SystemStep
<1> QED  BY <1>1, <1>2, TypeCorrect, PTL DEF Spec

\* A held connector gets no write, and the work a restored directory was in the middle of is never
\* sent, for any number of connectors, accounts, passes and restores, whatever is resumed,
\* reconciled or resynced afterwards (ApplyRestoredState, ClaimDueSyncEvents and the sweep).
THEOREM RestoreIsQuietAlways == Spec => []RestoreIsQuiet
<1>1. TypeOK /\ Quiet => RestoreIsQuiet
  <2> SUFFICES ASSUME TypeOK, Quiet  PROVE CapsuleNeverDelivered /\ HeldConnectorIsSilent
    BY DEF RestoreIsQuiet
  <2>1. CapsuleNeverDelivered
    BY DEF Quiet, MaySend, CapsuleNeverDelivered
  <2>2. ASSUME NEW d \in Dispatchers, disp[d].pc \in {"begun", "sent"}
        PROVE  disp[d].ev.pair[1] \notin held
    <3>1. Busy(d)
      BY <2>2, DispatcherMoves
    <3> QED  BY <3>1 DEF Quiet, MaySend
  <2>3. HeldConnectorIsSilent
    BY <2>2 DEF Quiet, MaySend, HeldConnectorIsSilent, Writing
  <2> QED  BY <2>1, <2>3
<1> QED  BY <1>1, QuietAlways, TypeCorrect, PTL

-----------------------------------------------------------------------------
(* Desired state is kept, and reaches the target in order                  *)

\* Work that carries a desired state, work of that kind not yet delivered, and the part of it a
\* dispatcher may still claim.
Carries(e) == e.type # "mfa_reset"
Open(e) == Carries(e) /\ e.status # "delivered"
Waiting(e) == Carries(e) /\ e.status = "pending"
Of(E, p) == {e \in E : e.pair = p}

\* Open work that speaks for the row as it stands: its revision, or the account's removal.
Latest(row, e) == Open(e) /\ (e.type = "deleted" \/ e.rev = row.rev)

\* The invariant of one connector and account, over its row, its events S, its fence f, the last
\* event a applied to the target and what the target holds, rem.

\* Claims: queued work is within its budget, and claimed work is the oldest that waits.
Leased(S) ==
    /\ \A e \in S : e.status = "pending" => e.attempts < AttemptLimit
    /\ \A e \in S : e.token # NoToken => e.status = "pending"
    /\ \A e, g \in S : e.token # NoToken /\ Carries(e) /\ Waiting(g) => e.id <= g.id

\* A fence belongs to a claimed event of the outbox.
Owned(S, f) ==
    f # NoFence => \E e \in S : e.id = f.id /\ e.token = f.token /\ f.token # NoToken

\* Open work is of a revision the row has had.
Described(row, S) ==
    /\ ~row.exists => row = NoRow /\ \A e \in S : ~Open(e)
    /\ \A e \in S : Open(e) => e.rev <= row.rev
    /\ \A e \in S : e.type = "created" => e.active

\* The latest work says what the row says and nothing is queued behind it; nothing that waits is
\* older than what the target applied.
Newest(row, S, a) ==
    /\ \A e \in S : Latest(row, e) => /\ a <= e.id /\ e.active = row.active
                                      /\ \A g \in S : Carries(g) => g.id <= e.id
    /\ \A e \in S : Waiting(e) => a <= e.id
    /\ \A e \in S : Open(e) /\ e.type = "deleted" => ~e.active

\* Until a restore, a row is settled or has work of its own revision; so has one with stale
\* work that a dispatcher may still deliver.
Witness(row, S) == \E e \in S : Open(e) /\ e.rev = row.rev
Kept(row, S) ==
    /\ row.exists => row.settled = row.rev \/ Witness(row, S)
    /\ \A e \in S : Waiting(e) /\ e.rev # row.rev => Witness(row, S)
    /\ \A e \in S : Open(e) /\ e.type = "deleted" => e.rev = row.rev

\* An acknowledged offboarding is over: nothing that waits would bring the account back, and the
\* target has no active one, unless the acknowledgement is the capsule's and not this server's.
Ended(row, S, rem) ==
    row.offboarded => /\ ~row.active
                      /\ row.settled # -1 => rem # "active"
                      /\ \A e \in S : Waiting(e) => ~e.active

Tidy(row, S, f, a, rem, k) ==
    /\ Leased(S) /\ Owned(S, f) /\ Described(row, S)
    /\ Newest(row, S, a) /\ Ended(row, S, rem)
    /\ k => Kept(row, S)

\* The tables of every paired system are tidy, and an unpaired one has no rows.
Orderly(D) ==
    \A p \in Pairs :
        IF p[1] \in paired
        THEN Tidy(D.state[p], Of(D.events, p), fence[p], applied[p], remote[p], restores = 0)
        ELSE D.state[p] = NoRow

\* An event in a dispatcher's or a target's hands is a copy of one of the outbox.
Copy(D, x) ==
    /\ x.id <= D.serial[x.pair]
    /\ \A e \in D.events : e.pair = x.pair /\ e.id = x.id
                              => e.type = x.type /\ e.rev = x.rev /\ e.active = x.active

Copied(D) ==
    /\ \A d \in Dispatchers : Busy(d) => Copy(D, disp[d].ev)
    /\ \A w \in wire : Copy(D, w)
    /\ \A p \in Pairs : applied[p] <= D.serial[p]

\* Removals are queued for accounts G, which are gone and desired nowhere.
Removal(e) == Open(e) /\ e.type = "deleted"
Rested(D, G) ==
    /\ \A e \in D.events : Removal(e) /\ e.pair[1] \in paired => e.pair[2] \in G
    /\ \A p \in Pairs : p[2] \in G => ~D.state[p].active
Gone(us) == {u \in Users : us[u] = "gone"}

\* A fence names the event of the dispatcher and of the write that own it, and the target holds
\* what an acknowledged removal of access left there.
Handed ==
    /\ \A d \in Dispatchers : LET x == disp[d].ev IN
          Busy(d) => /\ x.attempts < AttemptLimit
                     /\ fence[x.pair].token = x.token => fence[x.pair].id = x.id
    /\ \A w \in wire : fence[w.pair].token = w.token => fence[w.pair].id = w.id
    /\ \A d \in Dispatchers : LET x == disp[d].ev IN
          /\ disp[d].pc = "acked" /\ x.pair[1] \in paired /\ fence[x.pair].token = x.token
          /\ Carries(x) /\ ~x.active
          => remote[x.pair] # "active"

Ordered == Orderly(Db) /\ Copied(Db) /\ Rested(Db, Gone(users)) /\ Handed

\* What queueDesiredStateTx does to a row, its events S numbered up to n and its fence: unfenced
\* work may go, and an event m of the next revision and number comes.
Numbered(S, n, a) == a <= n /\ \A e \in S : e.id <= n
Thinned(S, S2, f) == S2 \subseteq S /\ \A e \in S : f # NoFence /\ e.id = f.id => e \in S2
Follows(row, n, m, row2) ==
    /\ m \in Event /\ m.id = n + 1 /\ m.rev = row.rev + 1 /\ m.status = "pending"
    /\ m.attempts = 0 /\ m.token = NoToken /\ Carries(m)
    /\ m.type = "created" => m.active
    /\ m.type = "deleted" => ~m.active
    /\ row2 \in Row /\ row2.exists /\ row2.rev = row.rev + 1 /\ row2.active = m.active
    /\ ~row2.offboarded

LEMMA QueueTidy ==
    ASSUME NEW row \in Row, NEW S \in SUBSET Event, NEW n \in Nat, NEW f, NEW a \in Nat,
           NEW rem, NEW k \in BOOLEAN, Tidy(row, S, f, a, rem, k), Numbered(S, n, a),
           \A e \in S : ~Removal(e),
           NEW S2, Thinned(S, S2, f), NEW m, NEW row2, Follows(row, n, m, row2)
    PROVE  Tidy(row2, S2 \cup {m}, f, a, rem, k)
<1> USE DEF Numbered, Thinned, Follows
<1> DEFINE T == S2 \cup {m}
<1>0. /\ row.rev \in Nat /\ m.id \in Nat
      /\ \A e \in S : e.id \in Nat /\ e.rev \in Int /\ e.attempts \in Nat /\ e.id < m.id
  BY DEF Row, Event
<1>1. Leased(T)
  BY <1>0, LimitAssumption DEF Tidy, Leased
<1>2. Owned(T, f)
  BY DEF Tidy, Owned
<1>3. Described(row2, T)
  BY <1>0 DEF Tidy, Described
<1>4. ASSUME NEW e \in T, Latest(row2, e)  PROVE e = m
  BY <1>0, <1>4 DEF Latest, Removal, Tidy, Described
<1>5. Newest(row2, T, a)
  BY <1>0, <1>4 DEF Tidy, Newest, Removal
<1>6. Ended(row2, T, rem)
  BY DEF Ended
<1>7. Kept(row2, T)
  BY DEF Kept, Witness, Open, Carries, Removal
<1> QED  BY <1>1, <1>2, <1>3, <1>5, <1>6, <1>7 DEF Tidy

\* Forgetting a row nothing downstream has heard of, with its work.
LEMMA ForgetTidy ==
    ASSUME NEW row \in Row, NEW S \in SUBSET Event, NEW a \in Nat,
           NEW rem, NEW k \in BOOLEAN, Tidy(row, S, NoFence, a, rem, k),
           NEW S2 \in SUBSET S, \A e \in S2 : ~Open(e)
    PROVE  Tidy(NoRow, S2, NoFence, a, rem, k)
<1>1. Leased(S2)
  BY DEF Tidy, Leased
<1>2. Owned(S2, NoFence) /\ Described(NoRow, S2)
  BY DEF Tidy, Owned, Described
<1>3. Newest(NoRow, S2, a)
  BY DEF Newest, Latest, Open, Waiting
<1>4. Ended(NoRow, S2, rem) /\ Kept(NoRow, S2)
  BY DEF Ended, Kept, NoRow, Open, Waiting
<1> QED  BY <1>1, <1>2, <1>3, <1>4 DEF Tidy

\* The sweep: T holds every event of S that is not exhausted, revived exhausted work that is the
\* latest of its row, and revived notifications.
Swept(row, S, T) ==
    /\ T \subseteq Event
    /\ \A e \in S : e.status # "failed" => e \in T
    /\ \A e \in S : row.exists /\ e.rev = row.rev =>
          \E g \in T : /\ g.id = e.id /\ g.type = e.type /\ g.rev = e.rev
                       /\ (g.status = "delivered" => e.status = "delivered")
    /\ \A g \in T : g \in S \/ \E e \in S :
          /\ e.status = "failed" /\ (Stateless(e) \/ e.rev = row.rev)
          /\ g.id = e.id /\ g.type = e.type /\ g.active = e.active /\ g.rev = e.rev
          /\ g.token = e.token /\ g.status = "pending" /\ g.attempts = 0

LEMMA SweepTidy ==
    ASSUME NEW row \in Row, NEW S \in SUBSET Event, NEW f, NEW a \in Nat,
           NEW rem, NEW k \in BOOLEAN, Tidy(row, S, f, a, rem, k), NEW T, Swept(row, S, T)
    PROVE  Tidy(row, T, f, a, rem, k)
<1> USE DEF Swept
<1>0. \A e \in S \cup T : e.id \in Nat /\ e.rev \in Int /\ e.attempts \in Nat
  BY DEF Event
<1>1. ASSUME NEW g \in T, g \notin S, Carries(g)
      PROVE  \E e \in S : /\ Latest(row, e) /\ e.token = NoToken /\ e.status = "failed"
                          /\ g.id = e.id /\ g.type = e.type /\ g.active = e.active
                          /\ g.rev = e.rev
  BY <1>1 DEF Latest, Open, Carries, Stateless, Tidy, Leased
<1>2. \A g \in T : g \notin S => g.token = NoToken /\ g.status = "pending" /\ g.attempts = 0
  BY DEF Tidy, Leased
<1>3. Leased(T)
  <2>1. /\ \A e \in T : e.status = "pending" => e.attempts < AttemptLimit
        /\ \A e \in T : e.token # NoToken => e.status = "pending"
    BY <1>2, LimitAssumption DEF Tidy, Leased
  <2>2. ASSUME NEW e \in T, NEW g \in T, e.token # NoToken, Carries(e), Waiting(g)
        PROVE  e.id <= g.id
    <3>1. e \in S
      BY <1>2, <2>2
    <3> QED  BY <1>1, <2>2, <3>1 DEF Tidy, Leased, Newest, Waiting
  <2> QED  BY <2>1, <2>2 DEF Leased
<1>4. Owned(T, f)
  BY DEF Tidy, Owned, Leased
<1>5. Described(row, T)
  BY <1>1 DEF Tidy, Described, Open, Latest, Carries
<1>6. ASSUME NEW g \in T, Latest(row, g)
      PROVE  \E e \in S : Latest(row, e) /\ e.id = g.id /\ e.active = g.active
  BY <1>1, <1>6 DEF Latest, Open
<1>7. ASSUME NEW g \in T, Carries(g)  PROVE \E e \in S : Carries(e) /\ e.id = g.id
  BY <1>1, <1>7 DEF Carries
<1>8. Newest(row, T, a)
  <2>1. ASSUME NEW e \in T, Latest(row, e)
        PROVE  a <= e.id /\ e.active = row.active /\ \A g \in T : Carries(g) => g.id <= e.id
    BY <1>6, <1>7, <2>1 DEF Tidy, Newest
  <2>2. ASSUME NEW e \in T, Waiting(e)  PROVE a <= e.id
    BY <1>1, <2>2 DEF Tidy, Newest, Waiting
  <2>3. ASSUME NEW e \in T, Open(e), e.type = "deleted"  PROVE ~e.active
    BY <1>1, <2>3 DEF Tidy, Newest, Open, Latest
  <2> QED  BY <2>1, <2>2, <2>3 DEF Newest
<1>9. Ended(row, T, rem)
  BY <1>1 DEF Tidy, Ended, Newest, Waiting
<1>10. ASSUME Kept(row, S)  PROVE Kept(row, T)
  <2>1. Witness(row, S) => row.exists
    BY DEF Tidy, Described, Witness
  <2>2. Witness(row, S) => Witness(row, T)
    BY <2>1 DEF Witness, Open, Carries
  <2>3. ASSUME NEW e \in T, Waiting(e), e.rev # row.rev  PROVE e \in S
    BY <1>1, <1>10, <2>3 DEF Kept, Waiting, Latest
  <2>4. ASSUME NEW e \in T, Open(e), e.type = "deleted"  PROVE e.rev = row.rev
    BY <1>1, <1>10, <2>4 DEF Kept, Open, Latest
  <2> QED  BY <1>10, <2>2, <2>3, <2>4 DEF Kept
<1> QED  BY <1>3, <1>4, <1>5, <1>8, <1>9, <1>10 DEF Tidy

\* The removal DeleteUserWithSyncEvents announces to a connector without a row.
Announces(n, m, row2) ==
    /\ m \in Event /\ m.id = n + 1 /\ m.rev = 0 /\ m.status = "pending" /\ m.attempts = 0
    /\ m.token = NoToken /\ m.type = "deleted" /\ ~m.active
    /\ row2 \in Row /\ row2.exists /\ row2.rev = 0 /\ ~row2.active /\ ~row2.offboarded

LEMMA StrangerTidy ==
    ASSUME NEW row \in Row, NEW S \in SUBSET Event, NEW n \in Nat, NEW f, NEW a \in Nat,
           NEW rem, NEW k \in BOOLEAN, Tidy(row, S, f, a, rem, k), Numbered(S, n, a),
           ~row.exists, NEW m, NEW row2, Announces(n, m, row2)
    PROVE  Tidy(row2, S \cup {m}, f, a, rem, k)
<1> USE DEF Announces, Numbered
<1> DEFINE T == S \cup {m}
<1>0. /\ \A e \in S : e.id \in Nat /\ e.rev \in Int /\ e.attempts \in Nat /\ e.id < m.id
      /\ \A e \in S : ~Open(e)
      /\ m.active = FALSE /\ row2.active = FALSE /\ m.id \in Nat /\ a <= m.id
  BY DEF Event, Row, Tidy, Described
<1>1. Leased(T)
  BY <1>0, LimitAssumption DEF Tidy, Leased
<1>2. Owned(T, f)
  BY DEF Tidy, Owned
<1>3. Described(row2, T)
  BY <1>0 DEF Tidy, Described
<1>4. ASSUME NEW e \in T, Open(e)  PROVE e = m
  BY <1>0, <1>4
<1>5. Newest(row2, T, a)
  <2>1. \A e \in T : Latest(row2, e) \/ Waiting(e) => e = m
    BY <1>4 DEF Latest, Waiting, Open
  <2>2. \A e \in T : e.id <= m.id
    BY <1>0
  <2> QED  BY <1>0, <1>4, <2>1, <2>2 DEF Newest
<1>6. Ended(row2, T, rem)
  BY DEF Ended
<1>7. Kept(row2, T)
  BY <1>4 DEF Kept, Witness, Open, Carries, Waiting
<1> QED  BY <1>1, <1>2, <1>3, <1>5, <1>6, <1>7 DEF Tidy

\* A notification carries no state.
LEMMA ResetTidy ==
    ASSUME NEW row \in Row, NEW S \in SUBSET Event, NEW f, NEW a \in Nat,
           NEW rem, NEW k \in BOOLEAN, Tidy(row, S, f, a, rem, k),
           NEW m \in Event, m.status = "pending", m.attempts = 0,
           m.token = NoToken, m.type = "mfa_reset"
    PROVE  Tidy(row, S \cup {m}, f, a, rem, k)
<1> DEFINE T == S \cup {m}
<1>0. ~Carries(m) /\ ~Open(m) /\ ~Waiting(m) /\ ~Latest(row, m)
  BY DEF Carries, Open, Waiting, Latest
<1>1. Leased(T)
  BY <1>0, LimitAssumption DEF Tidy, Leased
<1>2. Owned(T, f) /\ Described(row, T)
  BY <1>0 DEF Tidy, Owned, Described
<1>3. Newest(row, T, a) /\ Ended(row, T, rem)
  BY <1>0 DEF Tidy, Newest, Ended
<1>4. Kept(row, S) => Kept(row, T)
  BY <1>0 DEF Kept, Witness
<1> QED  BY <1>1, <1>2, <1>3, <1>4 DEF Tidy

\* An edit of an event that leaves what it carries: a claim of the oldest waiting one, the end of
\* its lease, a failed attempt, or work queued afresh.
Same(e, m) == /\ m.pair = e.pair /\ m.id = e.id /\ m.type = e.type
              /\ m.active = e.active /\ m.rev = e.rev
Edits(S, e, m) ==
    /\ Carries(e) => m.status = e.status \/ (e.status = "pending" /\ m.status = "failed")
    /\ m.status = "pending" => m.attempts < AttemptLimit
    /\ m.token # NoToken => /\ m.status = "pending"
                            /\ m.token = e.token \/ \A g \in S : Waiting(g) => e.id <= g.id

LEMMA EditTidy ==
    ASSUME NEW row \in Row, NEW S \in SUBSET Event, NEW f, NEW a \in Nat,
           NEW rem, NEW k \in BOOLEAN, Tidy(row, S, f, a, rem, k),
           NEW e \in S, NEW m \in Event, Same(e, m), Edits(S, e, m),
           NEW g2, g2 = NoFence \/ (g2 = f /\ m.token = e.token)
    PROVE  Tidy(row, (S \ {e}) \cup {m}, g2, a, rem, k)
<1> USE DEF Same, Edits
<1> DEFINE T == (S \ {e}) \cup {m}
<1>0. /\ Carries(m) = Carries(e) /\ Open(m) = Open(e) /\ (Waiting(m) => Waiting(e))
      /\ Latest(row, m) = Latest(row, e)
  BY DEF Carries, Open, Waiting, Latest
<1>1. Leased(T)
  BY <1>0 DEF Tidy, Leased
<1>2. Owned(T, g2)
  BY DEF Tidy, Owned
<1>3. Described(row, T)
  BY <1>0 DEF Tidy, Described
<1>4. Newest(row, T, a) /\ Ended(row, T, rem)
  BY <1>0 DEF Tidy, Newest, Ended
<1>5. Kept(row, S) => Kept(row, T)
  BY <1>0 DEF Kept, Witness
<1> QED  BY <1>1, <1>2, <1>3, <1>4, <1>5 DEF Tidy

\* Delivered work that is pruned.
LEMMA PruneTidy ==
    ASSUME NEW row \in Row, NEW S \in SUBSET Event, NEW f, NEW a \in Nat,
           NEW rem, NEW k \in BOOLEAN, Tidy(row, S, f, a, rem, k),
           NEW e \in S, e.status = "delivered"
    PROVE  Tidy(row, S \ {e}, f, a, rem, k)
<1> DEFINE T == S \ {e}
<1>0. ~Open(e) /\ ~Waiting(e) /\ e.token = NoToken
  BY DEF Open, Waiting, Tidy, Leased
<1>1. Leased(T) /\ Owned(T, f) /\ Described(row, T)
  BY <1>0 DEF Tidy, Leased, Owned, Described
<1>2. Newest(row, T, a) /\ Ended(row, T, rem)
  BY <1>0 DEF Tidy, Newest, Ended
<1>3. Kept(row, S) => Kept(row, T)
  BY <1>0 DEF Kept, Witness
<1> QED  BY <1>1, <1>2, <1>3 DEF Tidy

\* The acknowledgement of a claimed event that carries a state. No other work waits behind it when
\* it is the latest, so an acknowledged offboarding is final.
LEMMA AckTidy ==
    ASSUME NEW row \in Row, NEW S \in SUBSET Event, NEW f, NEW a \in Nat,
           NEW rem, NEW k \in BOOLEAN, Tidy(row, S, f, a, rem, k),
           \A x, y \in S : x.id = y.id => x = y,
           NEW e \in S, e.token # NoToken, Carries(e), ~e.active => rem # "active",
           NEW m \in Event, Same(e, m), m.status = "delivered", m.token = NoToken
    PROVE  Tidy(Acknowledge(row, e), (S \ {e}) \cup {m}, NoFence, a, rem, k)
<1> DEFINE T == (S \ {e}) \cup {m}
<1> DEFINE r2 == Acknowledge(row, e)
<1> USE DEF Same
<1>0. /\ \A x \in S : x.id \in Nat
      /\ e.status = "pending" /\ Waiting(e) /\ Open(e) /\ row.exists
      /\ ~Open(m) /\ ~Waiting(m) /\ Carries(m) /\ ~Latest(row, m)
  BY DEF Event, Tidy, Leased, Described, Open, Waiting, Carries, Latest
<1>1. /\ r2.exists = row.exists /\ r2.active = row.active /\ r2.rev = row.rev
      /\ r2.settled = e.rev
      /\ r2.offboarded => row.offboarded \/ (~row.active /\ e.rev = row.rev)
  BY <1>0 DEF Acknowledge, Row, Carries
<1> HIDE DEF r2
<1>2. Leased(T)
  BY <1>0 DEF Tidy, Leased
<1>3. Owned(T, NoFence)
  BY DEF Owned
<1>4. Described(r2, T)
  BY <1>0, <1>1 DEF Tidy, Described
<1>5. \A x : Latest(r2, x) = Latest(row, x)
  BY <1>1 DEF Latest
<1>6. Newest(r2, T, a)
  BY <1>0, <1>1, <1>5 DEF Tidy, Newest
<1>7. ASSUME e.rev = row.rev, NEW x \in S, Waiting(x)  PROVE x = e
  <2>1. Latest(row, e)
    BY <1>0, <1>7 DEF Latest
  <2>2. x.id <= e.id /\ e.id <= x.id
    BY <1>0, <1>7, <2>1 DEF Tidy, Newest, Leased, Waiting
  <2> QED  BY <1>0, <2>2
<1>8. Ended(r2, T, rem)
  <2>1. CASE row.offboarded
    BY <1>0, <1>1, <2>1 DEF Tidy, Ended
  <2>2. CASE ~row.active /\ e.rev = row.rev
    <3>1. Latest(row, e) /\ e.active = row.active
      BY <1>0, <2>2 DEF Latest, Tidy, Newest
    <3> QED  BY <1>0, <1>1, <1>7, <2>2, <3>1 DEF Ended
  <2> QED  BY <1>1, <2>1, <2>2 DEF Ended
<1>9. ASSUME Kept(row, S)  PROVE Kept(r2, T)
  <2>1. e.rev # row.rev => Witness(r2, T)
    BY <1>0, <1>1, <1>9 DEF Kept, Witness
  <2>2. ASSUME NEW x \in T, Waiting(x), x.rev # row.rev  PROVE e.rev # row.rev
    BY <1>0, <1>7, <2>2
  <2> QED  BY <1>0, <1>1, <1>9, <2>1, <2>2 DEF Kept
<1> QED  BY <1>2, <1>3, <1>4, <1>6, <1>8, <1>9 DEF Tidy, r2

\* A write of claimed work reaches the target: it is newer than what was applied before, nothing
\* that waits is older, and it cannot undo an acknowledged offboarding.
LEMMA LandTidy ==
    ASSUME NEW row \in Row, NEW S \in SUBSET Event, NEW f, NEW a \in Nat,
           NEW rem, NEW k \in BOOLEAN, Tidy(row, S, f, a, rem, k),
           NEW e \in S, e.token # NoToken, Carries(e),
           NEW rem2, rem2 = "active" => e.active
    PROVE  a <= e.id /\ Tidy(row, S, f, e.id, rem2, k)
<1>0. /\ \A x \in S : x.id \in Nat
      /\ e.status = "pending" /\ Waiting(e)
  BY DEF Event, Tidy, Leased, Waiting
<1>1. a <= e.id
  BY <1>0 DEF Tidy, Newest
<1>2. Newest(row, S, e.id)
  BY <1>0 DEF Tidy, Newest, Leased
<1>3. Ended(row, S, rem2)
  BY <1>0 DEF Tidy, Ended
<1> QED  BY <1>1, <1>2, <1>3 DEF Tidy

\* ApplyRestoredState: the work of a capsule is closed, its fences and acknowledgements are gone,
\* and the target may hold anything.
LEMMA RestoreTidy ==
    ASSUME NEW row \in Row, NEW S \in SUBSET Event, NEW f, NEW a \in Nat,
           NEW rem, NEW k, Tidy(row, S, f, a, rem, k),
           NEW row2, Returned(row, row2), NEW rem2,
           NEW T \in SUBSET Event,
           \A g \in T : g \in S \/ \E e \in S :
              /\ e.status # "delivered" /\ g.id = e.id /\ g.type = e.type /\ g.active = e.active
              /\ g.rev = -1 /\ g.token = NoToken /\ g.status = "failed"
    PROVE  Tidy(row2, T, NoFence, a, rem2, FALSE)
<1> USE DEF Returned
<1>0. /\ \A e \in S \cup T : e.id \in Nat /\ e.rev \in Int /\ e.attempts \in Nat
      /\ row.rev \in Nat
  BY DEF Event, Row
<1>1. \A g \in T : g \notin S => g.token = NoToken /\ ~Waiting(g) /\ g.status # "pending"
  BY DEF Waiting
<1>2. ASSUME NEW g \in T, g \notin S, Open(g)
      PROVE  \E e \in S : Open(e) /\ e.id = g.id /\ e.active = g.active /\ e.type = g.type
  BY <1>2 DEF Open, Carries
<1>3. Leased(T)
  BY <1>1 DEF Tidy, Leased
<1>4. Owned(T, NoFence)
  BY DEF Owned
<1>5. Described(row2, T)
  BY <1>0, <1>2 DEF Tidy, Described
<1>6. ASSUME NEW g \in T, Latest(row2, g)
      PROVE  \E e \in S : Latest(row, e) /\ e.id = g.id /\ e.active = g.active
  BY <1>0, <1>2, <1>6 DEF Latest
<1>7. ASSUME NEW g \in T, Carries(g)  PROVE \E e \in S : Carries(e) /\ e.id = g.id
  BY <1>7 DEF Carries
<1>8. Newest(row2, T, a)
  <2>1. ASSUME NEW e \in T, Latest(row2, e)
        PROVE  a <= e.id /\ e.active = row2.active /\ \A g \in T : Carries(g) => g.id <= e.id
    BY <1>6, <1>7, <2>1 DEF Tidy, Newest
  <2>2. ASSUME NEW e \in T, Waiting(e)  PROVE a <= e.id
    BY <1>1, <2>2 DEF Tidy, Newest
  <2>3. ASSUME NEW e \in T, Open(e), e.type = "deleted"  PROVE ~e.active
    BY <1>2, <2>3 DEF Tidy, Newest
  <2> QED  BY <2>1, <2>2, <2>3 DEF Newest
<1>9. Ended(row2, T, rem2)
  BY <1>1 DEF Tidy, Ended
<1> QED  BY <1>3, <1>4, <1>5, <1>8, <1>9 DEF Tidy

-----------------------------------------------------------------------------
(* The same for whole transactions                                         *)

Wants == {"keep", "on", "resend", "off", "delete"}

\* How queueDesiredStateTx leaves one connector and account: as it was, forgotten, or with one more
\* event m, of the next revision.
Unsuperseded(D, p) == {e \in Of(D.events, p) : ~Superseded(e)}
Keeps(D, E, p) ==
    E.state[p] = D.state[p] /\ Of(E.events, p) = Of(D.events, p) /\ E.serial[p] = D.serial[p]
Forgets(D, E, p) ==
    /\ fence[p] = NoFence /\ E.state[p] = NoRow
    /\ Of(E.events, p) = Unsuperseded(D, p) /\ E.serial[p] = D.serial[p]
Queues(D, E, p, want, m) ==
    /\ Of(E.events, p) = Unsuperseded(D, p) \cup {m} /\ E.serial[p] = D.serial[p] + 1
    /\ m \in Event /\ m.pair = p /\ m.id = D.serial[p] + 1 /\ m.rev = D.state[p].rev + 1
    /\ m.status = "pending" /\ m.attempts = 0 /\ m.token = NoToken /\ Carries(m)
    /\ m.active = (want \in {"on", "resend"})
    /\ m.type = "deleted" => want = "delete"
    /\ m.type = "created" => want \in {"on", "resend"}
    /\ E.state[p].exists /\ E.state[p].rev = D.state[p].rev + 1 /\ ~E.state[p].offboarded
    /\ E.state[p].active = m.active

LEMMA QueueShape ==
    ASSUME NEW D \in Tables, NEW W \in [Pairs -> Wants], NEW p \in Pairs
    PROVE  LET E == QueueDesiredState(D, W) IN
           \/ W[p] = "keep" /\ Keeps(D, E, p)
           \/ W[p] \in {"off", "delete"} /\ Forgets(D, E, p)
           \/ W[p] # "keep" /\ \E m : Queues(D, E, p, W[p], m)
<1> DEFINE E == QueueDesiredState(D, W)
           touched == {q \in Pairs : W[q] # "keep"}
           queued == {q \in touched : ~Forgotten(D, q, W[q])}
           rows == [q \in Pairs |->
                       IF q \in queued THEN NextRow(D.state[q], W[q])
                       ELSE IF q \in touched THEN NoRow ELSE D.state[q]]
           kept == {e \in D.events : ~(e.pair \in touched /\ Superseded(e))}
           n(q) == NewEvent(D, q, EventType(D, q, W[q]), rows[q].active, rows[q].rev)
<1>1. D.state \in [Pairs -> Row] /\ D.events \subseteq Event /\ D.serial \in [Pairs -> Nat]
  BY DEF Tables
<1>2. rows \in [Pairs -> Row]
  <2>1. ASSUME NEW q \in Pairs  PROVE rows[q] \in Row
    BY <1>1, NextRowType, NoRowType
  <2> QED  BY <2>1
<1>3. /\ E.state = rows /\ E.events = kept \cup {n(q) : q \in queued}
      /\ \A q \in Pairs : E.serial[q] = IF q \in queued THEN D.serial[q] + 1 ELSE D.serial[q]
  BY DEF QueueDesiredState, Insert
<1>4. ASSUME NEW q \in queued
      PROVE  /\ n(q) \in Event /\ n(q).pair = q /\ n(q).id = D.serial[q] + 1
             /\ n(q).rev = rows[q].rev /\ n(q).active = rows[q].active
             /\ n(q).status = "pending" /\ n(q).attempts = 0 /\ n(q).token = NoToken
             /\ n(q).type = EventType(D, q, W[q])
  <2>1. EventType(D, q, W[q]) \in EventTypes
    BY DEF EventType, EventTypes
  <2>2. rows[q] \in Row
    BY <1>2
  <2>3. rows[q].active \in BOOLEAN /\ rows[q].rev \in Int
    BY <2>2 DEF Row
  <2> HIDE DEF rows
  <2>4. n(q) \in Event
    BY <2>1, <2>3, NewEventType
  <2> QED  BY <2>4 DEF NewEvent
<1> HIDE DEF E, n
<1>5. Of(E.events, p) = Of(kept, p) \cup (IF p \in queued THEN {n(p)} ELSE {})
  <2> HIDE DEF kept, queued
  <2> QED  BY <1>3, <1>4 DEF Of
<1>6. CASE p \notin touched
  <2>1. Of(kept, p) = Of(D.events, p)
    BY <1>6 DEF Of
  <2>2. Keeps(D, E, p)
    BY <1>3, <1>5, <1>6, <2>1 DEF Keeps
  <2> QED  BY <1>6, <2>2 DEF E
<1>7. ASSUME p \in touched  PROVE Of(kept, p) = Unsuperseded(D, p)
  BY <1>7 DEF Of, Unsuperseded
<1>8. CASE p \in touched /\ p \notin queued
  <2>1. Forgotten(D, p, W[p])
    BY <1>8
  <2>2. Forgets(D, E, p)
    BY <1>3, <1>5, <1>7, <1>8, <2>1 DEF Forgets, Forgotten
  <2> QED  BY <2>1, <2>2 DEF E, Forgotten
<1>9. CASE p \in queued
  <2>1. W[p] # "keep" /\ W[p] \in Wants
    BY <1>9
  <2>2. rows[p] = NextRow(D.state[p], W[p]) /\ D.state[p] \in Row
    BY <1>1, <1>9
  <2>3. /\ rows[p].exists /\ rows[p].rev = D.state[p].rev + 1 /\ ~rows[p].offboarded
        /\ rows[p].active = (W[p] \in {"on", "resend"})
    BY <2>2 DEF NextRow, Row
  <2>4. /\ n(p).type # "mfa_reset" /\ (n(p).type = "deleted" => W[p] = "delete")
        /\ (n(p).type = "created" => W[p] \in {"on", "resend"})
    BY <1>4, <1>9 DEF EventType
  <2>5. Of(E.events, p) = Unsuperseded(D, p) \cup {n(p)} /\ E.serial[p] = D.serial[p] + 1
    BY <1>3, <1>5, <1>7, <1>9
  <2>6. E.state[p] = rows[p]
    BY <1>3
  <2> HIDE DEF rows, queued
  <2>7. Queues(D, E, p, W[p], n(p))
    BY <1>4, <1>9, <2>3, <2>4, <2>5, <2>6 DEF Queues, Carries
  <2> QED  BY <2>1, <2>7 DEF E
<1> QED  BY <1>6, <1>8, <1>9

\* Copies stay copies while rows keep what they carry and new ones take new numbers.
LEMMA CopiedGrows ==
    ASSUME TypeOK, NEW D \in Tables, NEW E \in Tables, Copied(D),
           \A p \in Pairs : D.serial[p] <= E.serial[p],
           \A e \in E.events :
              \/ e.id > D.serial[e.pair]
              \/ \E g \in D.events : /\ g.pair = e.pair /\ g.id = e.id /\ g.type = e.type
                                     /\ g.rev = e.rev /\ g.active = e.active
    PROVE  Copied(E)
<1>1. D.serial \in [Pairs -> Nat] /\ E.serial \in [Pairs -> Nat] /\ E.events \subseteq Event
  BY DEF Tables
<1>2. ASSUME NEW x \in Event, Copy(D, x)  PROVE Copy(E, x)
  <2>1. x.pair \in Pairs /\ x.id \in Nat
    BY DEF Event
  <2>2. D.serial[x.pair] \in Nat /\ E.serial[x.pair] \in Nat
    BY <1>1, <2>1
  <2>3. x.id <= E.serial[x.pair]
    BY <1>2, <2>1, <2>2 DEF Copy
  <2>4. ASSUME NEW e \in E.events, e.pair = x.pair, e.id = x.id
        PROVE  e.type = x.type /\ e.rev = x.rev /\ e.active = x.active
    BY <1>2, <2>1, <2>2, <2>4 DEF Copy
  <2> QED  BY <2>3, <2>4 DEF Copy
<1>3. ASSUME NEW d \in Dispatchers, Busy(d)  PROVE Copy(E, disp[d].ev)
  <2>1. disp[d].ev \in Event
    BY <1>3, DispatcherMoves
  <2> QED  BY <1>2, <1>3, <2>1 DEF Copied
<1>4. ASSUME NEW w \in wire  PROVE Copy(E, w)
  BY <1>2 DEF Copied, TypeOK
<1>5. ASSUME NEW p \in Pairs  PROVE applied[p] <= E.serial[p]
  <2>1. applied[p] \in Nat
    BY DEF TypeOK
  <2> QED  BY <1>1, <2>1 DEF Copied
<1> QED  BY <1>3, <1>4, <1>5 DEF Copied

\* Everything a transaction keeps.
Good(D, G) == /\ D \in Tables /\ Sealed(D) /\ Orderly(D) /\ Copied(D) /\ Rested(D, G)

LEMMA QueueOrderly ==
    ASSUME TypeOK, NEW D \in Tables, Orderly(D), Sealed(D), Copied(D),
           NEW M \in Tables, M.events = D.events, M.serial = D.serial,
           \A p \in Pairs : M.state[p].rev = D.state[p].rev,
           NEW W \in [Pairs -> Wants],
           \A p \in Pairs : W[p] = "keep" => M.state[p] = D.state[p],
           \A p \in Pairs : W[p] # "keep" =>
              p[1] \in paired /\ \A e \in D.events : e.pair = p => ~Removal(e)
    PROVE  Orderly(QueueDesiredState(M, W)) /\ Copied(QueueDesiredState(M, W))
<1>0. PICK E : E = QueueDesiredState(M, W)
  OBVIOUS
<1>1. /\ D.state \in [Pairs -> Row] /\ D.events \subseteq Event /\ D.serial \in [Pairs -> Nat]
      /\ E \in Tables /\ E.state \in [Pairs -> Row] /\ E.events \subseteq Event
      /\ applied \in [Pairs -> Nat]
  BY <1>0, QueueType DEF Tables, TypeOK
<1>2. ASSUME NEW p \in Pairs
      PROVE  \/ W[p] = "keep" /\ Keeps(M, E, p)
             \/ W[p] # "keep" /\ Forgets(M, E, p)
             \/ W[p] # "keep" /\ \E m : Queues(M, E, p, W[p], m)
  BY <1>0, QueueShape
<1>3. ASSUME NEW p \in Pairs, p[1] \in paired
      PROVE  Tidy(E.state[p], Of(E.events, p), fence[p], applied[p], remote[p], restores = 0)
  <2> DEFINE S == Of(D.events, p)
             S2 == Unsuperseded(M, p)
  <2>1. /\ D.state[p] \in Row /\ S \in SUBSET Event /\ D.serial[p] \in Nat /\ applied[p] \in Nat
        /\ E.state[p] \in Row /\ (restores = 0) \in BOOLEAN
        /\ Tidy(D.state[p], S, fence[p], applied[p], remote[p], restores = 0)
        /\ applied[p] <= D.serial[p] /\ \A e \in S : e.id <= D.serial[p]
        /\ W[p] # "keep" => \A e \in S : ~Removal(e)
    BY <1>1, <1>3 DEF Of, Orderly, Sealed, Copied
  <2>2. /\ Of(M.events, p) = S /\ S2 \in SUBSET S
        /\ \A e \in S : fence[p] # NoFence /\ e.id = fence[p].id => e \in S2
        /\ fence[p] = NoFence /\ W[p] # "keep" => \A e \in S2 : ~Open(e)
    <3>1. Of(M.events, p) = S /\ S2 \in SUBSET S
      BY DEF Of, Unsuperseded
    <3>2. ASSUME NEW e \in S, fence[p] # NoFence, e.id = fence[p].id  PROVE e \in S2
      BY <3>2 DEF Unsuperseded, Of, Superseded, Fenced
    <3>3. ASSUME fence[p] = NoFence, W[p] # "keep", NEW e \in S2, Open(e)  PROVE FALSE
      <4>1. e \in S /\ e.pair = p /\ ~Removal(e) /\ ~Superseded(e) /\ e \in Event
        BY <2>1, <3>1, <3>3 DEF Unsuperseded, Of
      <4>2. ~Fenced(e)
        BY <3>3, <4>1 DEF Fenced
      <4> QED  BY <3>3, <4>1, <4>2 DEF Superseded, Open, Carries, Removal, Stateless, Event
    <3> QED  BY <3>1, <3>2, <3>3
  <2> HIDE DEF S, S2
  <2>3. CASE W[p] = "keep" /\ Keeps(M, E, p)
    BY <2>1, <2>2, <2>3 DEF Keeps
  <2>4. CASE W[p] # "keep" /\ Forgets(M, E, p)
    <3>1. /\ fence[p] = NoFence /\ E.state[p] = NoRow /\ Of(E.events, p) = S2
          /\ \A e \in S2 : ~Open(e)
      BY <2>2, <2>4 DEF Forgets, S2
    <3> QED  BY <2>1, <2>2, <3>1, ForgetTidy
  <2>5. ASSUME W[p] # "keep", NEW m, Queues(M, E, p, W[p], m)
        PROVE  Tidy(E.state[p], Of(E.events, p), fence[p], applied[p], remote[p], restores = 0)
    <3>1. /\ Of(E.events, p) = S2 \cup {m} /\ m \in Event /\ m.id = D.serial[p] + 1
          /\ m.rev = D.state[p].rev + 1 /\ m.status = "pending" /\ m.attempts = 0
          /\ m.token = NoToken /\ Carries(m) /\ E.state[p].exists
          /\ E.state[p].rev = D.state[p].rev + 1 /\ ~E.state[p].offboarded
          /\ E.state[p].active = m.active
      BY <2>5 DEF Queues, S2
    <3>2. (m.type = "created" => m.active) /\ (m.type = "deleted" => ~m.active)
      BY <2>5 DEF Queues
    <3>3. \A e \in S : ~Removal(e)
      BY <2>1, <2>5
    <3>4. Tidy(E.state[p], S2 \cup {m}, fence[p], applied[p], remote[p], restores = 0)
      <4>1. Numbered(S, D.serial[p], applied[p])
        BY <2>1 DEF Numbered
      <4>2. Thinned(S, S2, fence[p])
        BY <2>2 DEF Thinned
      <4>3. Follows(D.state[p], D.serial[p], m, E.state[p])
        BY <2>1, <3>1, <3>2 DEF Follows
      <4> QED  BY <2>1, <3>3, <4>1, <4>2, <4>3, QueueTidy
    <3> QED  BY <3>1, <3>4
  <2> QED  BY <1>2, <2>3, <2>4, <2>5
<1>4. ASSUME NEW p \in Pairs, p[1] \notin paired  PROVE E.state[p] = NoRow
  BY <1>2, <1>4 DEF Orderly, Keeps
<1>5. Copied(E)
  <2>1. ASSUME NEW p \in Pairs  PROVE D.serial[p] <= E.serial[p]
    <3>1. D.serial[p] \in Nat
      BY <1>1
    <3>2. E.serial[p] = D.serial[p] \/ E.serial[p] = D.serial[p] + 1
      BY <1>2 DEF Keeps, Forgets, Queues
    <3> QED  BY <3>1, <3>2
  <2>2. ASSUME NEW e \in E.events  PROVE e \in D.events \/ e.id > D.serial[e.pair]
    <3>1. e.pair \in Pairs /\ e \in Of(E.events, e.pair) /\ D.serial[e.pair] \in Nat
      BY <1>1 DEF Event, Of
    <3>2. Of(M.events, e.pair) \subseteq D.events /\ Unsuperseded(M, e.pair) \subseteq D.events
      BY DEF Of, Unsuperseded
    <3>3. \/ e \in Of(M.events, e.pair) \/ e \in Unsuperseded(M, e.pair)
          \/ e.id = D.serial[e.pair] + 1
      BY <1>2, <3>1 DEF Keeps, Forgets, Queues
    <3> QED  BY <3>1, <3>2, <3>3
  <2> QED  BY <1>1, <2>1, <2>2, CopiedGrows
<1> QED  BY <1>0, <1>3, <1>4, <1>5 DEF Orderly

\* The sweep keeps all of it.
LEMMA SweepGood ==
    ASSUME TypeOK, NEW D, NEW G, Good(D, G)
    PROVE  Good(Sweep(D), G)
<1>0. PICK E : E = Sweep(D)
  OBVIOUS
<1>1. /\ D \in Tables /\ Sealed(D) /\ Orderly(D) /\ Copied(D) /\ Rested(D, G)
      /\ D.state \in [Pairs -> Row] /\ D.events \subseteq Event /\ D.serial \in [Pairs -> Nat]
  BY DEF Good, Tables
<1>2. E \in Tables /\ Sealed(E) /\ E.events \subseteq Event
  BY <1>0, <1>1, SweepType, SweepSealed DEF Tables
<1> DEFINE Lives(e) == Exhausted(e) => Stateless(e) \/ Current(D, e)
           Now(e) == IF Exhausted(e) THEN Revived(e) ELSE e
<1>3. /\ E.state = D.state /\ E.serial = D.serial
      /\ E.events = {Now(e) : e \in {g \in D.events : Lives(g)}}
  BY <1>0 DEF Sweep
<1>4. ASSUME NEW e \in D.events
      PROVE  /\ Now(e).pair = e.pair /\ Now(e).id = e.id /\ Now(e).type = e.type
             /\ Now(e).active = e.active /\ Now(e).rev = e.rev /\ Now(e).token = e.token
             /\ Exhausted(e) => e.status = "failed" /\ Now(e).status = "pending" /\ Now(e).attempts = 0
             /\ ~Exhausted(e) => Now(e) = e
  BY <1>1 DEF Revived, Exhausted, Event
<1> HIDE DEF Now
<1>5. ASSUME NEW p \in Pairs, p[1] \in paired
      PROVE  Tidy(E.state[p], Of(E.events, p), fence[p], applied[p], remote[p], restores = 0)
  <2> DEFINE S == Of(D.events, p)
             T == Of(E.events, p)
  <2>1. /\ D.state[p] \in Row /\ S \in SUBSET Event /\ applied[p] \in Nat
        /\ (restores = 0) \in BOOLEAN
        /\ Tidy(D.state[p], S, fence[p], applied[p], remote[p], restores = 0)
    BY <1>1, <1>5 DEF Of, Orderly, TypeOK
  <2>2. ASSUME NEW e \in S, Lives(e)  PROVE Now(e) \in T
    BY <1>3, <1>4, <2>2 DEF Of
  <2>3. Swept(D.state[p], S, T)
    <3>1. T \subseteq Event
      BY <1>2 DEF Of
    <3>2. ASSUME NEW e \in S, e.status # "failed"  PROVE e \in T
      <4>1. e \in D.events /\ ~Exhausted(e)
        BY <3>2 DEF Of, Exhausted
      <4> QED  BY <1>4, <2>2, <4>1
    <3>3. ASSUME NEW e \in S, D.state[p].exists, e.rev = D.state[p].rev
          PROVE  \E g \in T : /\ g.id = e.id /\ g.type = e.type /\ g.rev = e.rev
                              /\ (g.status = "delivered" => e.status = "delivered")
      <4>1. e \in D.events /\ Lives(e)
        BY <3>3 DEF Of, Current
      <4>2. Now(e).status = "delivered" => e.status = "delivered"
        BY <1>4, <4>1
      <4> QED  BY <1>4, <2>2, <4>1, <4>2
    <3>4. ASSUME NEW g \in T, g \notin S
          PROVE  \E e \in S :
                    /\ e.status = "failed" /\ (Stateless(e) \/ e.rev = D.state[p].rev)
                    /\ g.id = e.id /\ g.type = e.type /\ g.active = e.active /\ g.rev = e.rev
                    /\ g.token = e.token /\ g.status = "pending" /\ g.attempts = 0
      <4>1. g \in E.events /\ g.pair = p
        BY DEF Of
      <4>2. PICK e \in D.events : Lives(e) /\ g = Now(e)
        BY <1>3, <4>1
      <4>3. e \in S
        BY <1>4, <4>1, <4>2 DEF Of
      <4>4. Exhausted(e)
        BY <1>4, <3>4, <4>2, <4>3
      <4>5. Stateless(e) \/ e.rev = D.state[p].rev
        BY <4>2, <4>3, <4>4 DEF Current, Of
      <4> QED  BY <1>4, <4>2, <4>3, <4>4, <4>5
    <3> HIDE DEF S, T
    <3> QED  BY <3>1, <3>2, <3>3, <3>4 DEF Swept
  <2> HIDE DEF S, T
  <2>4. Tidy(D.state[p], T, fence[p], applied[p], remote[p], restores = 0)
    BY <2>1, <2>3, SweepTidy
  <2> QED  BY <1>3, <2>4 DEF T
<1>6. Orderly(E)
  BY <1>1, <1>3, <1>5 DEF Orderly
<1>7. ASSUME NEW e \in E.events
      PROVE  \E g \in D.events : /\ g.pair = e.pair /\ g.id = e.id /\ g.type = e.type
                                 /\ g.rev = e.rev /\ g.active = e.active
                                 /\ Open(e) => Open(g)
  <2>1. PICK g \in D.events : e = Now(g)
    BY <1>3
  <2> QED  BY <1>4, <2>1 DEF Open, Carries
<1>8. Copied(E)
  <2>1. \A p \in Pairs : D.serial[p] <= E.serial[p]
    BY <1>1, <1>3
  <2> QED  BY <1>1, <1>2, <1>7, <2>1, CopiedGrows
<1>9. Rested(E, G)
  BY <1>1, <1>3, <1>7 DEF Rested, Removal
<1> QED  BY <1>0, <1>2, <1>6, <1>8, <1>9 DEF Good

\* So does queueDesiredStateTx, for accounts that are not gone.
LEMMA QueueGood ==
    ASSUME TypeOK, NEW D, NEW G, Good(D, G), NEW W \in [Pairs -> Wants],
           \A p \in Pairs : W[p] # "keep" => p[1] \in paired /\ p[2] \notin G /\ W[p] # "delete"
    PROVE  Good(QueueDesiredState(D, W), G)
<1>0. PICK E : E = QueueDesiredState(D, W)
  OBVIOUS
<1>1. D \in Tables /\ Sealed(D) /\ Orderly(D) /\ Copied(D) /\ Rested(D, G) /\ D.events \subseteq Event
  BY DEF Good, Tables
<1>2. E \in Tables /\ Sealed(E) /\ E.events \subseteq Event
  BY <1>0, <1>1, QueueType, QueueSealed DEF Tables, TypeOK
<1>3. \A p \in Pairs : W[p] # "keep" => \A e \in D.events : e.pair = p => ~Removal(e)
  BY <1>1 DEF Rested
<1>4. Orderly(E) /\ Copied(E)
  BY <1>0, <1>1, <1>3, QueueOrderly
<1>5. ASSUME NEW p \in Pairs
      PROVE  \/ W[p] = "keep" /\ Keeps(D, E, p)
             \/ W[p] # "keep" /\ Forgets(D, E, p)
             \/ W[p] # "keep" /\ \E m : Queues(D, E, p, W[p], m)
  BY <1>0, <1>1, QueueShape
<1>6. ASSUME NEW e \in E.events, Removal(e), e.pair[1] \in paired  PROVE e.pair[2] \in G
  <2>1. e.pair \in Pairs /\ e \in Of(E.events, e.pair)
    BY <1>2 DEF Event, Of
  <2>2. e \in D.events
    BY <1>5, <1>6, <2>1 DEF Keeps, Forgets, Queues, Unsuperseded, Of, Removal
  <2> QED  BY <1>1, <1>6, <2>2 DEF Rested
<1>7. ASSUME NEW p \in Pairs, p[2] \in G  PROVE ~E.state[p].active
  BY <1>1, <1>5, <1>7 DEF Keeps, Rested
<1> QED  BY <1>0, <1>2, <1>4, <1>6, <1>7 DEF Good, Rested

\* Only paired systems desire accounts, and only accounts that are not gone.
LEMMA ActiveRows ==
    ASSUME NEW D, NEW G, Good(D, G), NEW p \in Pairs, D.state[p].active
    PROVE  p[1] \in paired /\ p[2] \notin G
BY DEF Good, Orderly, Rested, NoRow

LEMMA ReconcileGood ==
    ASSUME TypeOK, NEW D, NEW G, Good(D, G), NEW acc,
           \A p \in acc : p[1] \in paired /\ p[2] \notin G
    PROVE  Good(Reconcile(D, acc), G)
<1> DEFINE W == [p \in Pairs |->
        CASE p \in acc /\ ~D.state[p].active -> "on"
          [] p \notin acc /\ D.state[p].active -> "off"
          [] OTHER -> "keep"]
<1>1. \A p \in Pairs : /\ W[p] \in {"on", "off", "keep"}
                       /\ W[p] = "on" => p \in acc
                       /\ W[p] = "off" => D.state[p].active
  OBVIOUS
<1>2. W \in [Pairs -> Wants]
  BY <1>1 DEF Wants
<1>3. \A p \in Pairs : W[p] # "keep" => p[1] \in paired /\ p[2] \notin G /\ W[p] # "delete"
  BY <1>1, ActiveRows
<1>4. Reconcile(D, acc) = Sweep(QueueDesiredState(D, W))
  BY DEF Reconcile
<1> HIDE DEF W
<1> QED  BY <1>2, <1>3, <1>4, QueueGood, SweepGood

LEMMA UserUpdateGood ==
    ASSUME TypeOK, NEW D, NEW G, Good(D, G), NEW u, NEW acc
    PROVE  Good(QueueUserUpdate(D, u, acc), G)
<1> DEFINE W == [p \in Pairs |->
                   IF p[2] = u /\ D.state[p].active /\ p \in acc THEN "on" ELSE "keep"]
<1>1. W \in [Pairs -> Wants]
  BY DEF Wants
<1>2. \A p \in Pairs : W[p] # "keep" => p[1] \in paired /\ p[2] \notin G /\ W[p] # "delete"
  BY ActiveRows
<1>3. QueueUserUpdate(D, u, acc) = QueueDesiredState(D, W)
  BY DEF QueueUserUpdate
<1> HIDE DEF W
<1> QED  BY <1>1, <1>2, <1>3, QueueGood

\* offboardUserTx of an account that is not gone: disabled, or on its way to be gone.
LEMMA OffboardGood ==
    ASSUME TypeOK, NEW D, NEW G, Good(D, G), NEW u, u \notin G, NEW want \in {"off", "delete"}
    PROVE  /\ want = "off" => Good(Offboard(D, u, want), G)
           /\ Good(Offboard(D, u, want), G \cup {u})
<1> DEFINE holds == {p \in Pairs : /\ p[2] = u /\ p[1] \in paired
                                   /\ D.state[p].exists \/ p \in linked}
           rows == [p \in Pairs |->
                      IF p \in holds /\ p \in linked
                      THEN [D.state[p] EXCEPT !.exists = TRUE, !.provisioned = TRUE]
                      ELSE D.state[p]]
           M == [state |-> rows, events |-> D.events, serial |-> D.serial]
           W == [p \in Pairs |-> IF p \in holds THEN want ELSE "keep"]
<1>0. PICK E : E = Offboard(D, u, want)
  OBVIOUS
<1>1. /\ D \in Tables /\ Sealed(D) /\ Orderly(D) /\ Copied(D) /\ Rested(D, G)
      /\ D.state \in [Pairs -> Row] /\ D.events \subseteq Event /\ D.serial \in [Pairs -> Nat]
  BY DEF Good, Tables
<1>2. ASSUME NEW p \in Pairs  PROVE rows[p] \in Row /\ rows[p].rev = D.state[p].rev
  BY <1>1 DEF Row
<1>3. M \in Tables
  BY <1>1, <1>2 DEF Tables
<1>4. E = QueueDesiredState(M, W)
  BY <1>0 DEF Offboard
<1>5. W \in [Pairs -> Wants] /\ \A p \in Pairs : W[p] # "keep" <=> p \in holds
  BY DEF Wants
<1>6. /\ M.events = D.events /\ M.serial = D.serial
      /\ \A p \in Pairs : M.state[p].rev = D.state[p].rev
      /\ \A p \in Pairs : p \notin holds => M.state[p] = D.state[p]
  BY <1>2
<1>7. \A p \in holds : p[2] = u /\ p[1] \in paired /\ \A e \in D.events : e.pair = p => ~Removal(e)
  BY <1>1 DEF Rested
<1>8. ASSUME NEW p \in Pairs, p[2] = u, p \notin holds  PROVE ~D.state[p].active
  BY <1>1, <1>8 DEF Orderly, Tidy, Described, NoRow
<1>9. \A p \in holds : W[p] = want
  OBVIOUS
<1> HIDE DEF M, W, holds, rows
<1>10. E \in Tables /\ Sealed(E) /\ E.events \subseteq Event
  BY <1>0, <1>1, OffboardType, OffboardSealed DEF Tables, TypeOK
<1>11. Orderly(E) /\ Copied(E)
  BY <1>1, <1>3, <1>4, <1>5, <1>6, <1>7, QueueOrderly
<1>12. ASSUME NEW p \in Pairs
       PROVE  \/ p \notin holds /\ Keeps(M, E, p)
              \/ p \in holds /\ Forgets(M, E, p)
              \/ p \in holds /\ \E m : Queues(M, E, p, want, m)
  BY <1>3, <1>4, <1>5, <1>9, QueueShape
<1>13. ASSUME NEW e \in E.events, Removal(e), e.pair[1] \in paired
       PROVE  e.pair[2] \in G \/ (want = "delete" /\ e.pair[2] = u)
  <2>1. e.pair \in Pairs /\ e \in Of(E.events, e.pair)
    BY <1>10 DEF Event, Of
  <2>2. e \in M.events \/ (e.pair \in holds /\ want = "delete")
    <3>1. Of(M.events, e.pair) \subseteq M.events /\ Unsuperseded(M, e.pair) \subseteq M.events
      BY DEF Of, Unsuperseded
    <3>2. \A m : Queues(M, E, e.pair, want, m) /\ e = m => want = "delete"
      BY <1>13 DEF Queues, Removal
    <3> QED  BY <1>12, <2>1, <3>1, <3>2 DEF Keeps, Forgets, Queues
  <2> QED  BY <1>1, <1>6, <1>7, <1>13, <2>2 DEF Rested
<1>14. ASSUME NEW p \in Pairs, p[2] \in G \cup {u}  PROVE ~E.state[p].active
  <2>1. CASE p \notin holds
    BY <1>1, <1>6, <1>8, <1>12, <1>14, <2>1 DEF Keeps, Rested
  <2>2. CASE p \in holds
    <3>1. ASSUME NEW m, Queues(M, E, p, want, m)  PROVE ~E.state[p].active
      <4>1. E.state[p].active = m.active /\ m.active = (want \in {"on", "resend"})
        BY <3>1 DEF Queues
      <4>2. want \notin {"on", "resend"}
        OBVIOUS
      <4> QED  BY <4>1, <4>2
    <3>2. Forgets(M, E, p) => ~E.state[p].active
      BY DEF Forgets, NoRow
    <3> QED  BY <1>12, <2>2, <3>1, <3>2
  <2> QED  BY <2>1, <2>2
<1>15. (want = "off" => Rested(E, G)) /\ Rested(E, G \cup {u})
  BY <1>13, <1>14 DEF Rested
<1> QED  BY <1>0, <1>10, <1>11, <1>15 DEF Good

\* insertResourceEventTx, seen from one connector and account.
LEMMA InsertShape ==
    ASSUME NEW D \in Tables, NEW P \in SUBSET Pairs, NEW new \in [P -> Event],
           \A p \in P : new[p].pair = p, NEW p \in Pairs
    PROVE  LET E == Insert(D, new) IN
           /\ E.state = D.state
           /\ p \in P => /\ Of(E.events, p) = Of(D.events, p) \cup {new[p]}
                         /\ E.serial[p] = D.serial[p] + 1
           /\ p \notin P => Of(E.events, p) = Of(D.events, p) /\ E.serial[p] = D.serial[p]
           /\ E.events = D.events \cup {new[q] : q \in P}
<1>1. DOMAIN new = P
  OBVIOUS
<1>2. PICK E : E = Insert(D, new)
  OBVIOUS
<1>3. /\ E.state = D.state /\ E.events = D.events \cup {new[q] : q \in P}
      /\ E.serial[p] = IF p \in P THEN D.serial[p] + 1 ELSE D.serial[p]
  BY <1>1, <1>2 DEF Insert
<1>4. Of(E.events, p) = Of(D.events, p) \cup (IF p \in P THEN {new[p]} ELSE {})
  BY <1>3 DEF Of
<1> QED  BY <1>2, <1>3, <1>4

\* New events with new numbers leave every copy a copy.
LEMMA InsertCopied ==
    ASSUME TypeOK, NEW D \in Tables, Copied(D), NEW M \in Tables, M.events = D.events,
           M.serial = D.serial, NEW P \in SUBSET Pairs, NEW new \in [P -> Event],
           \A p \in P : new[p].pair = p /\ new[p].id = D.serial[p] + 1
    PROVE  Copied(Insert(M, new))
<1>1. PICK E : E = Insert(M, new)
  OBVIOUS
<1>2. E \in Tables /\ D.serial \in [Pairs -> Nat] /\ E.serial \in [Pairs -> Nat]
  BY <1>1, InsertType DEF Tables
<1>3. ASSUME NEW p \in Pairs  PROVE D.serial[p] <= E.serial[p]
  <2>1. E.serial[p] = D.serial[p] \/ E.serial[p] = D.serial[p] + 1
    BY <1>1, InsertShape
  <2> QED  BY <1>2, <2>1
<1>4. ASSUME NEW e \in E.events  PROVE e \in D.events \/ e.id > D.serial[e.pair]
  <2>1. CASE Pairs = {}
    BY <1>2, <2>1 DEF Tables, Event
  <2>2. CASE Pairs # {}
    <3>1. E.events = D.events \cup {new[q] : q \in P}
      BY <1>1, <2>2, InsertShape
    <3>2. ASSUME NEW q \in P  PROVE new[q].id > D.serial[new[q].pair]
      <4>1. D.serial[q] \in Nat
        BY <1>2
      <4> QED  BY <4>1
    <3> QED  BY <3>1, <3>2
  <2> QED  BY <2>1, <2>2
<1> QED  BY <1>1, <1>2, <1>3, <1>4, CopiedGrows

\* ResetUserMFA: notifications keep all of it.
LEMMA ResetGood ==
    ASSUME TypeOK, NEW D, NEW G, Good(D, G), NEW P \in SUBSET Pairs, NEW new \in [P -> Event],
           \A p \in P : /\ new[p].pair = p /\ new[p].id = D.serial[p] + 1
                        /\ new[p].type = "mfa_reset" /\ new[p].status = "pending"
                        /\ new[p].attempts = 0 /\ new[p].token = NoToken
    PROVE  Good(Insert(D, new), G)
<1>0. PICK E : E = Insert(D, new)
  OBVIOUS
<1>1. D \in Tables /\ Sealed(D) /\ Orderly(D) /\ Copied(D) /\ Rested(D, G)
  BY DEF Good
<1>a. /\ \A p \in P : new[p].pair = p /\ new[p].id = D.serial[p] + 1
      /\ \A p \in P : new[p].pair = p
      /\ capsule \subseteq Pairs \X Nat
  BY DEF TypeOK
<1>2. E \in Tables /\ Sealed(E) /\ E.events \subseteq Event
  <2>1. E \in Tables
    BY <1>0, <1>1, InsertType
  <2>2. Sealed(E)
    BY <1>0, <1>1, <1>a, InsertSealed
  <2> QED  BY <2>1, <2>2 DEF Tables
<1>3. Copied(E)
  BY <1>0, <1>1, <1>a, InsertCopied
<1>4. ASSUME NEW p \in Pairs
      PROVE  /\ E.state = D.state
             /\ p \in P => Of(E.events, p) = Of(D.events, p) \cup {new[p]}
             /\ p \notin P => Of(E.events, p) = Of(D.events, p)
  BY <1>0, <1>1, <1>a, InsertShape
<1>5. ASSUME NEW p \in Pairs, p[1] \in paired
      PROVE  Tidy(E.state[p], Of(E.events, p), fence[p], applied[p], remote[p], restores = 0)
  <2> DEFINE S == Of(D.events, p)
  <2>1. /\ D.state[p] \in Row /\ S \in SUBSET Event /\ applied[p] \in Nat
        /\ (restores = 0) \in BOOLEAN
        /\ Tidy(D.state[p], S, fence[p], applied[p], remote[p], restores = 0)
    BY <1>1, <1>5 DEF Of, Orderly, TypeOK, Tables
  <2>2. CASE p \notin P
    BY <1>4, <2>1, <2>2
  <2>3. CASE p \in P
    <3> HIDE DEF S
    <3>1. Tidy(D.state[p], S \cup {new[p]}, fence[p], applied[p], remote[p], restores = 0)
      BY <2>1, <2>3, ResetTidy
    <3> QED  BY <1>4, <2>3, <3>1 DEF S
  <2> QED  BY <2>2, <2>3
<1>6. Orderly(E)
  BY <1>1, <1>4, <1>5 DEF Orderly
<1>7. ASSUME NEW e \in E.events, Removal(e)  PROVE e \in D.events
  <2>1. e.pair \in Pairs /\ e \in Of(E.events, e.pair)
    BY <1>2 DEF Event, Of
  <2> QED  BY <1>4, <1>7, <2>1 DEF Of, Removal
<1>8. Rested(E, G)
  BY <1>1, <1>4, <1>7 DEF Rested
<1> QED  BY <1>0, <1>2, <1>3, <1>6, <1>8 DEF Good

\* DeleteUserWithSyncEvents: bare removals for connectors without a row of an account that is gone.
LEMMA StrangersGood ==
    ASSUME TypeOK, NEW D, NEW G, Good(D, G), NEW P \in SUBSET Pairs,
           \A p \in P : p[1] \in paired /\ p[2] \in G /\ ~D.state[p].exists,
           NEW M \in Tables, M.events = D.events, M.serial = D.serial,
           \A p \in Pairs : p \notin P => M.state[p] = D.state[p],
           NEW new \in [P -> Event],
           \A p \in P : new[p].pair = p /\ Announces(D.serial[p], new[p], M.state[p])
    PROVE  Good(Insert(M, new), G)
<1>0. PICK E : E = Insert(M, new)
  OBVIOUS
<1>1. D \in Tables /\ Sealed(D) /\ Orderly(D) /\ Copied(D) /\ Rested(D, G)
  BY DEF Good
<1>2. Sealed(M)
  BY <1>1, SealedFewer
<1>a. /\ \A p \in P : new[p].pair = p /\ new[p].id = D.serial[p] + 1
      /\ \A p \in P : new[p].pair = p /\ new[p].id = M.serial[p] + 1
      /\ \A p \in P : new[p].pair = p
      /\ capsule \subseteq Pairs \X Nat
  BY DEF TypeOK, Announces
<1>3. E \in Tables /\ Sealed(E) /\ E.events \subseteq Event
  <2>1. E \in Tables
    BY <1>0, InsertType
  <2>2. Sealed(E)
    BY <1>0, <1>2, <1>a, InsertSealed
  <2> QED  BY <2>1, <2>2 DEF Tables
<1>4. Copied(E)
  BY <1>0, <1>1, <1>a, InsertCopied
<1>5. ASSUME NEW p \in Pairs
      PROVE  /\ E.state = M.state
             /\ p \in P => Of(E.events, p) = Of(D.events, p) \cup {new[p]}
             /\ p \notin P => Of(E.events, p) = Of(D.events, p)
  <2>1. Of(M.events, p) = Of(D.events, p)
    BY DEF Of
  <2> QED  BY <1>0, <1>a, <2>1, InsertShape, SMTT(30)
<1>6. ASSUME NEW p \in Pairs, p[1] \in paired
      PROVE  Tidy(E.state[p], Of(E.events, p), fence[p], applied[p], remote[p], restores = 0)
  <2> DEFINE S == Of(D.events, p)
  <2>1. /\ D.state[p] \in Row /\ S \in SUBSET Event /\ applied[p] \in Nat
        /\ (restores = 0) \in BOOLEAN /\ D.serial[p] \in Nat
        /\ Tidy(D.state[p], S, fence[p], applied[p], remote[p], restores = 0)
    BY <1>1, <1>6 DEF Of, Orderly, TypeOK, Tables
  <2>a. Numbered(S, D.serial[p], applied[p])
    BY <1>1 DEF Of, Sealed, Copied, Numbered
  <2>2. CASE p \notin P
    BY <1>5, <2>1, <2>2
  <2>3. CASE p \in P
    <3> HIDE DEF S
    <3>1. ~D.state[p].exists
      BY <2>3
    <3>2. Announces(D.serial[p], new[p], M.state[p])
      BY <2>3
    <3>4. Tidy(M.state[p], S \cup {new[p]}, fence[p], applied[p], remote[p], restores = 0)
      BY <2>1, <2>a, <3>1, <3>2, StrangerTidy
    <3> QED  BY <1>5, <2>3, <3>4 DEF S
  <2> QED  BY <2>2, <2>3
<1>7. ASSUME NEW p \in Pairs, p[1] \notin paired  PROVE E.state[p] = NoRow
  BY <1>1, <1>5, <1>7 DEF Orderly
<1>8. Orderly(E)
  BY <1>6, <1>7 DEF Orderly
<1>9. ASSUME NEW e \in E.events, Removal(e), e.pair[1] \in paired  PROVE e.pair[2] \in G
  <2>1. e.pair \in Pairs /\ e \in Of(E.events, e.pair)
    BY <1>3 DEF Event, Of
  <2>2. CASE e.pair \in P
    BY <2>2
  <2>3. CASE e.pair \notin P
    BY <1>1, <1>5, <1>9, <2>1, <2>3 DEF Of, Rested
  <2> QED  BY <2>2, <2>3
<1>10. ASSUME NEW p \in Pairs, p[2] \in G  PROVE ~E.state[p].active
  BY <1>1, <1>5, <1>10 DEF Rested, Announces
<1> QED  BY <1>0, <1>3, <1>4, <1>8, <1>9, <1>10 DEF Good, Rested

\* The directory's transactions keep the order.
LEMMA DirectoryOrdered ==
    ASSUME TypeOK, Sealed(Db), Ordered,
           \/ \E u \in Users : UserStep(u)
           \/ \E s \in Systems : ResyncSystem(s)
           \/ \E p \in Pairs : ChangeAccess(p) \/ AccessDrifts(p)
           \/ ReconcileTick
    PROVE  Ordered'
<1> DEFINE G == Gone(users)
           H == Gone(users')
<1>0. Good(Db, G)
  BY DbType DEF Good, Ordered
<1>1. UNCHANGED Delivery /\ paired' = paired
  BY Groups DEF UserStep, CreateUser, UpdateUser, EndDatePasses, ExpireAccount, DeleteUser,
         ResetMFA, ResyncSystem, ChangeAccess, AccessDrifts, ReconcileTick
<1>2. ASSUME NEW g  PROVE \A p \in Access(g, users') : p[1] \in paired /\ p[2] \notin H
  BY DEF Access, Gone
<1>3. ASSUME users' = users  PROVE H = G
  BY <1>3
<1>4. ASSUME NEW u \in Users, NEW to \in UserStatus \ {"gone"}, users[u] # "gone",
             users' = [users EXCEPT ![u] = to]
      PROVE  H = G /\ u \notin G
  BY <1>4 DEF Gone, TypeOK
<1>5. \/ UNCHANGED outbox /\ H = G
      \/ \E D : Commit(D) /\ Good(D, H)
  <2>1. ASSUME NEW u \in Users, UserStep(u)  PROVE <1>5
    <3>1. CASE CreateUser(u)
      <4>1. H = G
        BY <1>4, <3>1 DEF CreateUser, UserStatus
      <4>2. Good(Reconcile(Db, Access(granted, users')), H)
        <5> HIDE DEF G, H
        <5> QED  BY <1>0, <1>2, <4>1, ReconcileGood
      <4> QED  BY <3>1, <4>2 DEF CreateUser
    <3>2. ASSUME NEW to \in {"active", "ended", "disabled"}, UpdateUser(u, to)  PROVE <1>5
      <4> DEFINE acc == Access(granted, users')
                 d == IF users[u] = "active" /\ to = "disabled" THEN Offboard(Db, u, "off") ELSE Db
      <4>1. H = G /\ u \notin G
        BY <1>4, <3>2 DEF UpdateUser, UserStatus
      <4>2. \A p \in acc : p[1] \in paired /\ p[2] \notin H
        BY <1>2
      <4> HIDE DEF G, H
      <4>3. Good(d, H)
        BY <1>0, <4>1, OffboardGood
      <4>4. Good(Reconcile(QueueUserUpdate(d, u, acc), acc), H)
        <5> HIDE DEF d, acc
        <5> QED  BY <4>2, <4>3, UserUpdateGood, ReconcileGood
      <4> QED  BY <3>2, <4>4 DEF UpdateUser
    <3>3. CASE EndDatePasses(u)
      <4>1. H = G
        BY <1>4, <3>3 DEF EndDatePasses, UserStatus
      <4> QED  BY <3>3, <4>1 DEF EndDatePasses
    <3>4. CASE ExpireAccount(u)
      <4>1. H = G /\ u \notin G
        BY <1>4, <3>4 DEF ExpireAccount, UserStatus
      <4> HIDE DEF G, H
      <4>2. Good(Offboard(Db, u, "off"), H)
        BY <1>0, <4>1, OffboardGood
      <4> QED  BY <3>4, <4>2 DEF ExpireAccount
    <3>5. CASE DeleteUser(u)
      <4> DEFINE d == Offboard(Db, u, "delete")
                 strangers == {p \in Pairs : p[2] = u /\ p[1] \in paired /\ ~d.state[p].exists}
                 rows == [p \in Pairs |->
                            IF p \in strangers THEN [NoRow EXCEPT !.exists = TRUE] ELSE d.state[p]]
                 M == [state |-> rows, events |-> d.events, serial |-> d.serial]
                 new == [p \in strangers |-> NewEvent(d, p, "deleted", FALSE, 0)]
      <4>1. H = G \cup {u} /\ u \notin G
        BY <3>5 DEF DeleteUser, Gone, TypeOK
      <4>2. Good(d, H)
        <5> HIDE DEF G, H
        <5> QED  BY <1>0, <4>1, OffboardGood
      <4>3. d \in Tables /\ d.state \in [Pairs -> Row] /\ d.events \subseteq Event
            /\ d.serial \in [Pairs -> Nat]
        BY <4>2 DEF Good, Tables
      <4> HIDE DEF d
      <4>4. PICK bare \in Row : bare = [NoRow EXCEPT !.exists = TRUE]
        BY NoRowType DEF Row
      <4>5. bare.exists /\ bare.rev = 0 /\ ~bare.active /\ ~bare.offboarded
        BY <4>4 DEF NoRow
      <4>6. /\ M \in Tables /\ M.events = d.events /\ M.serial = d.serial
            /\ \A p \in Pairs : M.state[p] = IF p \in strangers THEN bare ELSE d.state[p]
        BY <4>3, <4>4 DEF Tables
      <4>7. ASSUME NEW p \in strangers
            PROVE  LET e == NewEvent(d, p, "deleted", FALSE, 0)
                   IN  e \in Event /\ e.pair = p /\ Announces(d.serial[p], e, bare)
        <5>1. "deleted" \in EventTypes /\ FALSE \in BOOLEAN /\ 0 \in Int /\ p \in Pairs
          BY DEF EventTypes
        <5>2. NewEvent(d, p, "deleted", FALSE, 0) \in Event
          BY <4>3, <5>1, NewEventType
        <5> QED  BY <4>5, <5>2 DEF NewEvent, Announces
      <4>8. strangers \in SUBSET Pairs /\ \A p \in strangers : p[1] \in paired /\ p[2] = u /\ ~d.state[p].exists
        OBVIOUS
      <4> HIDE DEF strangers
      <4>9. /\ new \in [strangers -> Event]
            /\ \A p \in strangers : new[p].pair = p /\ Announces(d.serial[p], new[p], bare)
        BY <4>7
      <4>10. Good(Insert(M, new), H)
        <5>1. \A p \in strangers : p[1] \in paired /\ p[2] \in H /\ ~d.state[p].exists
          BY <4>1, <4>8
        <5>2. \A p \in strangers : new[p].pair = p /\ Announces(d.serial[p], new[p], M.state[p])
          BY <4>6, <4>8, <4>9
        <5>3. \A p \in Pairs : p \notin strangers => M.state[p] = d.state[p]
          BY <4>6
        <5> HIDE DEF M, new, H
        <5> QED  BY <4>2, <4>6, <4>8, <4>9, <5>1, <5>2, <5>3, StrangersGood
      <4>11. Good(Reconcile(Insert(M, new), Access(granted', users')), H)
        <5> HIDE DEF M, new, H
        <5> QED  BY <1>2, <4>10, ReconcileGood
      <4> QED  BY <3>5, <4>11 DEF DeleteUser, d, strangers
    <3>6. CASE ResetMFA(u)
      <4> DEFINE told == {p \in Pairs : p[2] = u /\ state[p].active}
                 new == [p \in told |->
                           NewEvent(Db, p, "mfa_reset", users[u] = "active", state[p].rev)]
      <4>1. ASSUME NEW p \in told
            PROVE  LET e == NewEvent(Db, p, "mfa_reset", users[u] = "active", state[p].rev)
                   IN  /\ e \in Event /\ e.pair = p /\ e.id = Db.serial[p] + 1
                       /\ e.type = "mfa_reset" /\ e.status = "pending"
                       /\ e.attempts = 0 /\ e.token = NoToken
        <5>1. state[p].rev \in Int
          BY DEF TypeOK, Row
        <5>2. (users[u] = "active") \in BOOLEAN /\ "mfa_reset" \in EventTypes
          BY DEF EventTypes
        <5>3. NewEvent(Db, p, "mfa_reset", users[u] = "active", state[p].rev) \in Event
          BY DbType, <5>1, <5>2, NewEventType, Zenon
        <5> QED  BY <5>3 DEF NewEvent
      <4>2. told \in SUBSET Pairs
        OBVIOUS
      <4>3. /\ new \in [told -> Event]
            /\ \A p \in told : /\ new[p].pair = p /\ new[p].id = Db.serial[p] + 1
                               /\ new[p].type = "mfa_reset" /\ new[p].status = "pending"
                               /\ new[p].attempts = 0 /\ new[p].token = NoToken
        <5> HIDE DEF told
        <5> QED  BY <4>1
      <4>4. H = G
        BY <1>3, <3>6, Groups DEF ResetMFA
      <4>5. Good(Insert(Db, new), H)
        <5> HIDE DEF new, told, G, H
        <5> QED  BY <1>0, <4>2, <4>3, <4>4, ResetGood
      <4> QED  BY <3>6, <4>5 DEF ResetMFA
    <3> QED  BY <2>1, <3>1, <3>2, <3>3, <3>4, <3>5, <3>6 DEF UserStep
  <2>2. ASSUME NEW s \in Systems, ResyncSystem(s)  PROVE <1>5
    <3> DEFINE d == Reconcile(Db, Access(granted, users))
               W == [p \in Pairs |-> IF p[1] = s /\ d.state[p].active THEN "resend" ELSE "keep"]
    <3>1. users' = users /\ H = G
      BY <1>3, <2>2, Groups DEF ResyncSystem
    <3>2. \A p \in Access(granted, users) : p[1] \in paired /\ p[2] \notin H
      BY <1>2, <3>1
    <3>3. Good(d, H)
      <4> HIDE DEF G, H
      <4> QED  BY <1>0, <3>1, <3>2, ReconcileGood
    <3> HIDE DEF d, H
    <3>4. W \in [Pairs -> Wants]
      BY DEF Wants
    <3>5. \A p \in Pairs : W[p] # "keep" => p[1] \in paired /\ p[2] \notin H /\ W[p] # "delete"
      BY <3>3, ActiveRows
    <3>6. Good(QueueDesiredState(d, W), H)
      <4> HIDE DEF W
      <4> QED  BY <3>3, <3>4, <3>5, QueueGood
    <3> QED  BY <2>2, <3>6 DEF ResyncSystem, d
  <2>3. ASSUME NEW p \in Pairs, ChangeAccess(p)  PROVE <1>5
    <3>1. users' = users /\ H = G
      BY <1>3, <2>3 DEF ChangeAccess
    <3>2. \A q \in Access(granted', users) : q[1] \in paired /\ q[2] \notin H
      BY <1>2, <3>1
    <3>3. Good(Reconcile(Db, Access(granted', users)), H)
      <4> HIDE DEF G, H
      <4> QED  BY <1>0, <3>1, <3>2, ReconcileGood
    <3> QED  BY <2>3, <3>3 DEF ChangeAccess
  <2>4. ASSUME NEW p \in Pairs, AccessDrifts(p)  PROVE <1>5
    BY <1>3, <2>4 DEF AccessDrifts
  <2>5. CASE ReconcileTick
    <3>1. users' = users /\ H = G
      BY <1>3, <2>5, Groups DEF ReconcileTick
    <3>2. \A q \in Access(granted, users) : q[1] \in paired /\ q[2] \notin H
      BY <1>2, <3>1
    <3>3. Good(Reconcile(Db, Access(granted, users)), H)
      <4> HIDE DEF G, H
      <4> QED  BY <1>0, <3>1, <3>2, ReconcileGood
    <3> QED  BY <2>5, <3>3 DEF ReconcileTick
  <2> QED  BY <2>1, <2>2, <2>3, <2>4, <2>5
<1>6. UNCHANGED <<fence, disp, wire, remote, applied, restores, paired>>
  BY <1>1, Groups
<1>7. Handed'
  BY <1>6 DEF Ordered, Handed, Busy
<1>8. ASSUME NEW D, Commit(D), Good(D, H)  PROVE Orderly(Db)' /\ Copied(Db)' /\ Rested(Db, G)'
  <2>1. Orderly(D) /\ Copied(D) /\ Rested(D, H)
    BY <1>8 DEF Good
  <2>2. state' = D.state /\ events' = D.events /\ serial' = D.serial
    BY <1>8 DEF Commit
  <2>3. Orderly(Db)'
    BY <1>6, <2>1, <2>2 DEF Orderly, Db
  <2>4. Copied(Db)'
    BY <1>6, <2>1, <2>2 DEF Copied, Copy, Db, Busy
  <2>5. Rested(Db, G)'
    BY <1>6, <2>1, <2>2 DEF Rested, Db
  <2> QED  BY <2>3, <2>4, <2>5
<1>9. CASE UNCHANGED outbox /\ H = G
  <2>1. UNCHANGED <<state, events, serial>>
    BY <1>9, Groups
  <2>2. Orderly(Db)'
    BY <1>6, <2>1 DEF Ordered, Orderly, Db
  <2>3. Copied(Db)'
    BY <1>6, <2>1 DEF Ordered, Copied, Copy, Db, Busy
  <2>4. Rested(Db, G)'
    BY <1>6, <1>9, <2>1 DEF Ordered, Rested, Db
  <2> QED  BY <1>7, <2>2, <2>3, <2>4 DEF Ordered
<1> QED  BY <1>5, <1>7, <1>8, <1>9 DEF Ordered

-----------------------------------------------------------------------------
(* Dispatchers, targets and operators                                      *)

\* Dispatchers go on with what they hold, or let go.
HandsOver == \A d \in Dispatchers : Busy(d)' => Busy(d) /\ disp'[d].ev = disp[d].ev

\* What an acknowledged removal of access left at the target.
Served(x) ==
    x.pair[1] \in paired /\ fence[x.pair].token = x.token /\ Carries(x) /\ ~x.active
        => remote[x.pair] # "active"

\* The dispatchers' part of the invariant, when fences are released at most.
LEMMA HandedStays ==
    ASSUME TypeOK, FenceInv, Ordered, UNCHANGED <<paired, remote>>,
           \A p \in Pairs : fence'[p] = fence[p] \/ fence'[p] = NoFence,
           wire' \subseteq wire, HandsOver,
           \A d \in Dispatchers :
              disp'[d].pc = "acked" => disp[d].pc = "acked" \/ Served(disp[d].ev)
    PROVE  Handed'
<1>1. ASSUME NEW x \in Event, x.token \in Tokens, fence'[x.pair].token = x.token
      PROVE  fence'[x.pair] = fence[x.pair]
  BY <1>1, TokenAssumption DEF Event, NoFence
<1>2. ASSUME NEW d \in Dispatchers, Busy(d)'
      PROVE  /\ Busy(d) /\ disp'[d].ev = disp[d].ev
             /\ disp[d].ev \in Event /\ disp[d].ev.token \in Tokens
  BY <1>2, DispatcherMoves DEF HandsOver, FenceInv, TokensReal
<1>3. ASSUME NEW d \in Dispatchers, disp'[d].pc = "acked"  PROVE Busy(d)'
  BY <1>3 DEF Busy, Idle
<1>4. ASSUME NEW d \in Dispatchers, Busy(d)'
      PROVE  LET x == disp'[d].ev IN
             /\ x.attempts < AttemptLimit
             /\ fence'[x.pair].token = x.token => fence'[x.pair].id = x.id
  BY <1>1, <1>2, <1>4 DEF Ordered, Handed
<1>5. ASSUME NEW w \in wire', fence'[w.pair].token = w.token  PROVE fence'[w.pair].id = w.id
  <2>1. w \in wire /\ w \in Event /\ w.token \in Tokens
    BY DEF TypeOK, FenceInv, WriteOwnsFence
  <2> QED  BY <1>1, <1>5, <2>1 DEF Ordered, Handed
<1>6. ASSUME NEW d \in Dispatchers, disp'[d].pc = "acked",
             LET x == disp'[d].ev IN
             x.pair[1] \in paired /\ fence'[x.pair].token = x.token /\ Carries(x) /\ ~x.active
      PROVE  remote[disp'[d].ev.pair] # "active"
  <2>1. disp'[d].ev = disp[d].ev /\ disp[d].ev \in Event /\ disp[d].ev.token \in Tokens
    BY <1>2, <1>3, <1>6
  <2>2. fence[disp[d].ev.pair].token = disp[d].ev.token
    BY <1>1, <1>6, <2>1
  <2>3. Served(disp[d].ev)
    BY <1>6 DEF Ordered, Handed, Served
  <2> QED  BY <1>6, <2>1, <2>2, <2>3 DEF Served
<1> QED  BY <1>4, <1>5, <1>6 DEF Handed

\* Steps that leave the outbox and the targets alone, and release fences at most.
LEMMA OrderedStays ==
    ASSUME TypeOK, FenceInv, Ordered,
           UNCHANGED <<state, events, serial, users, paired, restores, remote, applied>>,
           \A p \in Pairs : fence'[p] = fence[p] \/ fence'[p] = NoFence,
           wire' \subseteq wire, HandsOver, TypeOK',
           \A d \in Dispatchers :
              disp'[d].pc = "acked" => disp[d].pc = "acked" \/ Served(disp[d].ev)
    PROVE  Ordered'
<1>1. Orderly(Db)'
  <2>1. ASSUME NEW p \in Pairs, p[1] \in paired
        PROVE  Tidy(state[p], Of(events, p), fence'[p], applied[p], remote[p], restores = 0)
    BY <2>1 DEF Ordered, Orderly, Db, Tidy, Owned
  <2> QED  BY <2>1 DEF Ordered, Orderly, Db
<1>2. Copied(Db)'
  BY DEF Ordered, Copied, Copy, Db, HandsOver
<1>3. Rested(Db, Gone(users))'
  BY DEF Ordered, Rested, Db
<1>4. Handed'
  BY HandedStays
<1> QED  BY <1>1, <1>2, <1>3, <1>4 DEF Ordered

\* What a fence says of the event it belongs to.
LEMMA FencedEvent ==
    ASSUME TypeOK, FenceInv, Ordered, NEW x \in Event, x.token \in Tokens, x.pair[1] \in paired,
           Copy(Db, x), fence[x.pair].token = x.token, fence[x.pair].id = x.id
    PROVE  \E e \in Of(events, x.pair) : Same(x, e) /\ e.token = x.token
<1>1. x.pair \in Pairs /\ fence[x.pair] # NoFence
  BY TokenAssumption DEF Event, NoFence
<1>2. Owned(Of(events, x.pair), fence[x.pair])
  BY <1>1 DEF Ordered, Orderly, Tidy, Db
<1>3. PICK e \in Of(events, x.pair) : e.id = x.id /\ e.token = x.token
  BY <1>1, <1>2 DEF Owned
<1>4. e \in events /\ e.pair = x.pair
  BY DEF Of
<1>5. e.type = x.type /\ e.rev = x.rev /\ e.active = x.active
  BY <1>3, <1>4 DEF Copy, Db
<1> QED  BY <1>3, <1>4, <1>5 DEF Same

\* A write reaches the target.
LEMMA LandsOrdered ==
    ASSUME TypeOK, FenceInv, Ordered, NEW w \in wire, Lands(w),
           UNCHANGED <<state, events, serial, users, paired, restores, fence>>, HandsOver, TypeOK',
           \A d \in Dispatchers : disp'[d].pc = "acked" => disp[d].pc = "acked" \/ disp[d].ev = w
    PROVE  Ordered' /\ \A p \in Pairs : p[1] \in paired => applied'[p] >= applied[p]
<1> DEFINE q == w.pair
<1>0. /\ w \in Event /\ q \in Pairs /\ w.token \in Tokens /\ Copy(Db, w)
      /\ q[1] \in paired => fence[q].token = w.token /\ fence[q].id = w.id
  BY DEF TypeOK, Event, FenceInv, WriteOwnsFence, Ordered, Copied, Handed
<1>1. CASE ~Carries(w)
  <2>1. UNCHANGED <<remote, applied>> /\ wire' \subseteq wire
    BY <1>1 DEF Lands, Carries
  <2>2. ASSUME NEW d \in Dispatchers, disp'[d].pc = "acked"
        PROVE  disp[d].pc = "acked" \/ Served(disp[d].ev)
    BY <1>1, <2>2 DEF Served
  <2>3. \A p \in Pairs : applied[p] >= applied[p]
    BY DEF TypeOK
  <2> QED  BY <2>1, <2>2, <2>3, OrderedStays
<1>2. CASE Carries(w)
  <2>1. /\ wire' \subseteq wire
        /\ \A p \in Pairs : p # q => remote'[p] = remote[p] /\ applied'[p] = applied[p]
        /\ applied'[q] = w.id /\ (remote'[q] = "active" => w.active)
    <3>1. /\ wire' = wire \ {w} /\ applied' = [applied EXCEPT ![q] = w.id]
          /\ remote' = [remote EXCEPT ![q] = IF w.active THEN "active"
                                             ELSE IF @ = "none" THEN "none" ELSE "inactive"]
      BY <1>2 DEF Lands, Carries
    <3> QED  BY <1>0, <3>1 DEF TypeOK
  <2>2. ASSUME q[1] \in paired
        PROVE  /\ applied[q] <= w.id
               /\ Tidy(state[q], Of(events, q), fence[q], applied'[q], remote'[q], restores = 0)
    <3> DEFINE S == Of(events, q)
    <3>1. PICK e \in S : Same(w, e) /\ e.token = w.token
      BY <1>0, <2>2, FencedEvent
    <3>2. /\ state[q] \in Row /\ S \in SUBSET Event /\ applied[q] \in Nat
          /\ (restores = 0) \in BOOLEAN
          /\ Tidy(state[q], S, fence[q], applied[q], remote[q], restores = 0)
      BY <1>0, <2>2 DEF TypeOK, Of, Ordered, Orderly, Db
    <3>3. e.token # NoToken /\ Carries(e) /\ e.id = w.id /\ (remote'[q] = "active" => e.active)
      BY <1>0, <1>2, <2>1, <3>1, TokenAssumption DEF Same, Carries
    <3> HIDE DEF S
    <3>4. applied[q] <= e.id /\ Tidy(state[q], S, fence[q], e.id, remote'[q], restores = 0)
      <4>1. PICK rem2 : rem2 = remote'[q]
        OBVIOUS
      <4>2. rem2 = "active" => e.active
        BY <3>3, <4>1
      <4>3. applied[q] <= e.id /\ Tidy(state[q], S, fence[q], e.id, rem2, restores = 0)
        BY <3>1, <3>2, <3>3, <4>2, LandTidy
      <4> QED  BY <4>1, <4>3
    <3> QED  BY <2>1, <3>3, <3>4 DEF S
  <2>3. Orderly(Db)'
    <3>1. ASSUME NEW p \in Pairs, p[1] \in paired
          PROVE  Tidy(state[p], Of(events, p), fence[p], applied'[p], remote'[p], restores = 0)
      <4>1. CASE p = q
        BY <2>2, <3>1, <4>1
      <4>2. CASE p # q
        BY <2>1, <3>1, <4>2 DEF Ordered, Orderly, Db
      <4> QED  BY <4>1, <4>2
    <3> QED  BY <3>1 DEF Ordered, Orderly, Db
  <2>4. Copied(Db)'
    <3>1. \A p \in Pairs : applied'[p] <= serial[p]
      BY <1>0, <2>1 DEF Ordered, Copied, Copy, Db
    <3> QED  BY <2>1, <3>1 DEF Ordered, Copied, Copy, Db, HandsOver
  <2>5. Rested(Db, Gone(users))'
    BY DEF Ordered, Rested, Db
  <2>6. Handed'
    <3>1. ASSUME NEW d \in Dispatchers, Busy(d)'
          PROVE  LET x == disp'[d].ev IN
                 /\ x.attempts < AttemptLimit
                 /\ fence[x.pair].token = x.token => fence[x.pair].id = x.id
      BY <3>1 DEF HandsOver, Ordered, Handed
    <3>2. ASSUME NEW v \in wire', fence[v.pair].token = v.token  PROVE fence[v.pair].id = v.id
      BY <2>1, <3>2 DEF Ordered, Handed
    <3>3. ASSUME NEW d \in Dispatchers, disp'[d].pc = "acked",
                 LET x == disp'[d].ev IN
                 x.pair[1] \in paired /\ fence[x.pair].token = x.token /\ Carries(x) /\ ~x.active
          PROVE  remote'[disp'[d].ev.pair] # "active"
      <4>1. Busy(d) /\ disp'[d].ev = disp[d].ev
        BY <3>3 DEF HandsOver, Busy, Idle
      <4>2. disp[d].ev \in Event /\ disp[d].ev.pair \in Pairs
        BY <4>1, DispatcherMoves
      <4>3. CASE disp[d].ev.pair = q
        <5>1. disp[d].ev.token = w.token
          BY <1>0, <3>3, <4>1, <4>3
        <5>2. disp[d].ev = w
          BY <4>1, <5>1 DEF FenceInv, WriterWaits
        <5> QED  BY <2>1, <3>3, <4>1, <5>2
      <4>4. CASE disp[d].ev.pair # q
        <5>1. disp[d].pc = "acked"
          BY <3>3, <4>4
        <5> QED  BY <2>1, <3>3, <4>1, <4>2, <4>4, <5>1 DEF Ordered, Handed
      <4> QED  BY <4>3, <4>4
    <3> QED  BY <3>1, <3>2, <3>3 DEF Handed
  <2>7. ASSUME NEW p \in Pairs, p[1] \in paired  PROVE applied'[p] >= applied[p]
    BY <1>0, <2>1, <2>2, <2>7 DEF TypeOK, Event
  <2> QED  BY <2>3, <2>4, <2>5, <2>6, <2>7 DEF Ordered
<1> QED  BY <1>1, <1>2

\* One event edited, with the row and the fence of its connector and account.
LEMMA EditOrdered ==
    ASSUME TypeOK, Sealed(Db), Ordered, NEW e \in events, NEW m \in Event, Same(e, m),
           events' = (events \ {e}) \cup {m}, e.pair[1] \in paired => (Open(m) => Open(e)),
           UNCHANGED <<serial, users, paired, restores, remote, applied, wire>>,
           \A d \in Dispatchers :
              Busy(d)' => (Busy(d) /\ disp'[d].ev = disp[d].ev) \/ disp'[d].ev = m,
           \A p \in Pairs : p # e.pair => state'[p] = state[p] /\ fence'[p] = fence[p],
           state'[e.pair].active = state[e.pair].active,
           e.pair[1] \notin paired => state'[e.pair] = NoRow,
           e.pair[1] \in paired =>
              Tidy(state'[e.pair], (Of(events, e.pair) \ {e}) \cup {m}, fence'[e.pair],
                   applied[e.pair], remote[e.pair], restores = 0),
           Handed'
    PROVE  Ordered'
<1> DEFINE q == e.pair
<1>0. e \in Event /\ q \in Pairs /\ m.pair = q /\ m.id = e.id
  BY DEF TypeOK, Event, Same
<1>1. /\ \A p \in Pairs : p # q => Of(events', p) = Of(events, p)
      /\ Of(events', q) = (Of(events, q) \ {e}) \cup {m}
  BY <1>0 DEF Of
<1>2. Orderly(Db)'
  <2>1. ASSUME NEW p \in Pairs
        PROVE  IF p[1] \in paired
               THEN Tidy(state'[p], Of(events', p), fence'[p], applied[p], remote[p], restores = 0)
               ELSE state'[p] = NoRow
    <3>1. CASE p = q
      BY <1>1, <3>1
    <3>2. CASE p # q
      BY <1>1, <3>2 DEF Ordered, Orderly, Db
    <3> QED  BY <3>1, <3>2
  <2> QED  BY <2>1 DEF Orderly, Db
<1>3. \A g \in events : g.id <= serial[g.pair]
  BY DEF Sealed, Db
<1>4. \A g, h \in events : g.pair = h.pair /\ g.id = h.id => g = h
  BY DEF Sealed, Db
<1>5. ASSUME NEW x, Copy(Db, x)
      PROVE  /\ x.id <= serial[x.pair]
             /\ \A g \in events' : g.pair = x.pair /\ g.id = x.id
                                     => g.type = x.type /\ g.rev = x.rev /\ g.active = x.active
  BY <1>0, <1>5 DEF Copy, Db, Same
<1>6. /\ m.id <= serial[m.pair]
      /\ \A g \in events' : g.pair = m.pair /\ g.id = m.id
                              => g.type = m.type /\ g.rev = m.rev /\ g.active = m.active
  BY <1>0, <1>3, <1>4
<1>7. Copied(Db)'
  <2>1. ASSUME NEW d \in Dispatchers, Busy(d)'
        PROVE  LET x == disp'[d].ev IN
               /\ x.id <= serial[x.pair]
               /\ \A g \in events' : g.pair = x.pair /\ g.id = x.id
                                       => g.type = x.type /\ g.rev = x.rev /\ g.active = x.active
    <3>1. CASE Busy(d) /\ disp'[d].ev = disp[d].ev
      BY <1>5, <3>1 DEF Ordered, Copied
    <3>2. CASE disp'[d].ev = m
      BY <1>6, <3>2
    <3> QED  BY <2>1, <3>1, <3>2
  <2>2. ASSUME NEW x \in wire
        PROVE  /\ x.id <= serial[x.pair]
               /\ \A g \in events' : g.pair = x.pair /\ g.id = x.id
                                       => g.type = x.type /\ g.rev = x.rev /\ g.active = x.active
    BY <1>5 DEF Ordered, Copied
  <2>3. \A p \in Pairs : applied[p] <= serial[p]
    BY DEF Ordered, Copied, Db
  <2> QED  BY <2>1, <2>2, <2>3 DEF Copied, Copy, Db
<1>8. Rested(Db, Gone(users))'
  <2>1. ASSUME NEW g \in events', Removal(g), g.pair[1] \in paired  PROVE g.pair[2] \in Gone(users)
    <3>1. CASE g = m
      <4>1. Removal(e)
        BY <1>0, <2>1, <3>1 DEF Removal, Same
      <4> QED  BY <1>0, <2>1, <3>1, <4>1 DEF Ordered, Rested, Db
    <3>2. CASE g # m
      BY <2>1, <3>2 DEF Ordered, Rested, Db
    <3> QED  BY <3>1, <3>2
  <2>2. ASSUME NEW p \in Pairs, p[2] \in Gone(users)  PROVE ~state'[p].active
    BY <2>2 DEF Ordered, Rested, Db
  <2>3. Gone(users') = Gone(users)
    OBVIOUS
  <2> QED  BY <2>1, <2>2, <2>3 DEF Rested, Db
<1> QED  BY <1>2, <1>7, <1>8 DEF Ordered

\* The same, when the row stays and the fence stays or goes.
LEMMA EditInPlace ==
    ASSUME TypeOK, Sealed(Db), Ordered, NEW e \in events, NEW m \in Event, Same(e, m),
           events' = (events \ {e}) \cup {m}, e.pair[1] \in paired => (Open(m) => Open(e)),
           UNCHANGED <<state, serial, users, paired, restores, remote, applied, wire>>,
           \A d \in Dispatchers :
              Busy(d)' => (Busy(d) /\ disp'[d].ev = disp[d].ev) \/ disp'[d].ev = m,
           \A p \in Pairs : p # e.pair => fence'[p] = fence[p],
           fence'[e.pair] = NoFence \/ (fence'[e.pair] = fence[e.pair] /\ m.token = e.token),
           e.pair[1] \in paired => Edits(Of(events, e.pair), e, m),
           Handed'
    PROVE  Ordered'
<1> DEFINE q == e.pair
           S == Of(events, q)
<1>0. e \in S /\ q \in Pairs /\ S \in SUBSET Event
  BY DEF Of, TypeOK, Event
<1>1. ASSUME q[1] \in paired
      PROVE  Tidy(state[q], (S \ {e}) \cup {m}, fence'[q], applied[q], remote[q], restores = 0)
  <2>1. /\ state[q] \in Row /\ applied[q] \in Nat /\ (restores = 0) \in BOOLEAN
        /\ Tidy(state[q], S, fence[q], applied[q], remote[q], restores = 0)
    BY <1>0, <1>1 DEF TypeOK, Ordered, Orderly, Db
  <2>2. PICK g2 : g2 = fence'[q]
    OBVIOUS
  <2>3. g2 = NoFence \/ (g2 = fence[q] /\ m.token = e.token)
    BY <2>2
  <2>4. Edits(S, e, m)
    BY <1>1
  <2> HIDE DEF S, q
  <2>5. Tidy(state[q], (S \ {e}) \cup {m}, g2, applied[q], remote[q], restores = 0)
    BY <1>0, <2>1, <2>3, <2>4, EditTidy
  <2> QED  BY <2>2, <2>5
<1>2. q[1] \notin paired => state[q] = NoRow
  BY <1>0 DEF Ordered, Orderly, Db
<1> QED  BY <1>1, <1>2, EditOrdered

\* ClaimDueSyncEvents takes the oldest work that waits.
LEMMA ClaimOrdered ==
    ASSUME TypeOK, Sealed(Db), Ordered, NEW d \in Dispatchers, Claim(d)
    PROVE  Ordered'
<1>1. PICK e \in events, m \in Event :
        /\ Due(e) /\ Claims(e, m)
        /\ events' = (events \ {e}) \cup {m}
        /\ disp'[d].pc = "claimed" /\ disp'[d].ev = m
        /\ \A c \in Dispatchers : c # d => disp'[c] = disp[c]
  BY ClaimFacts
<1>2. UNCHANGED <<state, serial, users, paired, restores, remote, applied, wire, fence>>
  BY Groups DEF Claim
<1>3. /\ e \in Event /\ e.pair \in Pairs /\ Same(e, m) /\ m.status = e.status /\ m.attempts = e.attempts
      /\ m.token \in Tokens /\ e.status = "pending" /\ e.attempts < AttemptLimit
      /\ fence[e.pair] = NoFence
  BY <1>1 DEF Claims, Same, Due, TypeOK, Event
<1>4. Open(m) => Open(e)
  BY <1>3 DEF Open, Carries, Same
<1>5. ASSUME e.pair[1] \in paired  PROVE Edits(Of(events, e.pair), e, m)
  <2>1. ASSUME NEW g \in Of(events, e.pair), Waiting(g)  PROVE e.id <= g.id
    <3>1. g \in events /\ g.pair = e.pair /\ g.status = "pending" /\ g.id \in Nat /\ e.id \in Nat
      BY <1>3, <2>1 DEF Of, Waiting, TypeOK, Event
    <3>2. g.attempts < AttemptLimit
      BY <1>3, <1>5, <2>1, <3>1 DEF Ordered, Orderly, Db, Tidy, Leased
    <3> QED  BY <1>1, <3>1, <3>2 DEF Due
  <2> QED  BY <1>3, <2>1 DEF Edits
<1>6. Handed'
  <2>1. ASSUME NEW c \in Dispatchers, Busy(c)'
        PROVE  LET x == disp'[c].ev IN
               /\ x.attempts < AttemptLimit
               /\ fence[x.pair].token = x.token => fence[x.pair].id = x.id
    <3>1. CASE c = d
      <4>1. fence[m.pair].token = NoToken
        BY <1>3 DEF Same, NoFence
      <4> QED  BY <1>1, <1>3, <3>1, <4>1, TokenAssumption
    <3>2. CASE c # d
      BY <1>1, <2>1, <3>2 DEF Busy, Ordered, Handed
    <3> QED  BY <3>1, <3>2
  <2>2. \A c \in Dispatchers : disp'[c].pc = "acked" => disp'[c] = disp[c]
    BY <1>1
  <2> QED  BY <1>2, <2>1, <2>2 DEF Ordered, Handed
<1>7. \A c \in Dispatchers :
         Busy(c)' => (Busy(c) /\ disp'[c].ev = disp[c].ev) \/ disp'[c].ev = m
  BY <1>1 DEF Busy
<1>8. /\ \A p \in Pairs : p # e.pair => fence'[p] = fence[p]
      /\ fence'[e.pair] = NoFence
  BY <1>2, <1>3
<1> QED  BY <1>1, <1>2, <1>3, <1>4, <1>5, <1>6, <1>7, <1>8, EditInPlace

\* BeginSyncDelivery writes the fence for a claim that still stands.
LEMMA BeginOrdered ==
    ASSUME TypeOK, FenceInv, Ordered, NEW d \in Dispatchers, Begin(d)
    PROVE  Ordered'
<1> DEFINE ev == disp[d].ev
           q == ev.pair
<1>0. disp[d].pc = "claimed" /\ Busy(d) /\ ev \in Event /\ q \in Pairs /\ ev.token \in Tokens
  BY DispatcherMoves DEF Begin, FenceInv, TokensReal
<1>1. /\ UNCHANGED <<state, events, serial, users, paired, restores, remote, applied, wire>>
      /\ Step(d, "begun")
  BY Groups DEF Begin
<1>2. /\ \A p \in Pairs : p # q => fence'[p] = fence[p]
      /\ fence'[q] = [token |-> ev.token, id |-> ev.id]
  BY <1>0 DEF Begin, TypeOK
<1>3. /\ \A c \in Dispatchers : c # d => disp'[c] = disp[c]
      /\ disp'[d].pc = "begun" /\ disp'[d].ev = ev
      /\ \A c \in Dispatchers : Busy(c)' <=> Busy(c)
      /\ \A c \in Dispatchers : Busy(c) => disp'[c].ev = disp[c].ev
  BY <1>0, <1>1, StepFacts DEF DispatcherPc
<1>4. PICK e \in events : e.pair = q /\ e.id = ev.id /\ e.token = ev.token
  BY DEF Begin, MayBegin, ClaimValid
<1>5. Orderly(Db)'
  <2>1. ASSUME NEW p \in Pairs, p[1] \in paired
        PROVE  Tidy(state[p], Of(events, p), fence'[p], applied[p], remote[p], restores = 0)
    <3>1. Tidy(state[p], Of(events, p), fence[p], applied[p], remote[p], restores = 0)
      BY <2>1 DEF Ordered, Orderly, Db
    <3>2. CASE p # q
      BY <1>2, <3>1, <3>2
    <3>3. CASE p = q
      <4>1. Owned(Of(events, p), fence'[p])
        BY <1>0, <1>2, <1>4, <3>3, TokenAssumption DEF Owned, Of
      <4> QED  BY <3>1, <4>1 DEF Tidy
    <3> QED  BY <3>2, <3>3
  <2> QED  BY <1>1, <2>1 DEF Ordered, Orderly, Db
<1>6. Copied(Db)'
  BY <1>1, <1>3 DEF Ordered, Copied, Copy, Db
<1>7. Rested(Db, Gone(users))'
  BY <1>1 DEF Ordered, Rested, Db
<1>8. Handed'
  <2>1. ASSUME NEW c \in Dispatchers, Busy(c)'
        PROVE  LET x == disp'[c].ev IN
               /\ x.attempts < AttemptLimit
               /\ fence'[x.pair].token = x.token => fence'[x.pair].id = x.id
    <3>1. Busy(c) /\ disp'[c].ev = disp[c].ev /\ disp[c].ev.pair \in Pairs
      BY <1>3, <2>1, DispatcherMoves
    <3>2. CASE disp[c].ev.pair # q
      BY <1>2, <3>1, <3>2 DEF Ordered, Handed
    <3>3. CASE disp[c].ev.pair = q
      <4>1. disp[c].ev.token = ev.token => c = d
        BY <1>0, <3>1 DEF FenceInv, TokensDistinct
      <4> QED  BY <1>2, <3>1, <3>3, <4>1 DEF Ordered, Handed
    <3> QED  BY <3>2, <3>3
  <2>2. ASSUME NEW w \in wire, fence'[w.pair].token = w.token  PROVE fence'[w.pair].id = w.id
    <3>1. w.pair \in Pairs
      BY DEF TypeOK, Event
    <3>2. CASE w.pair # q
      BY <1>2, <2>2, <3>1, <3>2 DEF Ordered, Handed
    <3>3. CASE w.pair = q
      <4>1. w.token = ev.token
        BY <1>2, <2>2, <3>3
      <4> QED  BY <1>0, <4>1 DEF FenceInv, WriterWaits
    <3> QED  BY <3>2, <3>3
  <2>3. ASSUME NEW c \in Dispatchers, disp'[c].pc = "acked",
               LET x == disp'[c].ev IN
               x.pair[1] \in paired /\ fence'[x.pair].token = x.token /\ Carries(x) /\ ~x.active
        PROVE  remote[disp'[c].ev.pair] # "active"
    <3>1. c # d /\ disp'[c] = disp[c] /\ Busy(c) /\ disp[c].ev.pair \in Pairs
      BY <1>3, <2>3, DispatcherMoves DEF Busy, Idle
    <3>2. disp[c].ev.pair # q
      BY <1>0, <1>2, <2>3, <3>1 DEF FenceInv, TokensDistinct
    <3> QED  BY <1>2, <2>3, <3>1, <3>2 DEF Ordered, Handed
  <2> QED  BY <1>1, <2>1, <2>2, <2>3 DEF Handed
<1> QED  BY <1>5, <1>6, <1>7, <1>8 DEF Ordered

\* deliver and deliverSCIM send a copy of the claimed event.
LEMMA SendOrdered ==
    ASSUME TypeOK, Ordered, NEW d \in Dispatchers, Send(d)
    PROVE  Ordered'
<1> DEFINE ev == disp[d].ev
<1>0. disp[d].pc = "begun" /\ Busy(d)
  BY DispatcherMoves DEF Send
<1>1. /\ UNCHANGED <<state, events, serial, users, paired, restores, remote, applied, fence>>
      /\ Step(d, "sent") /\ wire' = wire \cup {ev}
  BY Groups DEF Send
<1>2. /\ \A c \in Dispatchers : c # d => disp'[c] = disp[c]
      /\ disp'[d].pc = "sent" /\ disp'[d].ev = ev
      /\ \A c \in Dispatchers : Busy(c)' <=> Busy(c)
      /\ \A c \in Dispatchers : Busy(c) => disp'[c].ev = disp[c].ev
  BY <1>0, <1>1, StepFacts DEF DispatcherPc
<1>3. Orderly(Db)' /\ Rested(Db, Gone(users))'
  BY <1>1 DEF Ordered, Orderly, Rested, Db
<1>4. Copied(Db)'
  BY <1>0, <1>1, <1>2 DEF Ordered, Copied, Copy, Db
<1>5. Handed'
  <2>1. \A c \in Dispatchers : disp'[c].pc = "acked" => disp'[c] = disp[c]
    BY <1>2
  <2> QED  BY <1>0, <1>1, <1>2, <2>1 DEF Ordered, Handed
<1> QED  BY <1>3, <1>4, <1>5 DEF Ordered

\* FinishSyncDelivery.
LEMMA FinishOrdered ==
    ASSUME TypeOK, TypeOK', FenceInv, Sealed(Db), Ordered, NEW d \in Dispatchers, Finish(d)
    PROVE  Ordered'
<1> DEFINE ev == disp[d].ev
           q == ev.pair
           out == Outcome(disp[d].pc, ev.attempts)
           mine == {e \in events : e.pair = ev.pair /\ e.id = ev.id /\ e.token = ev.token}
           g(e) == [e EXCEPT !.status = out.status, !.attempts = out.attempts,
                             !.leased = FALSE, !.token = NoToken]
<1>0. /\ disp[d].pc \in Known /\ Busy(d) /\ ev \in Event /\ q \in Pairs /\ ev.token \in Tokens
      /\ ev.attempts \in Nat /\ ev.attempts < AttemptLimit /\ Copy(Db, ev) /\ Drop(d)
      /\ fence[q].token = ev.token => fence[q].id = ev.id
  <2>1. disp[d].pc \in Known /\ Drop(d) /\ Busy(d)
    BY DispatcherMoves DEF Finish, Known
  <2> QED  BY <2>1, DispatcherMoves DEF FenceInv, TokensReal, Ordered, Copied, Handed, Event
<1>1. UNCHANGED <<serial, users, paired, restores, remote, applied, wire>>
  BY Groups DEF Finish
<1>2. /\ HandsOver
      /\ \A c \in Dispatchers : disp'[c].pc = "acked" => disp[c].pc = "acked"
      /\ \A c \in Dispatchers : c # d => disp'[c] = disp[c]
  <2>1. HandsOver
    BY <1>0, QuietMoves DEF HandsOver
  <2> QED  BY <1>0, <2>1 DEF Drop, TypeOK, Idle
<1>3. CASE fence[q].token # ev.token
  <2>1. UNCHANGED <<fence, events, state>>
    BY <1>3 DEF Finish
  <2> QED  BY <1>1, <1>2, <2>1, OrderedStays
<1>4. CASE fence[q].token = ev.token
  <2>1. /\ fence' = [fence EXCEPT ![q] = NoFence]
        /\ events' = (events \ mine) \cup {g(e) : e \in mine}
        /\ state' = IF out.status = "delivered"
                    THEN [state EXCEPT ![q] = Acknowledge(@, ev)] ELSE state
    BY <1>4 DEF Finish
  <2>2. /\ fence'[q] = NoFence /\ \A p \in Pairs : p # q => fence'[p] = fence[p]
        /\ \A p \in Pairs : p # q => state'[p] = state[p]
        /\ state'[q] = IF out.status = "delivered" THEN Acknowledge(state[q], ev) ELSE state[q]
    BY <1>0, <2>1 DEF TypeOK
  <2>3. q[1] \notin paired => state' = state /\ state[q] = NoRow
    <3>1. q[1] \notin paired => state[q] = NoRow
      BY <1>0 DEF Ordered, Orderly, Db
    <3>2. q[1] \notin paired => state'[q] = state[q]
      BY <2>2, <3>1 DEF Acknowledge, NoRow
    <3> QED  BY <2>2, <3>1, <3>2 DEF TypeOK
  <2>4. Handed'
    BY <1>1, <1>2, <2>2, HandedStays
  <2>5. ASSUME q[1] \in paired  PROVE \E e \in mine : Same(ev, e) /\ e.status = "pending"
    <3>1. PICK e \in Of(events, q) : Same(ev, e) /\ e.token = ev.token
      BY <1>0, <1>4, <2>5, FencedEvent
    <3>2. e \in mine
      BY <3>1 DEF Of, Same
    <3>3. Leased(Of(events, q))
      BY <1>0, <2>5 DEF Ordered, Orderly, Db, Tidy
    <3> QED  BY <1>0, <3>1, <3>2, <3>3, TokenAssumption DEF Leased
  <2>6. CASE mine = {}
    <3>1. events' = events /\ state' = state
      BY <2>1, <2>3, <2>5, <2>6
    <3> HIDE DEF mine, g
    <3> QED  BY <1>1, <1>2, <2>2, <3>1, OrderedStays
  <2>7. ASSUME NEW e \in mine  PROVE Ordered'
    <3>1. /\ e \in events /\ e \in Event /\ e.pair = q /\ e.id = ev.id /\ e.token = ev.token
          /\ e.token # NoToken
      BY <1>0, TokenAssumption DEF TypeOK
    <3>2. mine = {e}
      BY <3>1 DEF Sealed, Db
    <3>3. PICK m : m = g(e)
      OBVIOUS
    <3>4. out.status \in {"pending", "failed", "delivered"} /\ out.attempts \in Nat
      BY <1>0, OutcomeType
    <3>5. m \in Event
      <4> HIDE DEF out
      <4> QED  BY <3>1, <3>3, <3>4, EventEdits
    <3>6. Same(e, m) /\ m.status = out.status /\ m.attempts = out.attempts /\ m.token = NoToken
      <4> HIDE DEF out
      <4> QED  BY <3>1, <3>3 DEF Same, Event
    <3>7. events' = (events \ {e}) \cup {m}
      BY <2>1, <3>2, <3>3
    <3>8. Same(ev, e)
      BY <1>0, <3>1 DEF Copy, Db, Same
    <3>9. q[1] \in paired => e.status = "pending"
      BY <2>5, <3>2
    <3>10. /\ out.status = "pending" => out.attempts < AttemptLimit
           /\ out.status = "delivered" => disp[d].pc = "acked"
      BY <1>0, LimitAssumption DEF Outcome, Known
    <3> HIDE DEF mine, g, out
    <3>11. CASE ~(q[1] \in paired /\ Carries(e) /\ out.status = "delivered")
      <4>1. state' = state
        <5>1. Acknowledge(state[q], ev) = state[q] \/ q[1] \notin paired \/ out.status # "delivered"
          BY <3>8, <3>11 DEF Acknowledge, Carries, Same
        <5> QED  BY <1>0, <2>2, <2>3, <5>1 DEF TypeOK
      <4>2. e.pair[1] \in paired => Edits(Of(events, e.pair), e, m)
        BY <3>1, <3>4, <3>6, <3>9, <3>10, <3>11 DEF Edits
      <4>3. e.pair[1] \in paired => (Open(m) => Open(e))
        BY <3>1, <3>6, <3>9 DEF Open, Carries, Same
      <4>4. UNCHANGED <<state, serial, users, paired, restores, remote, applied, wire>>
        BY <1>1, <4>1
      <4>5. /\ \A p \in Pairs : p # e.pair => fence'[p] = fence[p]
            /\ fence'[e.pair] = NoFence
        BY <2>2, <3>1
      <4>6. \A c \in Dispatchers :
               Busy(c)' => (Busy(c) /\ disp'[c].ev = disp[c].ev) \/ disp'[c].ev = m
        BY <1>2 DEF HandsOver
      <4> QED  BY <2>4, <3>1, <3>5, <3>6, <3>7, <4>2, <4>3, <4>4, <4>5, <4>6, EditInPlace
    <3>12. CASE q[1] \in paired /\ Carries(e) /\ out.status = "delivered"
      <4> DEFINE S == Of(events, q)
      <4>1. /\ state[q] \in Row /\ S \in SUBSET Event /\ applied[q] \in Nat
            /\ (restores = 0) \in BOOLEAN /\ e \in S
            /\ Tidy(state[q], S, fence[q], applied[q], remote[q], restores = 0)
        BY <1>0, <3>1, <3>12 DEF TypeOK, Of, Ordered, Orderly, Db
      <4>2. \A x, y \in S : x.id = y.id => x = y
        BY DEF Sealed, Db, Of
      <4>3. ~e.active => remote[q] # "active"
        <5>1. disp[d].pc = "acked" /\ ev.active = e.active /\ Carries(ev)
          BY <3>8, <3>10, <3>12 DEF Same, Carries
        <5> QED  BY <1>4, <3>12, <5>1 DEF Ordered, Handed
      <4>4. m.status = "delivered"
        BY <3>6, <3>12
      <4> HIDE DEF S, q, ev
      <4>5. Tidy(Acknowledge(state[q], e), (S \ {e}) \cup {m}, NoFence, applied[q], remote[q],
                 restores = 0)
        BY <3>1, <3>5, <3>6, <3>12, <4>1, <4>2, <4>3, <4>4, AckTidy
      <4>6. Acknowledge(state[q], e) = Acknowledge(state[q], ev)
        BY <3>8 DEF Acknowledge, Same
      <4>7. state'[q] = Acknowledge(state[q], e)
        BY <2>2, <3>12, <4>6
      <4>8. state'[q].active = state[q].active
        BY <4>1, <4>7 DEF Acknowledge, Row
      <4>9. e.pair = q /\ q[1] \in paired /\ fence'[q] = NoFence /\ (Open(m) => Open(e))
        BY <2>2, <3>1, <3>12, <4>4 DEF Open
      <4>10. Tidy(state'[q], (S \ {e}) \cup {m}, fence'[q], applied[q], remote[q], restores = 0)
        BY <4>5, <4>7, <4>9
      <4>11. \A p \in Pairs : p # e.pair => state'[p] = state[p] /\ fence'[p] = fence[p]
        BY <2>2, <4>9
      <4>12. \A c \in Dispatchers :
               Busy(c)' => (Busy(c) /\ disp'[c].ev = disp[c].ev) \/ disp'[c].ev = m
        BY <1>2 DEF HandsOver
      <4> QED  BY <1>1, <2>4, <3>1, <3>5, <3>6, <3>7, <4>8, <4>9, <4>10, <4>11, <4>12, EditOrdered DEF S
    <3> QED  BY <3>11, <3>12
  <2> QED  BY <2>6, <2>7
<1> QED  BY <1>3, <1>4

\* Every step of a dispatcher keeps the order, and no write that lands is older than the last.
LEMMA DispatcherStepOrdered ==
    ASSUME TypeOK, TypeOK', FenceInv, Sealed(Db), Ordered, NEW d \in Dispatchers, DispatcherStep(d)
    PROVE  Ordered' /\ \A p \in Pairs : p[1] \in paired' => applied'[p] >= applied[p]
<1> DEFINE ev == disp[d].ev
<1>0. /\ disp[d].pc # "idle" <=> Busy(d)
      /\ Busy(d) => ev \in Event /\ ev.pair \in Pairs
      /\ \A p \in Pairs : applied[p] >= applied[p]
  BY DispatcherMoves DEF TypeOK
<1>1. CASE Claim(d)
  <2>1. applied' = applied
    BY <1>1, Groups DEF Claim
  <2> QED  BY <1>0, <1>1, <2>1, ClaimOrdered
<1>2. CASE Begin(d)
  <2>1. applied' = applied
    BY <1>2, Groups DEF Begin
  <2> QED  BY <1>0, <1>2, <2>1, BeginOrdered
<1>3. CASE Send(d)
  <2>1. applied' = applied
    BY <1>3 DEF Send
  <2> QED  BY <1>0, <1>3, <2>1, SendOrdered
<1>4. CASE Finish(d)
  <2>1. applied' = applied
    BY <1>4, Groups DEF Finish
  <2> QED  BY <1>0, <1>4, <2>1, FinishOrdered
<1>5. CASE BeginRefused(d) \/ MarkUncertain(d) \/ Crash(d) \/ FindRemote(d)
  <2>1. Drop(d) \/ UNCHANGED disp
    BY <1>5 DEF BeginRefused, MarkUncertain, Crash, FindRemote
  <2>2. UNCHANGED <<state, events, serial, users, paired, restores, remote, applied, wire, fence>>
    BY <1>5, Groups DEF BeginRefused, MarkUncertain, Crash, FindRemote
  <2>3. HandsOver
    BY <2>1, QuietMoves DEF HandsOver
  <2>4. \A c \in Dispatchers : disp'[c].pc = "acked" => disp[c].pc = "acked"
    <3>1. CASE Drop(d)
      <4>1. \A c \in Dispatchers : disp'[c] = IF c = d THEN Idle ELSE disp[c]
        BY <3>1 DEF Drop, TypeOK
      <4> QED  BY <4>1 DEF Idle
    <3>2. CASE UNCHANGED disp
      BY <3>2
    <3> QED  BY <2>1, <3>1, <3>2
  <2> QED  BY <1>0, <2>2, <2>3, <2>4, OrderedStays
<1>6. ASSUME NEW pc \in DispatcherPc \ {"idle"}, Step(d, pc), Busy(d)
      PROVE  /\ HandsOver /\ disp'[d].pc = pc
             /\ \A c \in Dispatchers : c # d => disp'[c] = disp[c]
  BY <1>6, StepFacts DEF HandsOver
<1>7. CASE LoadSystem(d) \/ Refuse(d) \/ LoseAnswer(d)
  <2>1. PICK pc \in {"missing", "unread", "rejected", "uncertain"} : Step(d, pc)
    BY <1>7 DEF LoadSystem, Refuse, LoseAnswer
  <2>2. Busy(d)
    BY <1>0, <1>7 DEF LoadSystem, Refuse, LoseAnswer, Awaiting
  <2>3. /\ UNCHANGED <<state, events, serial, users, paired, restores, remote, applied, fence>>
        /\ wire' \subseteq wire
    BY <1>7, Groups DEF LoadSystem, Refuse, LoseAnswer
  <2>4. HandsOver /\ \A c \in Dispatchers : disp'[c].pc = "acked" => disp[c].pc = "acked"
    BY <1>6, <2>1, <2>2 DEF DispatcherPc, Known
  <2> QED  BY <1>0, <2>3, <2>4, OrderedStays
<1>8. CASE SkipWrite(d) \/ Conflict(d)
  <2>1. Busy(d) /\ Step(d, "acked")
    BY <1>0, <1>8 DEF SkipWrite, Conflict, Awaiting
  <2>2. /\ UNCHANGED <<state, events, serial, users, paired, restores, remote, applied, fence>>
        /\ wire' \subseteq wire
    BY <1>8, Groups DEF SkipWrite, Conflict
  <2>3. Served(ev)
    <3>1. CASE SkipWrite(d)
      BY <3>1 DEF SkipWrite, NothingToSend, Served, Carries
    <3>2. CASE Conflict(d)
      <4>1. ASSUME ev.pair[1] \in paired, fence[ev.pair].token = ev.token  PROVE ev.active
        <5>1. ev \in Event /\ ev.token \in Tokens /\ Copy(Db, ev) /\ fence[ev.pair].id = ev.id
          BY <1>0, <2>1, <4>1 DEF FenceInv, TokensReal, Ordered, Copied, Handed
        <5>2. PICK e \in Of(events, ev.pair) : Same(ev, e)
          BY <4>1, <5>1, FencedEvent
        <5>3. Described(state[ev.pair], Of(events, ev.pair))
          BY <1>0, <2>1, <4>1 DEF Ordered, Orderly, Tidy, Db
        <5>4. ev.type = "created"
          BY <3>2 DEF Conflict
        <5> QED  BY <5>2, <5>3, <5>4 DEF Described, Same
      <4> QED  BY <4>1 DEF Served
    <3> QED  BY <1>8, <3>1, <3>2
  <2>4. /\ HandsOver
        /\ \A c \in Dispatchers :
              disp'[c].pc = "acked" => disp[c].pc = "acked" \/ Served(disp[c].ev)
    BY <1>6, <2>1, <2>3 DEF DispatcherPc, Known
  <2> QED  BY <1>0, <2>2, <2>4, OrderedStays
<1>9. CASE Accept(d) \/ AcceptUnusable(d)
  <2>1. ev \in wire /\ Lands(ev) /\ Busy(d)
    BY <1>0, <1>9 DEF Accept, AcceptUnusable, Awaiting
  <2>2. PICK pc \in {"acked", "rejected"} : Step(d, pc)
    BY <1>9 DEF Accept, AcceptUnusable
  <2>3. UNCHANGED <<state, events, serial, users, paired, restores, fence>>
    BY <1>9, Groups DEF Accept, AcceptUnusable
  <2>4. /\ HandsOver
        /\ \A c \in Dispatchers : disp'[c].pc = "acked" => disp[c].pc = "acked" \/ disp[c].ev = ev
    BY <1>6, <2>1, <2>2 DEF DispatcherPc, Known
  <2>5. Ordered' /\ \A p \in Pairs : p[1] \in paired => applied'[p] >= applied[p]
    BY <2>1, <2>3, <2>4, LandsOrdered
  <2> QED  BY <2>3, <2>5
<1> QED  BY <1>1, <1>2, <1>3, <1>4, <1>5, <1>7, <1>8, <1>9 DEF DispatcherStep

\* ResumeSyncDelivery queues the fence's event afresh.
LEMMA ResumeOrdered ==
    ASSUME TypeOK, TypeOK', FenceInv, Sealed(Db), Ordered, NEW q \in Pairs, ResumeSyncDelivery(q)
    PROVE  Ordered'
<1> DEFINE its == {e \in events : e.pair = q /\ e.id = fence[q].id}
           g(e) == [e EXCEPT !.status = "pending", !.attempts = 0, !.leased = FALSE,
                             !.token = NoToken]
<1>1. /\ events' = (events \ its) \cup {g(e) : e \in its} /\ fence' = [fence EXCEPT ![q] = NoFence]
      /\ UNCHANGED <<state, serial, users, paired, restores, remote, applied, wire, disp>>
      /\ fence[q] # NoFence
  BY Groups DEF ResumeSyncDelivery
<1>2. fence'[q] = NoFence /\ \A p \in Pairs : p # q => fence'[p] = fence[p]
  BY <1>1 DEF TypeOK
<1>3. /\ HandsOver
      /\ \A c \in Dispatchers : disp'[c].pc = "acked" => disp[c].pc = "acked"
  BY <1>1 DEF HandsOver, Busy
<1>4. CASE its = {}
  <2>1. events' = events
    BY <1>1, <1>4
  <2> HIDE DEF its, g
  <2> QED  BY <1>1, <1>2, <1>3, <2>1, OrderedStays
<1>5. ASSUME NEW e \in its  PROVE Ordered'
  <2>1. e \in events /\ e \in Event /\ e.pair = q /\ e.id = fence[q].id
    BY DEF TypeOK
  <2>2. its = {e}
    BY <2>1 DEF Sealed, Db
  <2>3. PICK m : m = g(e)
    OBVIOUS
  <2>4. m \in Event
    BY <2>1, <2>3, EventEdits
  <2>5. Same(e, m) /\ m.status = "pending" /\ m.attempts = 0 /\ m.token = NoToken
    BY <2>1, <2>3 DEF Same, Event
  <2>6. events' = (events \ {e}) \cup {m}
    BY <1>1, <2>2, <2>3
  <2>7. ASSUME q[1] \in paired  PROVE e.status = "pending"
    <3>1. Owned(Of(events, q), fence[q]) /\ Leased(Of(events, q))
      BY <2>7 DEF Ordered, Orderly, Db, Tidy
    <3>2. PICK x \in Of(events, q) : x.id = fence[q].id /\ x.token # NoToken
      BY <1>1, <3>1 DEF Owned
    <3>3. x = e
      BY <2>1, <3>2 DEF Of, Sealed, Db
    <3> QED  BY <3>1, <3>2, <3>3 DEF Leased
  <2>8. q[1] \in paired => Edits(Of(events, q), e, m) /\ (Open(m) => Open(e))
    BY <2>5, <2>7, LimitAssumption DEF Edits, Open, Carries, Same
  <2>9. Handed'
    BY <1>1, <1>2, <1>3, HandedStays
  <2>10. \A c \in Dispatchers :
           Busy(c)' => (Busy(c) /\ disp'[c].ev = disp[c].ev) \/ disp'[c].ev = m
    BY <1>3 DEF HandsOver
  <2> HIDE DEF its, g
  <2> QED  BY <1>1, <1>2, <2>1, <2>4, <2>5, <2>6, <2>8, <2>9, <2>10, EditInPlace
<1> QED  BY <1>4, <1>5

\* A lease runs out; delivered work is pruned.
LEMMA LeaseOrdered ==
    ASSUME TypeOK, TypeOK', FenceInv, Sealed(Db), Ordered, NEW e \in events, LeaseExpires(e)
    PROVE  Ordered'
<1>1. PICK m : m = [e EXCEPT !.leased = FALSE]
  OBVIOUS
<1>2. e \in Event /\ m \in Event
  BY <1>1, EventEdits DEF TypeOK
<1>3. Same(e, m) /\ m.status = e.status /\ m.attempts = e.attempts /\ m.token = e.token
  BY <1>1, <1>2 DEF Same, Event
<1>4. /\ events' = (events \ {e}) \cup {m}
      /\ UNCHANGED <<state, serial, users, paired, restores, remote, applied, wire, disp, fence>>
  BY <1>1, Groups DEF LeaseExpires
<1>5. ASSUME e.pair[1] \in paired  PROVE Edits(Of(events, e.pair), e, m)
  <2>1. e.pair \in Pairs /\ e \in Of(events, e.pair)
    BY <1>2 DEF Event, Of
  <2>2. Leased(Of(events, e.pair))
    BY <1>5, <2>1 DEF Ordered, Orderly, Db, Tidy
  <2> QED  BY <1>3, <2>1, <2>2 DEF Edits, Leased
<1>6. HandsOver /\ Handed'
  BY <1>4 DEF HandsOver, Busy, Ordered, Handed
<1>7. Open(m) => Open(e)
  BY <1>3 DEF Open, Carries, Same
<1>8. \A c \in Dispatchers :
         Busy(c)' => (Busy(c) /\ disp'[c].ev = disp[c].ev) \/ disp'[c].ev = m
  BY <1>6 DEF HandsOver
<1>9. /\ \A p \in Pairs : p # e.pair => fence'[p] = fence[p]
      /\ fence'[e.pair] = fence[e.pair] /\ m.token = e.token
  BY <1>3, <1>4
<1> QED  BY <1>2, <1>3, <1>4, <1>5, <1>6, <1>7, <1>8, <1>9, EditInPlace

LEMMA PruneOrdered ==
    ASSUME TypeOK, Ordered, NEW e \in events, Prune(e)
    PROVE  Ordered'
<1>1. /\ events' = events \ {e} /\ e.status = "delivered" /\ e \in Event /\ e.pair \in Pairs
      /\ UNCHANGED <<state, serial, users, paired, restores, remote, applied, wire, disp, fence>>
  BY Groups DEF Prune, TypeOK, Event
<1>2. ASSUME NEW p \in Pairs, p[1] \in paired
      PROVE  Tidy(state[p], Of(events', p), fence[p], applied[p], remote[p], restores = 0)
  <2> DEFINE S == Of(events, p)
  <2>1. /\ state[p] \in Row /\ applied[p] \in Nat /\ (restores = 0) \in BOOLEAN
        /\ S \in SUBSET Event /\ Tidy(state[p], S, fence[p], applied[p], remote[p], restores = 0)
    BY <1>2 DEF TypeOK, Ordered, Orderly, Db, Of
  <2>2. CASE p # e.pair
    <3>1. Of(events', p) = S
      BY <1>1, <2>2 DEF Of
    <3> QED  BY <2>1, <3>1
  <2>3. CASE p = e.pair
    <3>1. Of(events', p) = S \ {e} /\ e \in S
      BY <1>1, <2>3 DEF Of
    <3> HIDE DEF S
    <3>2. Tidy(state[p], S \ {e}, fence[p], applied[p], remote[p], restores = 0)
      BY <1>1, <2>1, <3>1, PruneTidy
    <3> QED  BY <3>1, <3>2
  <2> QED  BY <2>2, <2>3
<1>3. Orderly(Db)'
  BY <1>1, <1>2 DEF Ordered, Orderly, Db
<1>4. Copied(Db)'
  BY <1>1 DEF Ordered, Copied, Copy, Db, Busy
<1>5. Rested(Db, Gone(users))' /\ Handed'
  BY <1>1 DEF Ordered, Rested, Db, Handed, Busy
<1> QED  BY <1>3, <1>4, <1>5 DEF Ordered

\* DeletePairedSystem forgets the rows and fences of a system, whose events stay.
LEMMA UnpairOrdered ==
    ASSUME TypeOK, TypeOK', FenceInv, Ordered, NEW s \in Systems, DeletePairedSystem(s)
    PROVE  Ordered'
<1>1. /\ UNCHANGED <<users, events, serial, disp, wire, remote, applied, restores>>
      /\ paired' = paired \ {s}
      /\ \A p \in Pairs : state'[p] = IF p[1] = s THEN NoRow ELSE state[p]
      /\ \A p \in Pairs : fence'[p] = IF p[1] = s THEN NoFence ELSE fence[p]
  BY Groups DEF DeletePairedSystem
<1>2. Orderly(Db)'
  BY <1>1 DEF Ordered, Orderly, Db
<1>3. Copied(Db)'
  BY <1>1 DEF Ordered, Copied, Copy, Db, Busy
<1>4. Rested(Db, Gone(users))'
  BY <1>1 DEF Ordered, Rested, Db, NoRow
<1>5. ASSUME NEW x \in Event, x.token \in Tokens, fence'[x.pair].token = x.token
      PROVE  fence'[x.pair] = fence[x.pair]
  BY <1>1, <1>5, TokenAssumption DEF Event, NoFence
<1>6. Handed'
  <2>1. ASSUME NEW d \in Dispatchers, Busy(d)
        PROVE  disp[d].ev \in Event /\ disp[d].ev.token \in Tokens
    BY <2>1, DispatcherMoves DEF FenceInv, TokensReal
  <2>2. \A d \in Dispatchers : disp[d].pc = "acked" => Busy(d)
    BY DEF Busy, Idle
  <2>3. \A w \in wire : w \in Event /\ w.token \in Tokens
    BY DEF TypeOK, FenceInv, WriteOwnsFence
  <2>4. ASSUME NEW d \in Dispatchers, Busy(d)'
        PROVE  LET x == disp'[d].ev IN
               /\ x.attempts < AttemptLimit
               /\ fence'[x.pair].token = x.token => fence'[x.pair].id = x.id
    <3>1. Busy(d) /\ disp'[d] = disp[d]
      BY <1>1, <2>4 DEF Busy
    <3> QED  BY <1>5, <2>1, <3>1 DEF Ordered, Handed
  <2>5. ASSUME NEW w \in wire', fence'[w.pair].token = w.token  PROVE fence'[w.pair].id = w.id
    BY <1>1, <1>5, <2>3, <2>5 DEF Ordered, Handed
  <2>6. ASSUME NEW d \in Dispatchers, disp'[d].pc = "acked",
               LET x == disp'[d].ev IN
               x.pair[1] \in paired' /\ fence'[x.pair].token = x.token /\ Carries(x) /\ ~x.active
        PROVE  remote'[disp'[d].ev.pair] # "active"
    BY <1>1, <1>5, <2>1, <2>2, <2>6 DEF Ordered, Handed
  <2> QED  BY <2>4, <2>5, <2>6 DEF Handed
<1> QED  BY <1>2, <1>3, <1>4, <1>6 DEF Ordered

\* ApplyRestoredState closes the queue and starts with nothing in anybody's hands.
LEMMA RestoreOrdered ==
    ASSUME TypeOK, Ordered, ApplyRestoredState
    PROVE  Ordered'
<1> DEFINE open == {e \in events : e.status \in {"pending", "failed"} /\ e.rev # -1}
<1>1. /\ events' = (events \ open) \cup {Closed(e) : e \in open}
      /\ fence' = [p \in Pairs |-> NoFence] /\ disp' = [d \in Dispatchers |-> Idle]
      /\ wire' = {} /\ restores' = restores + 1
      /\ state' = [p \in Pairs |-> FromCapsule(state[p])]
      /\ UNCHANGED <<users, paired, serial, applied>>
  BY DEF ApplyRestoredState
<1>2. ASSUME NEW e \in open
      PROVE  /\ Closed(e) \in Event
             /\ Closed(e).pair = e.pair /\ Closed(e).id = e.id /\ Closed(e).type = e.type
             /\ Closed(e).active = e.active /\ Closed(e).rev = -1 /\ Closed(e).token = NoToken
             /\ Closed(e).status = "failed" /\ e \in events /\ e.status # "delivered"
  <2>1. e \in Event /\ e \in events /\ e.status # "delivered"
    BY DEF TypeOK
  <2>2. Closed(e) \in Event
    BY <2>1, EventEdits
  <2>3. /\ Closed(e).pair = e.pair /\ Closed(e).id = e.id /\ Closed(e).type = e.type
        /\ Closed(e).active = e.active /\ Closed(e).rev = -1 /\ Closed(e).token = NoToken
        /\ Closed(e).status = "failed"
    BY <2>1 DEF Event, Closed
  <2> QED  BY <2>1, <2>2, <2>3
<1> HIDE DEF open
<1>3. events' \subseteq Event
  BY <1>1, <1>2 DEF TypeOK
<1>4. ASSUME NEW g \in events', g \notin events
      PROVE  \E e \in events : /\ e.status # "delivered" /\ g.pair = e.pair /\ g.id = e.id
                               /\ g.type = e.type /\ g.active = e.active /\ g.rev = -1
                               /\ g.token = NoToken /\ g.status = "failed"
  BY <1>1, <1>2, <1>4
<1>5. ASSUME NEW p \in Pairs, p[1] \in paired
      PROVE  Tidy(FromCapsule(state[p]), Of(events', p), NoFence, applied[p], remote'[p], FALSE)
  <2> DEFINE S == Of(events, p)
             T == Of(events', p)
  <2>1. /\ state[p] \in Row /\ applied[p] \in Nat /\ S \in SUBSET Event /\ T \in SUBSET Event
        /\ Tidy(state[p], S, fence[p], applied[p], remote[p], restores = 0)
    BY <1>3, <1>5 DEF TypeOK, Ordered, Orderly, Db, Of
  <2>2. ASSUME NEW g \in T, g \notin S
        PROVE  \E e \in S :
                  /\ e.status # "delivered" /\ g.id = e.id /\ g.type = e.type /\ g.active = e.active
                  /\ g.rev = -1 /\ g.token = NoToken /\ g.status = "failed"
    BY <1>4, <2>2 DEF Of
  <2>3. PICK T2, rem2, row2 : /\ T2 = T /\ rem2 = remote'[p]
                              /\ row2 = FromCapsule(state[p]) /\ Returned(state[p], row2)
    BY <2>1, FromCapsuleRow
  <2> HIDE DEF S, T
  <2>4. Tidy(row2, T2, NoFence, applied[p], rem2, FALSE)
    BY <2>1, <2>2, <2>3, RestoreTidy
  <2> QED  BY <2>3, <2>4 DEF T
<1>6. Orderly(Db)'
  <2>1. (restores' = 0) = FALSE
    BY <1>1 DEF TypeOK
  <2>2. \A p \in Pairs : fence'[p] = NoFence
    BY <1>1
  <2>3. ASSUME NEW p \in Pairs, p[1] \in paired
        PROVE  Tidy(state'[p], Of(events', p), fence'[p], applied[p], remote'[p], restores' = 0)
    <3>1. state'[p] = FromCapsule(state[p])
      BY <1>1
    <3> QED  BY <1>5, <2>1, <2>2, <2>3, <3>1
  <2>4. ASSUME NEW p \in Pairs, p[1] \notin paired  PROVE state'[p] = NoRow
    <3>1. state[p] = NoRow
      BY <2>4 DEF Ordered, Orderly, Db
    <3> QED  BY <1>1, <3>1, NoRowType, FromCapsuleRow DEF Returned
  <2> QED  BY <1>1, <2>3, <2>4 DEF Orderly, Db
<1>7. \A d \in Dispatchers : ~Busy(d)' /\ disp'[d].pc # "acked"
  BY <1>1 DEF Busy, Idle
<1>8. Copied(Db)' /\ Handed'
  BY <1>1, <1>7 DEF Ordered, Copied, Db, Handed
<1>9. Rested(Db, Gone(users))'
  <2>2. \A p \in Pairs : state'[p].active = state[p].active
    BY <1>1, FromCapsuleRow DEF TypeOK, Returned
  <2>1. ASSUME NEW g \in events', Removal(g), g.pair[1] \in paired  PROVE g.pair[2] \in Gone(users)
    <3>1. \E e \in events : Removal(e) /\ e.pair = g.pair
      BY <1>4, <2>1 DEF Removal, Open, Carries
    <3> QED  BY <2>1, <3>1 DEF Ordered, Rested, Db
  <2> QED  BY <1>1, <2>1, <2>2 DEF Ordered, Rested, Db
<1> QED  BY <1>6, <1>8, <1>9 DEF Ordered

\* The initial state is tidy: nothing is desired, queued, sent or held.
LEMMA InitOrdered == Init => Ordered
<1> SUFFICES ASSUME Init  PROVE Ordered
  OBVIOUS
<1>1. /\ state = [p \in Pairs |-> NoRow] /\ events = {} /\ serial = [p \in Pairs |-> 0]
      /\ fence = [p \in Pairs |-> NoFence] /\ wire = {} /\ disp = [d \in Dispatchers |-> Idle]
      /\ applied = [p \in Pairs |-> 0]
  BY DEF Init
<1>2. ASSUME NEW p \in Pairs
      PROVE  Tidy(state[p], Of(events, p), fence[p], applied[p], remote[p], restores = 0)
  <2>1. state[p] = NoRow /\ Of(events, p) = {} /\ fence[p] = NoFence
    BY <1>1 DEF Of
  <2> QED  BY <2>1 DEF Tidy, Leased, Owned, Described, Newest, Ended, Kept, NoRow
<1>3. Orderly(Db)
  BY <1>1, <1>2 DEF Orderly, Db
<1>4. \A d \in Dispatchers : ~Busy(d) /\ disp[d].pc # "acked"
  BY <1>1 DEF Busy, Idle
<1>5. Copied(Db) /\ Handed
  BY <1>1, <1>4 DEF Copied, Db, Handed
<1>6. Rested(Db, Gone(users))
  BY <1>1 DEF Rested, Db, NoRow
<1> QED  BY <1>3, <1>5, <1>6 DEF Ordered

\* Of all steps, only a write that lands moves a target on, and never back.
LandInOrder == \A p \in Pairs : p[1] \in paired' => applied'[p] >= applied[p]

\* Every step keeps the order.
LEMMA NextOrdered ==
    ASSUME TypeOK, TypeOK', FenceInv, Quiet, Ordered, [Next]_vars
    PROVE  Ordered' /\ LandInOrder
<1>0. Sealed(Db) /\ (UNCHANGED applied => LandInOrder)
  BY DEF Quiet, TypeOK, LandInOrder
<1>1. CASE \/ \E u \in Users : UserStep(u)
           \/ \E s \in Systems : ResyncSystem(s)
           \/ \E p \in Pairs : ChangeAccess(p) \/ AccessDrifts(p)
           \/ ReconcileTick
  <2>1. Ordered'
    BY <1>0, <1>1, DirectoryOrdered
  <2>2. UNCHANGED applied
    BY <1>1, Groups DEF UserStep, CreateUser, UpdateUser, EndDatePasses, ExpireAccount,
       DeleteUser, ResetMFA, ResyncSystem, ChangeAccess, AccessDrifts, ReconcileTick
  <2> QED  BY <1>0, <2>1, <2>2
<1>2. ASSUME NEW s \in Systems, DeletePairedSystem(s)  PROVE Ordered' /\ LandInOrder
  <2>1. UNCHANGED applied
    BY <1>2, Groups DEF DeletePairedSystem
  <2> QED  BY <1>0, <1>2, <2>1, UnpairOrdered
<1>3. CASE UNCHANGED vars \/ \E s \in Systems : ResumeProvisioning(s)
  <2>1. UNCHANGED <<state, events, serial, users, paired, restores, remote, applied, fence, wire, disp>>
    BY <1>3, Groups DEF vars, ResumeProvisioning
  <2>2. HandsOver /\ \A c \in Dispatchers : disp'[c].pc = "acked" => disp[c].pc = "acked"
    BY <2>1 DEF HandsOver, Busy
  <2> QED  BY <1>0, <2>1, <2>2, OrderedStays
<1>4. ASSUME NEW p \in Pairs, ResumeSyncDelivery(p)  PROVE Ordered' /\ LandInOrder
  <2>1. UNCHANGED applied
    BY <1>4, Groups DEF ResumeSyncDelivery
  <2> QED  BY <1>0, <1>4, <2>1, ResumeOrdered
<1>5. ASSUME NEW e \in events, LeaseExpires(e) \/ Prune(e)  PROVE Ordered' /\ LandInOrder
  <2>1. UNCHANGED applied
    BY <1>5, Groups DEF LeaseExpires, Prune
  <2> QED  BY <1>0, <1>5, <2>1, LeaseOrdered, PruneOrdered
<1>6. ASSUME NEW d \in Dispatchers, DispatcherStep(d)  PROVE Ordered' /\ LandInOrder
  BY <1>0, <1>6, DispatcherStepOrdered DEF LandInOrder
<1>7. ASSUME NEW w \in wire, Late(w)  PROVE Ordered' /\ LandInOrder
  <2>1. UNCHANGED <<state, events, serial, users, paired, restores, fence, disp>>
    BY <1>7, Groups DEF Late
  <2>2. HandsOver /\ \A c \in Dispatchers : disp'[c].pc = "acked" => disp[c].pc = "acked"
    BY <2>1 DEF HandsOver, Busy
  <2>3. CASE Lands(w)
    BY <2>1, <2>2, <2>3, LandsOrdered DEF LandInOrder
  <2>4. CASE wire' = wire \ {w} /\ UNCHANGED <<remote, applied>>
    BY <1>0, <2>1, <2>2, <2>4, OrderedStays
  <2> QED  BY <1>7, <2>3, <2>4 DEF Late
<1>8. CASE ApplyRestoredState
  <2>1. UNCHANGED applied
    BY <1>8 DEF ApplyRestoredState
  <2> QED  BY <1>0, <1>8, <2>1, RestoreOrdered
<1> QED  BY <1>1, <1>2, <1>3, <1>4, <1>5, <1>6, <1>7, <1>8 DEF Next, SystemStep

\* Ordered is inductive, given the fence and the sealed queue.
LEMMA OrderedAlways == Spec => []Ordered
BY InitOrdered, NextOrdered, TypeCorrect, FenceInvAlways, QuietAlways, PTL DEF Spec

\* A write queued earlier never lands after one queued later, for any number of connectors,
\* accounts and overlapping passes: ClaimDueSyncEvents' older-event check, the sweep of overtaken
\* failures and BeginSyncDelivery's fence never let an old create undo a newer deactivation.
THEOREM WritesLandInOrderAlways == Spec => WritesLandInOrder
BY OrderedAlways, NextOrdered, TypeCorrect, FenceInvAlways, QuietAlways, PTL
DEF Spec, WritesLandInOrder, LandInOrder

\* offboarded_at, which provisionedTx sets for a delivered inactive state of the row's revision,
\* is never set while the connector still serves the account, whatever is queued, retried,
\* answered late or recovered after it, and whatever the target came to hold before a restore of
\* an older capsule; only an acknowledgement the capsule itself brings back is not vouched for.
THEOREM AckedOffboardingIsRealAlways == Spec => []AckedOffboardingIsReal
<1>1. Ordered => AckedOffboardingIsReal
  BY DEF Ordered, Orderly, Tidy, Ended, Db, AckedOffboardingIsReal
<1> QED  BY <1>1, OrderedAlways, PTL

\* Until a restore closes the queue, a recorded desired state the connector has not acknowledged
\* always has open work of its own revision: neither queueDesiredStateTx's superseding, the sweep,
\* FinishSyncDelivery, ResumeSyncDelivery nor pruning drops the last of it.
THEOREM NoLostDesiredStateAlways == Spec => []NoLostDesiredState
<1>1. TypeOK /\ Ordered => NoLostDesiredState
  <2> SUFFICES ASSUME TypeOK, Ordered, restores = 0, NEW p \in Pairs, state[p].exists
               PROVE  \/ state[p].settled = state[p].rev
                      \/ \E e \in events : /\ e.pair = p /\ e.rev = state[p].rev
                                           /\ e.type # "mfa_reset" /\ e.status # "delivered"
    BY DEF NoLostDesiredState
  <2>1. p[1] \in paired
    BY DEF Ordered, Orderly, Db, NoRow
  <2>2. Kept(state[p], Of(events, p))
    BY <2>1 DEF Ordered, Orderly, Db, Tidy
  <2> QED  BY <2>2 DEF Kept, Witness, Open, Carries, Of
<1> QED  BY <1>1, OrderedAlways, TypeCorrect, PTL
=============================================================================
