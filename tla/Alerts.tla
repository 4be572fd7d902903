------------------------------- MODULE Alerts -------------------------------
(***************************************************************************)
(* Alerts: audit events queued by a trigger, the worker pass that folds    *)
(* them and the connectors' outages into live alerts, and the mail each    *)
(* alert queues for its recipients.                                        *)
(*                                                                         *)
(* A pass is sequential and runs alone. Its transactions are the actions   *)
(* here, and everybody else acts between them; it works with the instant   *)
(* and the recipients it read when it began. The code evaluates up to 500  *)
(* events per transaction: one event per action interleaves more finely,   *)
(* and a rollback in the middle of a batch is a failure before its first   *)
(* event. Retention (180 days) outlasts every instant told apart here and  *)
(* is left out; an alert's count and texts are not modelled, threshold and *)
(* window stay what they are, and a pass mails all that is due, not 50.    *)
(***************************************************************************)
EXTENDS Naturals, FiniteSets

CONSTANTS
    Accounts,       \* accounts login failures are counted by
    Addresses,      \* addresses failures of unknown names are counted by
    Connectors,     \* paired systems and clients with a logout receiver
    Users,          \* accounts that may be recipients
    Subject,        \* the key of the rules that alert on a single event; as an address,
                    \* one no alert is about
    Many,           \* the key "many-sources"
    Threshold,      \* loginFailureThreshold
    Window,         \* loginFailureWindowSeconds, in ticks
    Cooldown,       \* loginAlertCooldown, in ticks
    Ceiling,        \* loginAlertCeiling
    AlertAttempts,  \* alertDeliveryAttempts
    PassEvents,     \* events one pass evaluates at most (alertBatch * alertMaxBatches)
    MaxTime,        \* bound: ticks of the clock
    MaxOps          \* bound: audit events, outages, administrators' acts and failed passes

Sources == Accounts \cup Addresses

ASSUME KeyAssumption ==
    /\ Subject # Many /\ {Subject, Many} \cap (Sources \cup Connectors) = {}
    /\ Accounts \cap Addresses = {} /\ Sources \cap Connectors = {}
ASSUME NumberAssumption ==
    /\ Threshold \in Nat \ {0} /\ AlertAttempts \in Nat \ {0} /\ PassEvents \in Nat \ {0}
    /\ Window \in Nat /\ Cooldown \in Nat /\ Ceiling \in Nat
    /\ MaxTime \in Nat /\ MaxOps \in Nat

VARIABLES
    clock,
    log,        \* audit_events a rule looks at
    queue,      \* alert_queue: ids of the events not evaluated yet
    live,       \* the unresolved alert of a key: "none", "open" or "acknowledged"
    mail,       \* alert_deliveries
    recipients, \* of the alert settings
    readers,    \* accounts alertReaderTx accepts now
    outage,     \* connectors failing now
    pass,       \* the worker's pass
    late,       \* ghost: mails sent to a user since they stopped being a reader
    repeats,    \* ghost: messages accepted again after having been accepted
    excused,    \* ghost: passes that failed or were cut off by a restart, and messages the
                \* relay took and Send reported as failed
    ops

ghosts == <<late, repeats, excused>>
vars == <<clock, log, queue, live, mail, recipients, readers, outage, pass, ghosts, ops>>

-----------------------------------------------------------------------------
LoginKeys == Sources \cup {Many}
Keys == LoginKeys \cup {Subject} \cup Connectors
\* An event's id is random; created_at, taken before its transaction begins, and the id order
\* events. missed is a ghost: the events after it in that order that were evaluated before it
\* committed.
Event == [n : Nat, key : Sources \cup {Subject}, ip : Addresses \cup {Subject}, at : Nat,
          missed : SUBSET Nat]

\* The order of the queue, and of the count of failures.
Precedes(at, n, e) == at < e.at \/ (at = e.at /\ n <= e.n)
UpTo(f, e) == Precedes(f.at, f.n, e)

\* One row per recipient of the nth mailing about a key. The instant is kept for login
\* alerts, attempts and wait while the row is pending; again and got are ghosts: queued by
\* reopening an acknowledged alert, taken by the relay and not recorded.
Row == [key : Keys, nth : Nat \ {0}, user : Users, created : Nat, again : BOOLEAN,
        status : {"pending", "delivered", "failed", "skipped"},
        attempts : 0..AlertAttempts - 1, wait : BOOLEAN, got : BOOLEAN]

Id(d) == <<d.key, d.nth, d.user>>
Idle == [pc |-> "idle", now |-> 0, to |-> {}, done |-> 0, due |-> {}, row |-> <<>>]
Step(pc) == pass' = [pass EXCEPT !.pc = pc]

Init ==
    /\ clock = 0 /\ log = {} /\ queue = {}
    /\ live = [k \in Keys |-> "none"]
    /\ mail = {}
    /\ recipients = Users /\ readers = Users
    /\ outage = {}
    /\ pass = Idle
    /\ late = [u \in Users |-> 0]
    /\ repeats = 0 /\ excused = 0 /\ ops = 0

MayAct == ops < MaxOps /\ ops' = ops + 1

-----------------------------------------------------------------------------
(* The directory, the connectors and the administrators                    *)

\* An audited login failure, of an account from some address or of an unknown name from an
\* address, or an event another rule alerts on, stamped at some earlier instant: the trigger
\* queues its id in the same transaction.
AuditInsert(k, ip, at, n) ==
    /\ MayAct
    /\ k \in Addresses => ip = k
    /\ k = Subject => ip = Subject
    /\ \A e \in log : e.n # n
    /\ log' = log \cup {[n |-> n, key |-> k, ip |-> ip, at |-> at,
                         missed |-> {e.n : e \in {f \in log : Precedes(at, n, f)}} \ queue]}
    /\ queue' = queue \cup {n}
    /\ UNCHANGED <<clock, live, mail, recipients, readers, outage, pass, ghosts>>

\* A connector's deliveries fail or are given up, and succeed again (or it is removed).
OutageChanges(c) ==
    /\ MayAct
    /\ outage' = IF c \in outage THEN outage \ {c} ELSE outage \cup {c}
    /\ UNCHANGED <<clock, log, queue, live, mail, recipients, readers, pass, ghosts>>

AcknowledgeAlert(k) ==
    /\ MayAct /\ live[k] = "open"
    /\ live' = [live EXCEPT ![k] = "acknowledged"]
    /\ UNCHANGED <<clock, log, queue, mail, recipients, readers, outage, pass, ghosts>>

\* SetAlertSettings: recipients must be able to read alerts now.
SetAlertSettings(to) ==
    /\ MayAct /\ to \subseteq readers /\ to # recipients
    /\ recipients' = to
    /\ UNCHANGED <<clock, log, queue, live, mail, readers, outage, pass, ghosts>>

\* A role, a delegation, a status or an end date changes what alertReaderTx says of a user.
ReaderChanges(u) ==
    /\ MayAct
    /\ readers' = IF u \in readers THEN readers \ {u} ELSE readers \cup {u}
    /\ late' = [late EXCEPT ![u] = 0]
    /\ UNCHANGED <<clock, log, queue, live, mail, recipients, outage, pass, repeats, excused>>

Tick ==
    /\ clock < MaxTime /\ clock' = clock + 1
    /\ UNCHANGED <<log, queue, live, mail, recipients, readers, outage, pass, ghosts, ops>>

-----------------------------------------------------------------------------
(* Raising an alert                                                        *)

Nth(k) == 1 + Cardinality({d.nth : d \in {r \in mail : r.key = k}})

\* queueDeliveriesTx for the keys of K: one row per recipient the pass knows.
Queued(K, again) ==
    {[key |-> p[1], nth |-> Nth(p[1]), user |-> p[2],
      created |-> IF p[1] \in LoginKeys THEN pass.now ELSE 0, again |-> again,
      status |-> "pending", attempts |-> 0, wait |-> FALSE, got |-> FALSE]
     : p \in K \X pass.to}

\* Bug: the cooldown looks at mail about the same source only.
MailedLatelyBySource(k) ==
    k \in LoginKeys /\ \E d \in mail : d.key = k /\ d.created + Cooldown > pass.now

\* A login alert was mailed, to anyone, within the cooldown.
MailedLately(k) ==
    k \in LoginKeys /\ \E d \in mail : d.key \in LoginKeys /\ d.created + Cooldown > pass.now

\* raiseAlertTx: open, fold into the open alert, or reopen an acknowledged one.
RaiseAlert(k) ==
    /\ live' = [live EXCEPT ![k] = "open"]
    /\ mail' = IF \/ live[k] = "none" /\ ~MailedLately(k)
                  \/ live[k] = "acknowledged"
               THEN mail \cup Queued({k}, live[k] = "acknowledged")
               ELSE mail

\* A login failure that counts for a source: its account, or any name from its address.
CountsFor(f, s) == f.key = s \/ f.ip = s

\* Bug: the failures before this one, without it.
FailuresBefore(e) ==
    {f \in log : CountsFor(f, e.key) /\ f.at + Window > pass.now /\ UpTo(f, e) /\ f # e}

\* The failures of the event's source in the window, up to and with this one.
FailuresUpTo(e) ==
    {f \in log : CountsFor(f, e.key) /\ f.at + Window > pass.now /\ UpTo(f, e)}

\* Bug: one alert too many before sources share one.
PastCeilingLate(k) ==
    live[k] = "none" /\ Cardinality({s \in Sources : live[s] # "none"}) > Ceiling

PastCeiling(k) ==
    live[k] = "none" /\ Cardinality({s \in Sources : live[s] # "none"}) >= Ceiling

\* classifyTx: the keys the event raises an alert for, one at most.
Classify(e) ==
    IF e.key = Subject THEN {Subject}
    ELSE IF Cardinality(FailuresUpTo(e)) < Threshold THEN {}
    ELSE IF PastCeiling(e.key) THEN {Many} ELSE {e.key}

-----------------------------------------------------------------------------
(* The pass                                                                *)

\* runAlerts: the instant and the settings are read once.
BeginPass ==
    /\ pass.pc = "idle"
    /\ pass' = [Idle EXCEPT !.pc = "quiet", !.now = clock, !.to = recipients]
    /\ UNCHANGED <<clock, log, queue, live, mail, recipients, readers, outage, ghosts, ops>>

\* Bug: the shared alert is closed like a source's own, by its key.
QuietByKey(k) == \A f \in log : CountsFor(f, k) => f.at + Window <= pass.now

\* No failure of the alert's source, or for the shared alert of any source, in the window.
Quiet(k) ==
    \A f \in log :
        f.key \in Sources /\ (k = Many \/ CountsFor(f, k)) => f.at + Window <= pass.now

\* resolveQuietLoginAlerts, without mail.
ResolveQuiet ==
    /\ pass.pc = "quiet"
    /\ live' = [k \in Keys |-> IF k \in LoginKeys /\ Quiet(k) THEN "none" ELSE live[k]]
    /\ Step("batch")
    /\ UNCHANGED <<clock, log, queue, mail, recipients, readers, outage, ghosts, ops>>

\* evaluateBatch, one event: its alert and the removal of its queue row commit together.
EvaluateEvent ==
    /\ pass.pc = "batch" /\ pass.done < PassEvents
    /\ \E e \in log :
         /\ e.n \in queue /\ \A f \in log : f.n \in queue => UpTo(e, f)
         /\ IF Classify(e) = {} THEN UNCHANGED <<live, mail>>
            ELSE \E k \in Classify(e) : RaiseAlert(k)
         /\ queue' = queue \ {e.n}
    /\ pass' = [pass EXCEPT !.done = @ + 1]
    /\ UNCHANGED <<clock, log, recipients, readers, outage, ghosts, ops>>

\* Bug: an alert that was acknowledged is left alone when its outage is over.
OverUnlessAcknowledged == {c \in Connectors \ outage : live[c] = "open"}

Over == {c \in Connectors \ outage : live[c] # "none"}
Begun == {c \in outage : live[c] = "none"}

\* evaluateOutages, once the queue is empty or the rest waits for the next pass: one alert
\* per failing connector, resolved when it delivers again; both are mailed.
EvaluateOutages ==
    /\ pass.pc = "batch" /\ (queue = {} \/ pass.done = PassEvents)
    /\ live' = [k \in Keys |-> IF k \in Begun THEN "open" ELSE IF k \in Over THEN "none"
                               ELSE live[k]]
    /\ mail' = mail \cup Queued(Begun \cup Over, FALSE)
    /\ pass' = [Idle EXCEPT !.pc = "list"]
    /\ UNCHANGED <<clock, log, queue, recipients, readers, outage, ghosts, ops>>

-----------------------------------------------------------------------------
(* DeliverAlerts                                                           *)

\* The due rows, listed once.
ListDue ==
    /\ pass.pc = "list"
    /\ pass' = [pass EXCEPT !.pc = "mail",
                  !.due = {Id(d) : d \in {r \in mail : r.status = "pending" /\ ~r.wait}}]
    /\ UNCHANGED <<clock, log, queue, live, mail, recipients, readers, outage, ghosts, ops>>

Put(d, new) == mail' = (mail \ {d}) \cup {new}

\* Bug: recipients are who the settings name, checked when they were configured.
MayReceiveAsConfigured(u) == u \in readers \cup recipients

MayReceive(u) == u \in readers

\* alertReaderTx for the next row: skipped, or cleared for sending.
CheckReader(d) ==
    /\ pass.pc = "mail" /\ Id(d) \in pass.due
    /\ IF MayReceive(d.user)
       THEN /\ pass' = [pass EXCEPT !.pc = "cleared", !.due = @ \ {Id(d)}, !.row = Id(d)]
            /\ UNCHANGED mail
       ELSE /\ Put(d, [d EXCEPT !.status = "skipped", !.attempts = 0, !.got = FALSE])
            /\ pass' = [pass EXCEPT !.due = @ \ {Id(d)}]
    /\ UNCHANGED <<clock, log, queue, live, recipients, readers, outage, ghosts, ops>>

\* The relay takes the message or refuses it, and Send says so; or the relay takes it, and
\* Send fails on the answer, the deadline or the goodbye. Nothing is recorded yet.
Send(d, taken, ok) ==
    /\ pass.pc = "cleared" /\ pass.row = Id(d)
    /\ ok => taken
    /\ IF taken THEN Put(d, [d EXCEPT !.got = TRUE]) ELSE UNCHANGED mail
    /\ repeats' = IF taken /\ d.got THEN repeats + 1 ELSE repeats
    /\ excused' = IF taken /\ ~ok THEN excused + 1 ELSE excused
    /\ late' = [late EXCEPT ![d.user] = IF d.user \in readers THEN 0 ELSE @ + 1]
    /\ pass' = [pass EXCEPT !.pc = IF ok THEN "accepted" ELSE "refused"]
    /\ UNCHANGED <<clock, log, queue, live, recipients, readers, outage, ops>>

\* Bugs: a refused message is retried without end; an accepted one is left pending.
RecordedRetrying(d) ==
    IF pass.pc = "accepted"
    THEN [d EXCEPT !.status = "delivered", !.attempts = 0, !.got = FALSE]
    ELSE [d EXCEPT !.wait = TRUE]

RecordedPending(d) ==
    IF d.attempts + 1 >= AlertAttempts
    THEN [d EXCEPT !.status = "failed", !.attempts = 0, !.got = FALSE]
    ELSE [d EXCEPT !.attempts = @ + 1, !.wait = TRUE]

\* The outcome on the row: delivered, out of attempts, or pending after a backoff.
Recorded(d) ==
    IF pass.pc = "accepted"
    THEN [d EXCEPT !.status = "delivered", !.attempts = 0, !.got = FALSE]
    ELSE IF d.attempts + 1 >= AlertAttempts
    THEN [d EXCEPT !.status = "failed", !.attempts = 0, !.got = FALSE]
    ELSE [d EXCEPT !.attempts = @ + 1, !.wait = TRUE]

RecordSend(d) ==
    /\ pass.pc \in {"accepted", "refused"} /\ pass.row = Id(d)
    /\ Put(d, Recorded(d))
    /\ pass' = [pass EXCEPT !.pc = "mail", !.row = <<>>]
    /\ UNCHANGED <<clock, log, queue, live, recipients, readers, outage, ghosts, ops>>

\* The batch is through, or the pass is out of its time: the rest stays pending.
EndPass ==
    /\ \/ pass.pc = "mail" /\ pass.due = {}
       \/ pass.pc = "cleared"
    /\ pass' = Idle
    /\ UNCHANGED <<clock, log, queue, live, mail, recipients, readers, outage, ghosts, ops>>

\* A restart, or a statement that fails, ends the pass where it is.
PassFails ==
    /\ MayAct /\ pass.pc # "idle"
    /\ pass' = Idle /\ excused' = excused + 1
    /\ UNCHANGED <<clock, log, queue, live, mail, recipients, readers, outage, late, repeats>>

\* next_attempt_at comes: alertBackoff.
BackoffEnds(d) ==
    /\ d.wait /\ Put(d, [d EXCEPT !.wait = FALSE])
    /\ UNCHANGED <<clock, log, queue, live, recipients, readers, outage, pass, ghosts, ops>>

-----------------------------------------------------------------------------
PassStep ==
    \/ BeginPass \/ ResolveQuiet \/ EvaluateEvent \/ EvaluateOutages
    \/ ListDue \/ EndPass
    \/ \E d \in mail : \/ CheckReader(d) \/ RecordSend(d)
                       \/ \E taken, ok \in BOOLEAN : Send(d, taken, ok)

Next ==
    \/ PassStep \/ PassFails \/ Tick
    \/ \E k \in Sources \cup {Subject}, ip \in Addresses \cup {Subject},
          at \in 0..clock, n \in 1..MaxOps : AuditInsert(k, ip, at, n)
    \/ \E c \in Connectors : OutageChanges(c)
    \/ \E k \in Keys : AcknowledgeAlert(k)
    \/ \E to \in SUBSET Users : SetAlertSettings(to)
    \/ \E u \in Users : ReaderChanges(u)
    \/ \E d \in mail : BackoffEnds(d)

Spec == Init /\ [][Next]_vars

\* alertWorker ticks every three seconds and a pass goes through its steps; evaluation does
\* not use up the time of every pass, and backoffs end.
Fairness ==
    /\ WF_vars(PassStep)
    /\ SF_vars(\E d \in mail, taken, ok \in BOOLEAN : Send(d, taken, ok))
    /\ \A k \in Keys, n \in 1..MaxOps, u \in Users :
         WF_vars(\E d \in mail : Id(d) = <<k, n, u>> /\ BackoffEnds(d))

FairSpec == Spec /\ Fairness

-----------------------------------------------------------------------------
(* Properties                                                              *)

\* Tables and pass have their shape, and a delivery that ran out of attempts is failed.
TypeOK ==
    /\ clock \in 0..MaxTime /\ log \subseteq Event
    /\ queue \subseteq {e.n : e \in log}
    /\ live \in [Keys -> {"none", "open", "acknowledged"}]
    /\ mail \subseteq Row
    /\ \A d \in mail : d.status # "pending" => d.attempts = 0 /\ ~d.wait
    /\ recipients \subseteq Users /\ readers \subseteq Users /\ outage \subseteq Connectors
    /\ pass.pc \in {"idle", "quiet", "batch", "list", "mail", "cleared",
                    "accepted", "refused"}
    /\ pass.to \subseteq Users /\ pass.due \subseteq {Id(d) : d \in mail}
    /\ late \in [Users -> Nat] /\ repeats \in Nat /\ excused \in Nat /\ ops \in 0..MaxOps

\* A failure that was evaluated and is the threshold's in its window or past it is under a
\* live alert, its source's own or the shared one, however failures, the clock, quiet
\* resolutions and failed passes interleaved. It counts the failures up to its own created_at
\* that had committed by then: one that was stamped earlier and committed after it was
\* evaluated is counted by neither.
BurstsShown ==
    \A e \in log :
        /\ e.key \in Sources /\ e.n \notin queue
        /\ Cardinality({f \in log : CountsFor(f, e.key) /\ UpTo(f, e) /\ e.n \notin f.missed
                                    /\ f.at + Window > clock}) >= Threshold
        => live[e.key] # "none" \/ live[Many] # "none"

\* "Past ten live login alerts further sources share a single alert".
LoginAlertsBounded == Cardinality({s \in Sources : live[s] # "none"}) <= Ceiling

\* "Login-failure mail is one mailing per four hours however many sources appear": of two
\* mailings about login alerts within the cooldown, the later reopened an alert that an
\* administrator had acknowledged.
LoginMailCapped ==
    \A d, e \in {m \in mail : m.key \in LoginKeys} :
        <<d.key, d.nth>> # <<e.key, e.nth>> /\ d.created <= e.created
            /\ e.created < d.created + Cooldown => d.again \/ e.again

\* Sources nobody authenticated cannot flood the inbox or the recipients.
LoginNoiseBounded == LoginAlertsBounded /\ LoginMailCapped

\* "A crash can repeat work": a message the relay took is sent again only where a pass failed
\* before recording it or Send reported it as failed.
MailedOnce == repeats <= excused

\* "Checked again before each message": who lost the right to read alerts gets at most the
\* one message that was past its check.
LostReadersGetOneAtMost == \A u \in Users \ readers : late[u] <= 1

\* A message is neither repeated without cause nor sent to who may not read it.
MailIsCareful == MailedOnce /\ LostReadersGetOneAtMost

\* An outage that lasts ends up on the inbox and one that is over leaves it, acknowledged
\* or not: an acknowledged outage does not hide the next one.
OutagesShown ==
    \A c \in Connectors :
        /\ <>[](c \in outage) => <>[](live[c] # "none")
        /\ <>[](c \notin outage) => <>[](live[c] = "none")

\* Every queued event is evaluated and every message is delivered, skipped or shown as
\* failed in the end.
MailSettles ==
    /\ []<>(queue = {})
    /\ <>[](\A d \in mail : d.status # "pending")

\* The worker catches up with connectors, events and mail, through failed passes and
\* refused messages.
WorkerCatchesUp == OutagesShown /\ MailSettles
=============================================================================
