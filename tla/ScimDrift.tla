------------------------------ MODULE ScimDrift ------------------------------
(***************************************************************************)
(* Drift between the directory and a SCIM target, for one connector and    *)
(* one resource of it, a user or a group: delivery through the stored      *)
(* mapping (sync/scim.go, sync/scim_groups.go, store/scim.go) and the      *)
(* reconciliation jobs that list the target, compare and repair            *)
(* (sync/reconcile.go, store/reconcile.go).                                *)
(*                                                                         *)
(* Deliveries and reconciliation workers run on goroutines of their own    *)
(* and share the mapping, the state row and the outbox, so every statement *)
(* and every HTTP exchange is a step. Claims and leases of single events   *)
(* are in Provisioning; here an event is begun, fenced and finished.       *)
(***************************************************************************)
EXTENDS Integers, Sequences

CONSTANTS
    Ids,              \* identifiers the target hands out
    Workers,          \* reconciliation workers (two in a rolling deploy)
    None,             \* no identifier, no worker
    ReconcileLimit,   \* reconcileAttempts
    DeliveryLimit,    \* attempts of one event
    MaxUpsets         \* bound: how often access, the target, the network, the
                      \* process or an administrator upsets things

ASSUME LimitsArePositive ==
    /\ {ReconcileLimit, DeliveryLimit} \subseteq Nat \ {0}
    /\ MaxUpsets \in Nat

ASSUME NoneIsNothing == None \notin Ids \cup Workers

ASSUME IdsAreNotMarkers == Ids # {} /\ Ids \cap {"none", "started"} = {}

VARIABLES
    kind,      \* "user" or "group"
    want,      \* effective access, or the group's assignment
    row,       \* sync_resource_state
    queue,     \* undelivered desired-state events, oldest first; TRUE is active
    link,      \* scim_user_links: no row, a create that began, or a remote id
    hold,      \* paired_systems.provisioning_hold
    job,       \* the connector's newest row of sync_reconcile_jobs
    worker,    \* what each reconciliation worker has reached and read
    sending,   \* the fenced delivery of the first event
    tries,     \* its attempts so far
    remote,    \* the target's accounts by identifier
    late,      \* a create whose answer was lost has yet to land
    budget     \* upsets that are left

local == <<kind, want, row, queue, link, hold>>
driftVars == <<local, job, worker, sending, tries, remote, late, budget>>

ResourceKinds == {"user", "group"}
Absent == "absent"
Present == {"active", "stale", "inactive"}
Active(s) == s \in {"active", "stale"}

NoRow == [exists |-> FALSE, active |-> FALSE, provisioned |-> FALSE]
Links == {"none", "started"} \cup Ids

\* A job that is done or failed is history: nothing reads its row again.
NoJob == [status |-> "ended", kind |-> "preview", attempts |-> 0,
          owner |-> None, leased |-> FALSE]
Busy(j) == j.status \in {"queued", "running"}

Listings == [kind : {"complete", "partial", "unsupported"},
             id : Ids \cup {None}, is : Present \cup {Absent}, fresh : BOOLEAN]
NoListing == [kind |-> "unsupported", id |-> None, is |-> Absent, fresh |-> FALSE]
Resting == [at |-> "idle", repair |-> FALSE, listing |-> NoListing]

Sends == {"idle", "lookup", "save", "create", "post", "posted",
          "conflict", "verify", "write", "unlink", "ok", "error", "uncertain"}
Rest == [at |-> "idle", id |-> None, started |-> FALSE]

(* Rows, jobs and what workers and deliveries carry keep their shape; only *)
(* a running job has an owner, and at most the fenced event and one newer  *)
(* are queued.                                                             *)
DriftTypeOK ==
    /\ kind \in ResourceKinds /\ want \in BOOLEAN /\ hold \in BOOLEAN /\ late \in BOOLEAN
    /\ row \in [exists : BOOLEAN, active : BOOLEAN, provisioned : BOOLEAN]
    /\ queue \in {<<>>} \cup [{1} -> BOOLEAN] \cup [1 .. 2 -> BOOLEAN]
    /\ sending.at # "idle" => queue # <<>>
    /\ link \in Links
    /\ job \in [status : {"queued", "running", "ended"},
                kind : {"preview", "repair"}, attempts : 0 .. ReconcileLimit,
                owner : Workers \cup {None}, leased : BOOLEAN]
    /\ job.owner # None => job.status = "running"
    /\ worker \in [Workers -> [at : {"idle", "claimed", "listed", "compared"},
                               repair : BOOLEAN, listing : Listings]]
    /\ sending \in [at : Sends, id : Ids \cup {None}, started : BOOLEAN]
    /\ tries \in 0 .. DeliveryLimit
    /\ remote \in [Ids -> Present \cup {Absent}]
    /\ budget \in 0 .. MaxUpsets

FirstId == CHOOSE i \in Ids : TRUE

(* The target as it may be found: holding the resource or not, after a     *)
(* restore that left the connector held or in ordinary use. The mapping    *)
(* and the row may be those of an older backup.                            *)
DriftInit ==
    /\ kind \in ResourceKinds
    /\ want \in BOOLEAN
    /\ hold \in BOOLEAN
    /\ \E s \in {Absent, "active"} :
          remote = [i \in Ids |-> IF i = FirstId THEN s ELSE Absent]
    /\ link \in {"none", FirstId}
    /\ \/ ~want /\ row = NoRow
       \/ \E p \in BOOLEAN : row = [exists |-> TRUE, active |-> want, provisioned |-> p]
    /\ row.exists /\ ~row.active => kind = "user" /\ row.provisioned
    /\ queue = <<>>
    /\ job = NoJob
    /\ worker = [w \in Workers |-> Resting]
    /\ sending = Rest
    /\ tries = 0
    /\ late = FALSE
    /\ budget = MaxUpsets

Upset == budget > 0 /\ budget' = budget - 1

---------------------------------------------------------------------------
(* queueDesiredStateTx: unfenced work is superseded, fenced work keeps its *)
(* place, and a resource nobody downstream heard of is forgotten.          *)

Fenced == sending.at # "idle"

Kept == IF Fenced THEN <<Head(queue)>> ELSE <<>>

QueueDesiredState(r, active) ==
    IF ~active /\ ~r.provisioned /\ ~Fenced
    THEN row' = NoRow /\ queue' = <<>>
    ELSE /\ row' = [r EXCEPT !.exists = TRUE, !.active = active]
         /\ queue' = Append(Kept, active)

(* reconcileProvisioningTx and reconcileGroupsTx for this resource, given  *)
(* the access w. The sweep of exhausted events is in FinishSyncDelivery.   *)
Reconcile(w) ==
    IF row.active # w THEN QueueDesiredState(row, w) ELSE UNCHANGED <<row, queue>>

Aged(x) == [x EXCEPT !.listing.fresh = FALSE]

ChangeAccess ==
    /\ Upset
    /\ want' = ~want
    /\ Reconcile(want')
    /\ worker' = [w \in Workers |-> IF worker[w].at = "compared" THEN Aged(worker[w])
                                    ELSE worker[w]]
    /\ UNCHANGED <<kind, link, hold, job, sending, tries, remote, late>>

(* The views stop counting a grant, a membership or an account whose time  *)
(* has passed; no transaction of ours runs at that moment.                 *)
AccessLapses ==
    /\ Upset
    /\ kind = "user" /\ want
    /\ want' = FALSE
    /\ worker' = [w \in Workers |-> IF worker[w].at = "compared" THEN Aged(worker[w])
                                    ELSE worker[w]]
    /\ UNCHANGED <<kind, row, queue, link, hold, job, sending, tries, remote, late>>

(* ReconcileProvisioning, the tick of the worker, and ConfigureSystem.     *)
ReconcileProvisioning ==
    /\ row.active # want
    /\ Reconcile(want)
    /\ UNCHANGED <<kind, want, link, hold, job, worker, sending, tries, remote,
                   late, budget>>

(* RetryProvisioning re-queues one user's desired state.                   *)
RetryProvisioning ==
    /\ Upset
    /\ kind = "user"
    /\ want \/ row.exists
    /\ QueueDesiredState(row, want)
    /\ UNCHANGED <<kind, want, link, hold, job, worker, sending, tries, remote, late>>

---------------------------------------------------------------------------
(* The target, changed by its own operators. They leave it alone while a   *)
(* create of ours is still on its way, which is what ResumeSyncDelivery    *)
(* asks an operator to establish.                                          *)

Held == {i \in Ids : remote[i] # Absent}
Unique == \E i \in Ids : Held = {i}
Found == CHOOSE i \in Held : TRUE

ForeignChange ==
    /\ Upset
    /\ ~late
    /\ worker' = [w \in Workers |-> Aged(worker[w])]
    /\ UNCHANGED <<local, job, sending, tries, late>>

TargetEdits(i, s) ==
    /\ i \in Held /\ s # remote[i]
    /\ s = "inactive" => kind = "user"
    /\ remote' = [remote EXCEPT ![i] = s]
    /\ ForeignChange

(* A target restored from its own backup holds another identifier. Nobody  *)
(* restores it between our lookup and the create that follows.             *)
TargetRestored(i) ==
    /\ sending.at \notin {"create", "post"}
    /\ remote' = [j \in Ids |-> IF j = i THEN "active" ELSE Absent]
    /\ remote' # remote
    /\ ForeignChange

(* The target carries out a create it had not answered, or never will.     *)
Creates(i) == Held \cap {i} = {} /\ remote' = [remote EXCEPT ![i] = "active"]
LateCreate(i) ==
    /\ late /\ Creates(i)
    /\ late' = FALSE
    /\ UNCHANGED <<local, job, worker, sending, tries, budget>>
LateCreateDies ==
    /\ late
    /\ late' = FALSE
    /\ UNCHANGED <<local, job, worker, sending, tries, remote, budget>>

---------------------------------------------------------------------------
(* deliverSCIM and deliverSCIMGroup, from the fence to the outcome.        *)

At(s) == sending.at = s
Goes(s) == sending' = IF s \in {"ok", "error", "uncertain"} THEN [Rest EXCEPT !.at = s]
                      ELSE [sending EXCEPT !.at = s]
Delivering == <<kind, want, row, queue, hold, job, worker, tries>>
Read == UNCHANGED <<link, remote, late>>
Fails == Upset /\ Goes("error")
Deactivate == ~Head(queue)

(* BeginSyncDelivery fences the oldest event; SCIMLink reads the mapping.  *)
BeginSyncDelivery ==
    /\ At("idle") /\ queue # <<>> /\ ~hold
    /\ sending' = IF link \in Ids
                  THEN [at |-> "verify", id |-> link, started |-> FALSE]
                  ELSE [at |-> "lookup", id |-> None, started |-> link = "started"]
    /\ UNCHANGED <<Delivering, budget>> /\ Read

(* findSCIMResource by externalId. More than one match is refused; none    *)
(* ends a deactivation, and lets only a fresh create begin.                *)
FindSCIMResource ==
    /\ At("lookup")
    /\ IF Unique
       THEN sending' = [sending EXCEPT !.at = "save", !.id = Found]
       ELSE Goes(IF Held # {} \/ sending.started THEN "error"
                 ELSE IF Deactivate THEN "ok" ELSE "create")
    /\ UNCHANGED <<Delivering, budget>> /\ Read

(* Any exchange may fail before it changes anything.                       *)
ReadFails ==
    /\ sending.at \in {"lookup", "conflict", "verify"}
    /\ Fails
    /\ UNCHANGED <<Delivering>> /\ Read

(* A mapping is only filled in, never changed. A create that is mapped is  *)
(* the whole delivery; an account that was found is written to next.       *)
SaveSCIMLink ==
    /\ At("save") \/ At("posted")
    /\ IF link \in {"none", "started", sending.id}
       THEN link' = sending.id /\ Goes(IF At("save") THEN "write" ELSE "ok")
       ELSE Goes("error") /\ UNCHANGED link
    /\ UNCHANGED <<Delivering, remote, late, budget>>

StartSCIMCreate ==
    /\ At("create")
    /\ IF link = "none" THEN link' = "started" /\ Goes("post")
       ELSE Goes("error") /\ UNCHANGED link
    /\ UNCHANGED <<Delivering, remote, late, budget>>

(* The POST: created and answered, or the answer is lost before or after   *)
(* the account exists.                                                     *)
CreateSCIM ==
    /\ At("post")
    /\ \E i \in Ids :
          /\ Creates(i)
          /\ \/ /\ sending' = [sending EXCEPT !.at = "posted", !.id = i]
                /\ UNCHANGED budget
             \/ Upset /\ Goes("uncertain")
    /\ UNCHANGED <<Delivering, link, late>>

Unmark == link' = IF link = "started" THEN "none" ELSE link

\* Bug: a create that was not answered is taken for a refused one.
CreateUnansweredRefused ==
    /\ At("post")
    /\ Upset
    /\ late' = TRUE
    /\ Unmark
    /\ Goes("error")
    /\ UNCHANGED <<Delivering, remote>>

CreateUnanswered ==
    /\ At("post")
    /\ Upset
    /\ late' = TRUE
    /\ Goes("uncertain")
    /\ UNCHANGED <<Delivering, link, remote>>

(* RejectSCIMCreate: a definite refusal takes the marker back. A user      *)
(* whose create conflicted, perhaps over a name, is looked up again.       *)
RejectSCIMCreate ==
    /\ At("post")
    /\ Unmark
    /\ Upset
    /\ Goes("error") \/ (kind = "user" /\ Goes("conflict"))
    /\ UNCHANGED <<Delivering, remote, late>>
ResolveConflict ==
    /\ At("conflict")
    /\ IF Unique
       THEN sending' = [sending EXCEPT !.at = "save", !.id = Found]
       ELSE Goes("error")
    /\ UNCHANGED <<Delivering, budget>> /\ Read

(* A stored mapping is read back before it is written through. An account  *)
(* that is gone needs no deactivation; a group's mapping goes with it.     *)
Gone == IF kind = "group" THEN "unlink" ELSE "ok"
VerifyMapping ==
    /\ At("verify")
    /\ Goes(IF sending.id \in Held THEN "write"
            ELSE IF Deactivate THEN Gone ELSE "error")
    /\ UNCHANGED <<Delivering, budget>> /\ Read

(* PUT, PATCH active=false, or DELETE of a group.                          *)
Written == [remote EXCEPT ![sending.id] =
              IF ~Deactivate THEN "active"
              ELSE IF kind = "group" THEN Absent ELSE "inactive"]
WriteSCIM ==
    /\ At("write")
    /\ IF sending.id \in Held
       THEN /\ remote' = Written
            /\ \/ Goes(IF Deactivate THEN Gone ELSE "ok") /\ UNCHANGED budget
               \/ Upset /\ Goes("uncertain")
       ELSE /\ Goes(IF Deactivate THEN Gone ELSE "error")
            /\ UNCHANGED <<remote, budget>>
    /\ UNCHANGED <<Delivering, link, late>>
WriteFails ==
    /\ At("write")
    /\ Upset
    /\ \E s \in {"error", "uncertain"} : Goes(s)
    /\ UNCHANGED <<Delivering>> /\ Read

DeleteSCIMLink ==
    /\ At("unlink")
    /\ link' = "none"
    /\ Goes("ok")
    /\ UNCHANGED <<Delivering, remote, late, budget>>

(* FinishSyncDelivery and provisionedTx. An overtaken event that ran out   *)
(* of attempts is discarded; the current one is tried again in the end.    *)
FinishSyncDelivery ==
    /\ sending' = Rest
    /\ \/ /\ At("ok")
          /\ queue' = Tail(queue)
          /\ tries' = 0
          /\ row' = IF kind = "group" /\ Deactivate
                    THEN IF row.active THEN row ELSE NoRow
                    ELSE [row EXCEPT !.provisioned = row.exists]
       \/ /\ At("error")
          /\ IF Len(queue) = 1 THEN tries' = 0 /\ UNCHANGED queue
             ELSE IF tries + 1 < DeliveryLimit
             THEN tries' = tries + 1 /\ UNCHANGED queue
             ELSE tries' = 0 /\ queue' = Tail(queue)
          /\ UNCHANGED row
    /\ UNCHANGED <<kind, want, link, hold, job, worker, remote, late, budget>>

(* ResumeSyncDelivery, by an operator who has established that nothing is  *)
(* on its way; the marker goes only if the operator says so.               *)
ResumeSyncDelivery(allowCreateRetry) ==
    /\ At("uncertain") /\ ~late
    /\ sending' = Rest
    /\ tries' = 0
    /\ IF allowCreateRetry THEN Unmark ELSE UNCHANGED link
    /\ UNCHANGED <<kind, want, row, queue, hold, job, worker, remote, late, budget>>

---------------------------------------------------------------------------
(* Reconciliation jobs.                                                    *)

(* CreateReconcileJob, and the repairs ScheduleReconcileJobs asks for. A   *)
(* job of any kind postpones the next repair by the interval, so           *)
(* administrators who keep asking for previews are among the bounds.       *)
CreateReconcileJob(what) ==
    /\ ~Busy(job)
    /\ job' = [NoJob EXCEPT !.status = "queued", !.kind = what]
    /\ UNCHANGED <<local, worker, sending, tries, remote, late>>

Lapsed == job.status = "running" /\ ~job.leased

\* Bug: a job that was interrupted too often is left as it is.
ClaimReconcileJobOnly(w) ==
    /\ worker[w].at = "idle"
    /\ job.status = "queued" \/ Lapsed
    /\ job.attempts < ReconcileLimit
    /\ job' = [job EXCEPT !.status = "running", !.owner = w, !.leased = TRUE,
                          !.attempts = @ + 1]
    /\ worker' = [worker EXCEPT ![w] = [Resting EXCEPT !.at = "claimed",
                                          !.repair = job.kind = "repair"]]
    /\ UNCHANGED <<local, sending, tries, remote, late, budget>>

(* ClaimReconcileJob: a lapsed job is taken over, or failed when it has    *)
(* been interrupted too often.                                             *)
ClaimReconcileJob(w) ==
    /\ worker[w].at = "idle"
    /\ job.status = "queued" \/ Lapsed
    /\ IF job.attempts < ReconcileLimit
       THEN /\ job' = [job EXCEPT !.status = "running", !.owner = w,
                                  !.leased = TRUE, !.attempts = @ + 1]
            /\ worker' = [worker EXCEPT ![w] = [Resting EXCEPT
                               !.at = "claimed", !.repair = job.kind = "repair"]]
       ELSE /\ job' = NoJob
            /\ UNCHANGED worker
    /\ UNCHANGED <<local, sending, tries, remote, late, budget>>

(* The lease runs out: its worker stalled, or the process stopped.         *)
LeaseLapses ==
    /\ job.status = "running" /\ job.leased
    /\ \/ Upset
       \/ worker[job.owner].at = "idle" /\ UNCHANGED budget
    /\ job' = [job EXCEPT !.leased = FALSE]
    /\ UNCHANGED <<local, worker, sending, tries, remote, late>>

ReadsTarget(w, how, i) ==
    worker' = [worker EXCEPT ![w].at = "listed",
                 ![w].listing = [kind |-> how, id |-> i, fresh |-> TRUE,
                    is |-> IF i = None THEN Absent ELSE remote[i]]]

(* listRemote walks the pages; any that fails, or a total that moves,      *)
(* leaves a partial listing, and a secret that cannot be read leaves none. *)
ListRemote(w) ==
    /\ worker[w].at = "claimed"
    /\ \/ /\ ReadsTarget(w, "complete", IF Held = {} THEN None ELSE Found)
          /\ UNCHANGED budget
       \/ /\ Upset
          /\ \/ \E i \in Held \cup {None} : ReadsTarget(w, "partial", i)
             \/ ReadsTarget(w, "unsupported", None)
    /\ UNCHANGED <<local, job, sending, tries, remote, late>>

(* ReconcileDrift, one transaction over the listing read before it. Only a *)
(* complete listing shows that something is absent or should be disabled,  *)
(* and nothing is written through a mapping that names another account.    *)
Managed == want \/ row.exists \/ link # "none"
Linked(l) == link \in {"none", "started", l.id}
HoldRow == IF row.exists THEN [row EXCEPT !.provisioned = TRUE]
           ELSE [exists |-> TRUE, active |-> TRUE, provisioned |-> TRUE]
Keeps == UNCHANGED <<row, queue>>

Complete(l) == l.kind = "complete"

RepairListed(l) ==
    /\ IF Managed /\ Linked(l) /\ (kind = "user" \/ ~want)
       THEN link' = l.id ELSE UNCHANGED link
    /\ IF ~(Managed /\ Linked(l)) /\ ~(kind = "group" /\ want) THEN Keeps
       ELSE IF want /\ (kind = "group" \/ l.is # "active") THEN QueueDesiredState(row, TRUE)
       ELSE IF ~want /\ Active(l.is) /\ Complete(l) THEN QueueDesiredState(HoldRow, FALSE)
       ELSE Keeps

\* Bug: a mapping to an account that is gone is kept.
RepairMissingOnly ==
    IF want THEN QueueDesiredState(row, TRUE) /\ UNCHANGED link
    ELSE UNCHANGED link /\ Keeps

RepairMissing ==
    IF want
    THEN /\ link' = IF link \in Ids /\ kind = "user" THEN "none" ELSE link
         /\ QueueDesiredState(row, TRUE)
    ELSE UNCHANGED link /\ Keeps

Repair(l) ==
    IF l.kind = "unsupported" \/ (kind = "group" /\ ~Complete(l)) THEN UNCHANGED link /\ Keeps
    ELSE IF l.id # None THEN RepairListed(l)
    ELSE IF Complete(l) THEN RepairMissing ELSE UNCHANGED link /\ Keeps

ReconcileDrift(w) ==
    /\ worker[w].at = "listed"
    /\ IF worker[w].repair THEN Repair(worker[w].listing)
       ELSE UNCHANGED link /\ Keeps
    /\ worker' = [worker EXCEPT ![w].at = "compared"]
    /\ UNCHANGED <<kind, want, hold, job, sending, tries, remote, late, budget>>

\* Bug: any pass that ended without an error lifts the hold.
EvidenceOfAnyRun(w) == TRUE

(* What lifts a hold: a repair that listed everything and wrote through.   *)
Evidence(w) == worker[w].repair /\ Complete(worker[w].listing)

FinishReconcileJob(w) ==
    /\ worker[w].at = "compared"
    /\ worker' = [worker EXCEPT ![w] = Resting]
    /\ IF job.owner = w
       THEN /\ job' = NoJob
            /\ hold' = (hold /\ ~Evidence(w))
       ELSE UNCHANGED <<job, hold>>
    /\ UNCHANGED <<kind, want, row, queue, link, sending, tries, remote, late, budget>>

(* ResumeProvisioning: an operator lifts the hold without evidence.        *)
ResumeProvisioning ==
    /\ hold
    /\ hold' = FALSE
    /\ UNCHANGED <<kind, want, row, queue, link, job, worker, sending, tries, remote,
                   late, budget>>

(* The process stops. A fenced delivery keeps its fence, a running job its *)
(* lease; what a worker had read is lost.                                  *)
Restart ==
    /\ Upset
    /\ worker' = [w \in Workers |-> Resting]
    /\ sending' = IF Fenced THEN [Rest EXCEPT !.at = "uncertain"] ELSE sending
    /\ UNCHANGED <<local, job, tries, remote, late>>

---------------------------------------------------------------------------
DeliveryStep ==
    \/ BeginSyncDelivery \/ FindSCIMResource \/ SaveSCIMLink
    \/ StartSCIMCreate \/ CreateSCIM \/ ResolveConflict \/ VerifyMapping
    \/ WriteSCIM \/ DeleteSCIMLink \/ FinishSyncDelivery

DeliveryFault == ReadFails \/ CreateUnanswered \/ RejectSCIMCreate \/ WriteFails

JobStep(w) ==
    ClaimReconcileJob(w) \/ ListRemote(w) \/ ReconcileDrift(w) \/ FinishReconcileJob(w)

Foreign ==
    \/ \E i \in Ids : TargetRestored(i) \/ LateCreate(i)
    \/ \E i \in Ids, s \in Present \cup {Absent} : TargetEdits(i, s)
    \/ LateCreateDies

Operator ==
    \/ ChangeAccess \/ RetryProvisioning \/ ResumeProvisioning
    \/ \E b \in BOOLEAN : ResumeSyncDelivery(b)
    \/ Upset /\ CreateReconcileJob("preview")

ScheduleReconcileJobs == CreateReconcileJob("repair") /\ UNCHANGED budget

DriftNext ==
    \/ DeliveryStep \/ DeliveryFault \/ Foreign \/ Operator
    \/ ScheduleReconcileJobs \/ AccessLapses \/ ReconcileProvisioning \/ LeaseLapses \/ Restart
    \/ \E w \in Workers : JobStep(w)

(* The ticks of StartWorker and reconcileWorker keep coming, the connector *)
(* has a reconcile interval, and time passes.                              *)
DriftFairness ==
    /\ WF_driftVars(DeliveryStep) /\ WF_driftVars(ReconcileProvisioning) /\ WF_driftVars(ScheduleReconcileJobs)
    /\ WF_driftVars(LeaseLapses) /\ WF_driftVars(Foreign /\ late)
    /\ \A w \in Workers : WF_driftVars(JobStep(w))

DriftSpec == DriftInit /\ [][DriftNext]_driftVars /\ DriftFairness

---------------------------------------------------------------------------
(* Never two accounts for one resource: a create whose answer was lost or  *)
(* comes late is not repeated, whatever listings, repairs, retries and     *)
(* operators do to the mapping meanwhile (scim.go:19, sync/scim.go:233).   *)
OneAccount == \A i, j \in Held : i = j

(* What is left to an operator: an account this connector has no relation  *)
(* to, a write with an unknown outcome, a create marker without an account,*)
(* a mapping to another account than the one the target holds, and a       *)
(* wanted group mapped to one that is gone.                                *)
Stuck ==
    \/ ~Managed
    \/ At("uncertain")
    \/ link = "started" /\ Held = {}
    \/ link \in Ids /\ link \notin Held /\ (Held # {} \/ (kind = "group" /\ want))

Matches == IF want THEN \E i \in Ids : remote[i] = "active"
           ELSE \A i \in Ids : ~Active(remote[i])

(* A repair lifts the hold only when whatever still differs at the target  *)
(* since the listing has been queued or is being delivered, or is one of   *)
(* the states left to an operator (store/reconcile.go:227).                *)
ReleaseIsEvidence ==
    [][\A w \in Workers :
         (hold /\ ~hold' /\ worker[w].at = "compared" /\ worker'[w].at = "idle"
            /\ worker[w].listing.fresh)
           => Matches \/ Stuck \/ queue # <<>>]_driftVars

(* Once nothing interferes any more the target holds what the directory    *)
(* wants, or one of the states only an operator can leave.                 *)
Converges == <>[](Matches \/ Stuck)

(* A reconciliation job ends, although its worker may stop or stall again  *)
(* and again (store/reconcile.go:157).                                     *)
JobsSettle == Busy(job) ~> ~Busy(job)

=============================================================================
