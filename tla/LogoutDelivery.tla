-------------------------- MODULE LogoutDelivery --------------------------
(***************************************************************************)
(* The back-channel logout queue: rows of logout_deliveries, leased by the *)
(* worker loops of StartLogoutWorker, posted to the client's receiver and  *)
(* finished under the claim token of the attempt.                          *)
(*                                                                         *)
(* A delivery is named by its position in created_at order. A claim, a     *)
(* finish, a retry, a restore and the pruning are transactions; the POST   *)
(* between a claim and its finish is not, so everything interleaves there. *)
(***************************************************************************)
EXTENDS Integers, FiniteSets

CONSTANTS
    Deliveries,       \* deliveries, numbered by created_at
    Clients,
    ClientOf,         \* the client a delivery is for
    Workers,          \* logoutWorkers loops
    Tokens,           \* claim tokens (uuid)
    NoToken,          \* the empty claim token
    LogoutAttempts,   \* logoutDeliveryAttempts
    MaxRetries,       \* bound: administrator retries
    MaxRestarts       \* bound: restarts and restores

ASSUME DeliveryAssumption == Deliveries \subseteq Int
ASSUME ClientAssumption == ClientOf \in [Deliveries -> Clients]
ASSUME TokenAssumption == NoToken \notin Tokens
ASSUME BoundAssumption ==
    LogoutAttempts \in Nat \ {0} /\ MaxRetries \in Nat /\ MaxRestarts \in Nat

VARIABLES
    row,        \* logout_deliveries
    worker,     \* what each worker loop holds in memory
    deleted,    \* clients deleted, whose rows cascaded
    told,       \* ghost: deliveries a receiver acknowledged
    posts,      \* ghost: attempts made per delivery since its budget was last restored
    retries, restarts

vars == <<row, worker, deleted, told, posts, retries, restarts>>

-----------------------------------------------------------------------------
Statuses == {"none", "queued", "delivered", "failed", "pruned"}
Leases == {"free", "held", "lapsed"}
Row == [status : Statuses, attempts : 0..LogoutAttempts, token : Tokens \cup {NoToken},
        lease : Leases, due : BOOLEAN]
Idle == [pc |-> "idle"]
Busy == [pc : {"posting", "answered"}, id : Deliveries, token : Tokens,
         attempts : 0..LogoutAttempts, ok : BOOLEAN]

\* A row without a claim; created_at orders the rows, next_attempt_at is now or not yet.
Unclaimed(status, due) ==
    [status |-> status, attempts |-> 0, token |-> NoToken, lease |-> "free", due |-> due]
NoRow == Unclaimed("none", FALSE)
Fresh == Unclaimed("queued", TRUE)
Gone == Unclaimed("pruned", FALSE)

Queued(d) == row[d].status = "queued"

Init ==
    /\ row = [d \in Deliveries |-> NoRow]
    /\ worker = [w \in Workers |-> Idle]
    /\ deleted = {}
    /\ told = {} /\ posts = [d \in Deliveries |-> 0]
    /\ retries = 0 /\ restarts = 0

\* enqueueLogoutTx, for one sid; the transaction belongs to the revocation.
Enqueue(d) ==
    /\ row[d].status = "none" /\ ClientOf[d] \notin deleted
    /\ \A e \in Deliveries : e < d => row[e].status # "none"
    /\ row' = [row EXCEPT ![d] = Fresh]
    /\ UNCHANGED <<worker, deleted, told, posts, retries, restarts>>

-----------------------------------------------------------------------------
(* ClaimLogoutDelivery                                                     *)

Closed(r) == [r EXCEPT !.status = "failed", !.token = NoToken, !.lease = "free"]

\* The first statement: interrupted repeatedly, out of attempts.
AfterInterruptions ==
    [d \in Deliveries |->
        IF Queued(d) /\ row[d].lease = "lapsed" /\ row[d].attempts >= LogoutAttempts
        THEN Closed(row[d]) ELSE row[d]]

\* Bug: the lease is a claim on the delivery only, not on its client.
ClaimableByAny(r, d) ==
    /\ r[d].status = "queued" /\ r[d].due /\ r[d].lease # "held"
    /\ r[d].attempts < LogoutAttempts

\* Bug: a lease that ran out is never taken over.
ClaimableUnleased(r, d) ==
    /\ r[d].status = "queued" /\ r[d].due /\ r[d].lease = "free"
    /\ r[d].attempts < LogoutAttempts
    /\ \A e \in Deliveries :
         ClientOf[e] = ClientOf[d] => ~(r[e].status = "queued" /\ r[e].lease = "held")

\* The second statement's subquery, before ORDER BY.
Claimable(r, d) ==
    /\ r[d].status = "queued" /\ r[d].due /\ r[d].lease # "held"
    /\ r[d].attempts < LogoutAttempts
    /\ \A e \in Deliveries :
         ClientOf[e] = ClientOf[d] => ~(r[e].status = "queued" /\ r[e].lease = "held")

Oldest(r, d) == Claimable(r, d) /\ \A e \in Deliveries : Claimable(r, e) => d <= e

FreshToken(t) ==
    /\ \A d \in Deliveries : row[d].token # t
    /\ \A w \in Workers : worker[w] # Idle => worker[w].token # t

Leased(r, d, t) ==
    [r EXCEPT ![d].token = t, ![d].lease = "held", ![d].attempts = @ + 1]

\* One transaction. When nothing is claimable it returns before Commit, so the deferred
\* Rollback undoes the first statement as well and the step changes nothing.
Claim(w) ==
    LET r == AfterInterruptions IN
    /\ worker[w] = Idle
    /\ \E d \in Deliveries, t \in Tokens :
         /\ Oldest(r, d) /\ FreshToken(t)
         /\ row' = Leased(r, d, t)
         /\ worker' = [worker EXCEPT ![w] = [pc |-> "posting", id |-> d, token |-> t,
                                      attempts |-> row'[d].attempts, ok |-> FALSE]]
         /\ posts' = [posts EXCEPT ![d] = @ + 1]
    /\ UNCHANGED <<deleted, told, retries, restarts>>

-----------------------------------------------------------------------------
(* postLogout and FinishLogoutDelivery                                     *)

\* 200 or 204, any other answer, or no answer within the ten seconds, in which case the
\* receiver may have acted.
Answer(w) ==
    /\ worker[w].pc = "posting"
    /\ \E ok \in BOOLEAN :
         /\ worker' = [worker EXCEPT ![w].pc = "answered", ![w].ok = ok]
         /\ told' = IF ok THEN told \cup {worker[w].id} ELSE told
    /\ UNCHANGED <<row, deleted, posts, retries, restarts>>

\* Bug: the outcome is recorded by id alone.
MineById(w) == row[worker[w].id].status # "none"

\* The WHERE clause of FinishLogoutDelivery: the claim token still stands.
Mine(w) == row[worker[w].id].token = worker[w].token

Finished(r, a, ok) ==
    [r EXCEPT !.status = IF ok THEN "delivered"
                         ELSE IF a >= LogoutAttempts THEN "failed" ELSE "queued",
              !.token = NoToken, !.lease = "free", !.due = ok]

\* FinishLogoutDelivery; an attempt that lost its claim writes nothing.
Finish(w) ==
    LET d == worker[w].id IN
    /\ worker[w].pc = "answered"
    /\ row' = IF Mine(w)
              THEN [row EXCEPT ![d] = Finished(row[d], worker[w].attempts, worker[w].ok)]
              ELSE row
    /\ worker' = [worker EXCEPT ![w] = Idle]
    /\ UNCHANGED <<deleted, told, posts, retries, restarts>>

\* The outcome cannot be written; deliverLoop logs the error and goes on.
FinishFails(w) ==
    /\ worker[w].pc = "answered"
    /\ worker' = [worker EXCEPT ![w] = Idle]
    /\ UNCHANGED <<row, deleted, told, posts, retries, restarts>>

-----------------------------------------------------------------------------
(* Time, operators, restarts                                               *)

\* deliveryLease outlasts the HTTP timeout: an attempt that is still posting holds its lease.
LeaseLapses(d) ==
    /\ Queued(d) /\ row[d].lease = "held"
    /\ \A w \in Workers : worker[w].pc = "posting" => worker[w].token # row[d].token
    /\ row' = [row EXCEPT ![d].lease = "lapsed"]
    /\ UNCHANGED <<worker, deleted, told, posts, retries, restarts>>

\* logoutRetryDelay has passed.
BackoffEnds(d) ==
    /\ Queued(d) /\ ~row[d].due
    /\ row' = [row EXCEPT ![d].due = TRUE]
    /\ UNCHANGED <<worker, deleted, told, posts, retries, restarts>>

\* RetryLogoutDeliveryNow: whatever is not delivered, also while an attempt is under way.
Retry(d) ==
    /\ retries < MaxRetries /\ retries' = retries + 1
    /\ row[d].status \in {"queued", "failed"}
    /\ row' = [row EXCEPT ![d] = Fresh]
    /\ posts' = [posts EXCEPT ![d] = 0]
    /\ UNCHANGED <<worker, deleted, told, restarts>>

\* Bug: old rows go, whatever became of them.
PrunableWhenOld(d) == row[d].status \in {"delivered", "failed"}

Prunable(d) == row[d].status = "delivered"

\* DeleteLogoutDeliveriesOlderThan
Prune(d) ==
    /\ Prunable(d)
    /\ row' = [row EXCEPT ![d] = Gone]
    /\ UNCHANGED <<worker, deleted, told, posts, retries, restarts>>

\* DeleteOAuthClient: its rows cascade, a POST under way goes on.
DeleteOAuthClient(c) ==
    /\ c \notin deleted /\ deleted' = deleted \cup {c}
    /\ row' = [d \in Deliveries |->
                  IF ClientOf[d] = c /\ row[d].status # "none"
                  THEN Gone ELSE row[d]]
    /\ UNCHANGED <<worker, told, posts, retries, restarts>>

\* The process stops and starts: attempts in progress are forgotten, leases are not.
Restart ==
    /\ restarts < MaxRestarts /\ restarts' = restarts + 1
    /\ worker' = [w \in Workers |-> Idle]
    /\ UNCHANGED <<row, deleted, told, posts, retries>>

\* ApplyRestoredState in the new process: logins of the snapshot that no undelivered row
\* announces are queued, and every queued row starts over.
ApplyRestoredState ==
    /\ restarts < MaxRestarts /\ restarts' = restarts + 1
    /\ worker' = [w \in Workers |-> Idle]
    /\ \E new \in SUBSET {d \in Deliveries : row[d].status = "none" /\ ClientOf[d] \notin deleted} :
         /\ row' = [d \in Deliveries |-> IF Queued(d) \/ d \in new THEN Fresh ELSE row[d]]
         /\ posts' = [d \in Deliveries |-> IF Queued(d) THEN 0 ELSE posts[d]]
    /\ UNCHANGED <<deleted, told, retries>>

-----------------------------------------------------------------------------
WorkerStep(w) == Claim(w) \/ Answer(w) \/ Finish(w) \/ FinishFails(w)

DeliveryStep(d) ==
    Enqueue(d) \/ LeaseLapses(d) \/ BackoffEnds(d) \/ Retry(d) \/ Prune(d)

Next ==
    \/ \E w \in Workers : WorkerStep(w)
    \/ \E d \in Deliveries : DeliveryStep(d)
    \/ \E c \in Clients : DeleteOAuthClient(c)
    \/ Restart \/ ApplyRestoredState

Spec == Init /\ [][Next]_vars

\* Workers poll every three seconds, a POST ends within its timeout, the outcome is written
\* or the attempt is given up, leases and backoffs run out.
Fairness ==
    /\ \A w \in Workers :
         WF_vars(Claim(w)) /\ WF_vars(Answer(w)) /\ WF_vars(Finish(w) \/ FinishFails(w))
    /\ \A d \in Deliveries : WF_vars(LeaseLapses(d)) /\ WF_vars(BackoffEnds(d))

FairSpec == Spec /\ Fairness

-----------------------------------------------------------------------------
(* Properties                                                              *)

\* Rows and attempts have their shape; a claim token and a lease come and go together, on
\* queued rows only.
TypeOK ==
    /\ row \in [Deliveries -> Row]
    /\ \A d \in Deliveries :
         /\ row[d].token = NoToken <=> row[d].lease = "free"
         /\ row[d].token # NoToken => Queued(d)
    /\ worker \in [Workers -> Busy \cup {Idle}]
    /\ deleted \subseteq Clients
    /\ told \subseteq Deliveries
    /\ posts \in [Deliveries -> Nat]
    /\ retries \in 0..MaxRetries /\ restarts \in 0..MaxRestarts

Posting(w, c) == worker[w].pc = "posting" /\ ClientOf[worker[w].id] = c

OneInFlightPerClient ==
    \A c \in Clients, v, w \in Workers : Posting(v, c) /\ Posting(w, c) => v = w

\* "Deliveries run on four workers with at most one in flight per client", which keeps a
\* receiver that never answers from holding more than one worker. It lasts until an
\* administrator retries by hand: RetryLogoutDeliveryNow frees the lease of an attempt that
\* may still be under way.
OneInFlightUnlessRetried == retries = 0 => OneInFlightPerClient

\* A delivery is attempted at most LogoutAttempts times on one budget, also when attempts
\* are cut off by restarts and leases that run out.
AttemptBudget == \A d \in Deliveries : posts[d] <= LogoutAttempts

\* A recorded acknowledgement is final: no attempt that lost its lease, no restore and no
\* retry makes a delivered row anything but gone.
DeliveredIsFinal ==
    [][\A d \in Deliveries :
          row[d].status = "delivered" => row'[d].status \in {"delivered", "pruned"}]_vars

\* "The completion view must never read absence as success": a delivery row that is
\* delivered, or gone while its client exists, was acknowledged by the receiver.
AbsenceMeansTold ==
    \A d \in Deliveries :
        /\ row[d].status = "delivered" => d \in told
        /\ row[d].status = "pruned" /\ ClientOf[d] \notin deleted => d \in told

Settled(d) == row[d].status \in {"delivered", "failed", "pruned"}

\* Every delivery is settled in the end, or has spent its budget with the last attempt cut
\* off, whatever receivers answer and however often the process restarts.
AttemptsRunOut ==
    \A d \in Deliveries :
        Queued(d) ~> \/ Settled(d)
                     \/ row[d].lease = "lapsed" /\ row[d].attempts = LogoutAttempts
=============================================================================
