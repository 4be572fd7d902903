---------------------------- MODULE ClientProofs ----------------------------
(***************************************************************************)
(* What LogoutDelivery guarantees for any number of deliveries, clients,   *)
(* workers and attempts, and what AppAccess guarantees for any number of   *)
(* users and roles.                                                        *)
(***************************************************************************)
EXTENDS LogoutDelivery, AppAccess, TLAPS

\* A row of the right shape whose claim token and lease come and go together.
RowOK(r) ==
    /\ r \in Row
    /\ r.token = NoToken <=> r.lease = "free"
    /\ r.token # NoToken => r.status = "queued"

\* The parts of TypeOK about variables other than row.
Rest ==
    /\ worker \in [Workers -> Busy \cup {Idle}]
    /\ deleted \subseteq Clients
    /\ told \subseteq Deliveries
    /\ posts \in [Deliveries -> Nat]
    /\ retries \in 0..MaxRetries /\ restarts \in 0..MaxRestarts

\* TypeOK, row by row.
LEMMA TypeByRow ==
    TypeOK <=> row \in [Deliveries -> Row] /\ (\A d \in Deliveries : RowOK(row[d])) /\ Rest
  BY DEF TypeOK, RowOK, Rest, Queued

\* The rows inserted, reset, pruned or never inserted.
LEMMA PlainRows == RowOK(NoRow) /\ RowOK(Fresh) /\ RowOK(Gone)
  <1>1. ASSUME NEW st \in {"none", "queued", "pruned"}, NEW b \in BOOLEAN
        PROVE  RowOK(Unclaimed(st, b))
    BY BoundAssumption DEF RowOK, Row, Unclaimed, Statuses, Leases
  <1> QED
    BY <1>1 DEF NoRow, Fresh, Gone

\* ClaimLogoutDelivery's terminal marking.
LEMMA ClosedRow ==
    ASSUME NEW r, RowOK(r) PROVE RowOK(Closed(r))
  BY DEF RowOK, Row, Closed, Statuses, Leases

\* The claim itself.
LEMMA LeasedRow ==
    ASSUME NEW r, RowOK(r), r.status = "queued", r.attempts < LogoutAttempts,
           NEW t \in Tokens, NEW n, n = r.attempts + 1
    PROVE  RowOK([r EXCEPT !.token = t, !.lease = "held", !.attempts = n])
  <1>1. n \in 0..LogoutAttempts
    BY BoundAssumption DEF RowOK, Row
  <1> QED
    BY <1>1, TokenAssumption DEF RowOK, Row, Leases

\* FinishLogoutDelivery's row.
LEMMA FinishedRow ==
    ASSUME NEW r, RowOK(r), NEW a, NEW ok \in BOOLEAN
    PROVE  RowOK(Finished(r, a, ok))
  <1>1. ASSUME NEW st \in {"delivered", "failed", "queued"}
        PROVE  RowOK([r EXCEPT !.status = st, !.token = NoToken, !.lease = "free", !.due = ok])
    BY DEF RowOK, Row, Statuses, Leases
  <1> QED
    BY <1>1 DEF Finished

\* A lease running out, a backoff ending.
LEMMA WaitingRow ==
    ASSUME NEW r, RowOK(r)
    PROVE  /\ r.lease = "held" => RowOK([r EXCEPT !.lease = "lapsed"])
           /\ RowOK([r EXCEPT !.due = TRUE])
  BY DEF RowOK, Row, Leases

-----------------------------------------------------------------------------
\* A worker past its claim holds an attempt.
LEMMA AtWork ==
    ASSUME worker \in [Workers -> Busy \cup {Idle}], NEW w \in Workers,
           worker[w].pc \in {"posting", "answered"}
    PROVE  worker[w] \in Busy
  BY DEF Idle

\* Replacing one row by a good one.
LEMMA OneRow ==
    ASSUME row \in [Deliveries -> Row], \A d \in Deliveries : RowOK(row[d]),
           NEW d \in Deliveries, NEW r, RowOK(r), row' = [row EXCEPT ![d] = r], Rest'
    PROVE  TypeOK'
  BY DEF TypeOK, RowOK, Rest, Queued

\* Replacing any rows by good ones.
LEMMA AllRows ==
    ASSUME NEW f, \A d \in Deliveries : RowOK(f[d]), row' = [d \in Deliveries |-> f[d]], Rest'
    PROVE  TypeOK'
  BY DEF TypeOK, RowOK, Rest, Queued

\* A step that leaves the rows alone.
LEMMA SameRows ==
    ASSUME TypeOK, row' = row, Rest' PROVE TypeOK'
  BY DEF TypeOK, Rest, Queued

\* The rows after the claim's first statement.
LEMMA Interrupted ==
    ASSUME TypeOK
    PROVE  /\ AfterInterruptions \in [Deliveries -> Row]
           /\ \A d \in Deliveries : RowOK(AfterInterruptions[d])
  <1>1. ASSUME NEW d \in Deliveries PROVE RowOK(AfterInterruptions[d])
    BY TypeByRow, ClosedRow DEF AfterInterruptions
  <1> QED
    BY <1>1 DEF RowOK, AfterInterruptions

\* ClaimLogoutDelivery keeps the types.
LEMMA TypeClaim ==
    ASSUME TypeOK, NEW w \in Workers, Claim(w) PROVE TypeOK'
  <1> DEFINE r == AfterInterruptions
  <1>1. PICK d \in Deliveries, t \in Tokens :
          /\ Oldest(r, d) /\ FreshToken(t)
          /\ row' = Leased(r, d, t)
          /\ worker' = [worker EXCEPT ![w] = [pc |-> "posting", id |-> d, token |-> t,
                                       attempts |-> row'[d].attempts, ok |-> FALSE]]
          /\ posts' = [posts EXCEPT ![d] = @ + 1]
    BY DEF Claim
  <1>2. r \in [Deliveries -> Row] /\ \A e \in Deliveries : RowOK(r[e])
    BY Interrupted
  <1>3. r[d].status = "queued" /\ r[d].attempts < LogoutAttempts
    BY <1>1 DEF Oldest, Claimable
  <1> DEFINE n == r[d].attempts + 1
             q == [r[d] EXCEPT !.token = t, !.lease = "held", !.attempts = n]
  <1>4. RowOK(q)
    BY <1>2, <1>3, LeasedRow
  <1> HIDE DEF r
  <1>5. Leased(r, d, t) = [r EXCEPT ![d] = q]
    BY <1>2 DEF Leased, Row
  <1> HIDE DEF q, n
  <1>6. row' = [e \in Deliveries |-> IF e = d THEN q ELSE r[e]]
    BY <1>1, <1>2, <1>5
  <1>7. row'[d].attempts \in 0..LogoutAttempts
    BY <1>4, <1>6 DEF RowOK, Row
  <1>8. Rest'
    <2>1. worker' \in [Workers -> Busy \cup {Idle}]
      <3>1. ASSUME NEW b \in BOOLEAN, NEW k \in 0..LogoutAttempts
            PROVE  [pc |-> "posting", id |-> d, token |-> t, attempts |-> k, ok |-> b] \in Busy
        BY DEF Busy
      <3> QED
        BY <3>1, <1>1, <1>7 DEF TypeOK
    <2> QED
      BY <2>1, <1>1 DEF TypeOK, Rest, Claim
  <1>9. \A e \in Deliveries : RowOK(IF e = d THEN q ELSE r[e])
    BY <1>2, <1>4
  <1> DEFINE f == [e \in Deliveries |-> IF e = d THEN q ELSE r[e]]
  <1>10. /\ \A e \in Deliveries : RowOK(f[e])
         /\ row' = [e \in Deliveries |-> f[e]]
    BY <1>6, <1>9
  <1> HIDE DEF f
  <1> QED
    BY <1>8, <1>10, AllRows

\* The answer to a POST, in whichever way it ends.
LEMMA TypeAnswer ==
    ASSUME TypeOK, NEW w \in Workers, Answer(w) PROVE TypeOK'
  <1>1. worker[w] \in Busy
    BY AtWork DEF TypeOK, Answer
  <1>2. ASSUME NEW b \in BOOLEAN
        PROVE  [worker EXCEPT ![w].pc = "answered", ![w].ok = b] \in [Workers -> Busy \cup {Idle}]
    BY <1>1 DEF TypeOK, Busy
  <1>3. Rest'
    BY <1>1, <1>2, ZenonT(30) DEF Answer, TypeOK, Rest, Busy
  <1> QED
    BY <1>3, SameRows DEF Answer

\* FinishLogoutDelivery, also when the claim was lost or the write fails.
LEMMA TypeFinish ==
    ASSUME TypeOK, NEW w \in Workers, Finish(w) \/ FinishFails(w) PROVE TypeOK'
  <1>1. worker[w] \in Busy
    BY AtWork DEF TypeOK, Finish, FinishFails
  <1>2. Rest'
    BY DEF Finish, FinishFails, TypeOK, Rest
  <1> DEFINE d == worker[w].id
             q == Finished(row[d], worker[w].attempts, worker[w].ok)
  <1>3. d \in Deliveries /\ worker[w].ok \in BOOLEAN
    BY <1>1 DEF Busy
  <1>4. RowOK(q)
    BY <1>3, TypeByRow, FinishedRow
  <1>5. row' = row \/ row' = [row EXCEPT ![d] = q]
    BY DEF Finish, FinishFails
  <1>6. CASE row' = row
    BY <1>2, <1>6, SameRows
  <1>7. CASE row' = [row EXCEPT ![d] = q]
    <2> HIDE DEF d, q
    <2> QED
      BY <1>2, <1>3, <1>4, <1>7, TypeByRow, OneRow
  <1> QED
    BY <1>5, <1>6, <1>7

\* The steps that touch one row outside an attempt.
LEMMA TypeDelivery ==
    ASSUME TypeOK, NEW d \in Deliveries, DeliveryStep(d) PROVE TypeOK'
  <1>1. Rest'
    BY BoundAssumption
    DEF DeliveryStep, Enqueue, LeaseLapses, BackoffEnds, Retry, Prune, TypeOK, Rest
  <1>2. PICK r : RowOK(r) /\ row' = [row EXCEPT ![d] = r]
    <2>1. CASE Enqueue(d) \/ Retry(d)
      BY <2>1, PlainRows DEF Enqueue, Retry
    <2>2. CASE Prune(d)
      BY <2>2, PlainRows DEF Prune
    <2>3. CASE LeaseLapses(d)
      <3> DEFINE q == [row[d] EXCEPT !.lease = "lapsed"]
      <3>1. RowOK(q)
        BY <2>3, TypeByRow, WaitingRow DEF LeaseLapses
      <3>2. row' = [row EXCEPT ![d] = q]
        BY <2>3 DEF LeaseLapses, TypeOK
      <3> HIDE DEF q
      <3> QED BY <3>1, <3>2
    <2>4. CASE BackoffEnds(d)
      <3> DEFINE q == [row[d] EXCEPT !.due = TRUE]
      <3>1. RowOK(q)
        BY TypeByRow, WaitingRow
      <3>2. row' = [row EXCEPT ![d] = q]
        BY <2>4 DEF BackoffEnds, TypeOK
      <3> HIDE DEF q
      <3> QED BY <3>1, <3>2
    <2> QED
      BY <2>1, <2>2, <2>3, <2>4 DEF DeliveryStep
  <1> QED
    BY <1>1, <1>2, TypeByRow, OneRow

\* The cascade of a deleted client.
LEMMA TypeDeleteClient ==
    ASSUME TypeOK, NEW c \in Clients, DeleteOAuthClient(c) PROVE TypeOK'
  <1> DEFINE f == [d \in Deliveries |-> IF ClientOf[d] = c /\ row[d].status # "none"
                                        THEN Gone ELSE row[d]]
  <1>1. \A d \in Deliveries : RowOK(f[d])
    BY TypeByRow, PlainRows
  <1>2. row' = [d \in Deliveries |-> f[d]]
    BY DEF DeleteOAuthClient
  <1>3. Rest'
    BY DEF DeleteOAuthClient, TypeOK, Rest
  <1> HIDE DEF f
  <1> QED
    BY <1>1, <1>2, <1>3, AllRows

\* A restart of the process and a restore.
LEMMA TypeRestart ==
    ASSUME TypeOK, Restart \/ ApplyRestoredState PROVE TypeOK'
  <1>1. Rest'
    BY BoundAssumption DEF Restart, ApplyRestoredState, TypeOK, Rest
  <1>2. CASE Restart
    BY <1>1, <1>2, SameRows DEF Restart
  <1>3. CASE ApplyRestoredState
    <2>1. PICK new : row' = [d \in Deliveries |-> IF Queued(d) \/ d \in new THEN Fresh ELSE row[d]]
      BY <1>3 DEF ApplyRestoredState
    <2> DEFINE f == [d \in Deliveries |-> IF Queued(d) \/ d \in new THEN Fresh ELSE row[d]]
    <2>2. \A d \in Deliveries : RowOK(f[d])
      BY TypeByRow, PlainRows
    <2>3. row' = [d \in Deliveries |-> f[d]]
      BY <2>1
    <2> HIDE DEF f
    <2> QED
      BY <1>1, <2>2, <2>3, AllRows
  <1> QED
    BY <1>2, <1>3

\* The empty queue.
LEMMA TypeInit == Init => TypeOK
  <1> SUFFICES ASSUME Init PROVE TypeOK
    OBVIOUS
  <1>1. Rest
    BY BoundAssumption DEF Init, Rest
  <1>2. row = [d \in Deliveries |-> NoRow]
    BY DEF Init
  <1>3. RowOK(NoRow) /\ NoRow \in Row
    BY PlainRows DEF RowOK
  <1> HIDE DEF NoRow
  <1> QED
    BY <1>1, <1>2, <1>3, TypeByRow

\* Every step of the queue keeps the types.
LEMMA TypeStep == TypeOK /\ [Next]_vars => TypeOK'
  <1> SUFFICES ASSUME TypeOK, [Next]_vars PROVE TypeOK'
    OBVIOUS
  <1>1. ASSUME NEW w \in Workers, WorkerStep(w) PROVE TypeOK'
    BY <1>1, TypeClaim, TypeAnswer, TypeFinish DEF WorkerStep
  <1>2. CASE UNCHANGED vars
    BY <1>2 DEF vars, TypeOK, Queued
  <1> QED
    BY <1>1, <1>2, TypeDelivery, TypeDeleteClient, TypeRestart DEF Next

\* Rows, attempts and counters have their shape in every reachable state, and a claim
\* token is on a row exactly as long as a lease is, on queued rows only.
THEOREM TypeCorrect == Spec => []TypeOK
  BY TypeInit, TypeStep, PTL DEF Spec
-----------------------------------------------------------------------------
\* The ways a row may come to be delivered or pruned, or stop being delivered.
Moves(d) ==
    /\ row'[d].status = "delivered" =>
         \/ row[d].status = "delivered"
         \/ \E w \in Workers : worker[w].pc = "answered" /\ worker[w].ok /\ worker[w].id = d
    /\ row'[d].status = "pruned" =>
         row[d].status \in {"pruned", "delivered"} \/ ClientOf[d] \in deleted'
    /\ row[d].status = "delivered" => row'[d].status \in {"delivered", "pruned"}

\* A claim never touches a row that is not queued, and leaves a queued one queued or failed.
LEMMA MovesClaim ==
    ASSUME TypeOK, NEW w \in Workers, Claim(w), NEW d \in Deliveries PROVE Moves(d)
  <1> DEFINE r == AfterInterruptions
  <1>1. PICK e \in Deliveries, t \in Tokens : Oldest(r, e) /\ row' = Leased(r, e, t)
    BY DEF Claim
  <1>2. r \in [Deliveries -> Row] /\ r[d].status \in {row[d].status, "failed"}
        /\ (row[d].status # "queued" => r[d] = row[d])
    BY Interrupted DEF AfterInterruptions, Closed, Queued, TypeOK, Row
  <1> HIDE DEF r
  <1>3. row'[d].status = r[d].status
    BY <1>1, <1>2 DEF Leased, Row
  <1> QED
    BY <1>2, <1>3 DEF Moves

\* Finishing writes only where the claim token stands, which is on a queued row.
LEMMA MovesFinish ==
    ASSUME TypeOK, NEW w \in Workers, Finish(w), NEW d \in Deliveries PROVE Moves(d)
  <1>1. worker[w] \in Busy
    BY AtWork DEF TypeOK, Finish
  <1> DEFINE e == worker[w].id
  <1>2. e \in Deliveries /\ worker[w].token # NoToken
    BY <1>1, TokenAssumption DEF Busy
  <1>3. CASE Mine(w) /\ d = e
    <2>1. Queued(d)
      BY <1>2, <1>3 DEF Mine, TypeOK
    <2>2. row'[d] = Finished(row[d], worker[w].attempts, worker[w].ok)
      BY <1>2, <1>3 DEF Finish, TypeOK
    <2>3. row'[d].status = "delivered" => worker[w].ok
      BY <2>2 DEF Finished, TypeOK, Row
    <2>4. row'[d].status # "pruned"
      BY <2>2 DEF Finished, TypeOK, Row
    <2> QED
      BY <1>3, <2>1, <2>3, <2>4 DEF Moves, Queued, Finish
  <1>4. CASE ~(Mine(w) /\ d = e)
    <2>1. row'[d] = row[d]
      BY <1>2, <1>4 DEF Finish, TypeOK
    <2> QED
      BY <2>1 DEF Moves
  <1> QED
    BY <1>3, <1>4

\* Every step moves every row in one of the allowed ways.
LEMMA MovesStep ==
    ASSUME TypeOK, [Next]_vars, NEW d \in Deliveries PROVE Moves(d)
  <1>1. CASE row' = row
    BY <1>1 DEF Moves
  <1>2. ASSUME NEW e \in Deliveries, DeliveryStep(e) PROVE Moves(d)
    BY <1>2 DEF DeliveryStep, Enqueue, LeaseLapses, BackoffEnds, Retry, Prune, Prunable,
                Fresh, Gone, Unclaimed, Queued, Moves, TypeOK, Row
  <1>3. ASSUME NEW c \in Clients, DeleteOAuthClient(c) PROVE Moves(d)
    BY <1>3 DEF DeleteOAuthClient, Gone, Unclaimed, Moves
  <1>4. ASSUME ApplyRestoredState PROVE Moves(d)
    BY <1>4 DEF ApplyRestoredState, Fresh, Unclaimed, Queued, Moves
  <1>5. ASSUME NEW w \in Workers, WorkerStep(w) PROVE Moves(d)
    BY <1>1, <1>5, MovesClaim, MovesFinish DEF WorkerStep, Answer, FinishFails
  <1> QED
    BY <1>1, <1>2, <1>3, <1>4, <1>5 DEF Next, Restart, vars

\* FinishLogoutDelivery, RetryLogoutDeliveryNow, ApplyRestoredState and the pruning never
\* take a recorded acknowledgement back, for any number of workers and restarts.
THEOREM DeliveredIsFinalAlways == Spec => DeliveredIsFinal
  <1>1. TypeOK /\ [Next]_vars =>
          [\A d \in Deliveries : row[d].status = "delivered"
                                   => row'[d].status \in {"delivered", "pruned"}]_vars
    BY MovesStep DEF Moves
  <1> QED
    BY <1>1, TypeCorrect, PTL DEF Spec, DeliveredIsFinal

-----------------------------------------------------------------------------
\* What a worker believes it was told is what the receiver said.
AckKnown ==
    \A w \in Workers : worker[w].pc = "answered" /\ worker[w].ok => worker[w].id \in told

\* Acknowledgements are neither invented nor forgotten.
LEMMA AckStep ==
    ASSUME TypeOK, AckKnown, [Next]_vars
    PROVE  AckKnown' /\ told \subseteq told' /\ deleted \subseteq deleted'
  <1>1. ASSUME NEW w \in Workers, Claim(w) \/ Finish(w) \/ FinishFails(w) PROVE AckKnown'
    BY <1>1 DEF Claim, Finish, FinishFails, AckKnown, TypeOK, Idle
  <1>2. ASSUME NEW w \in Workers, Answer(w) PROVE AckKnown'
    <2>1. worker[w] \in Busy
      BY <1>2, AtWork DEF TypeOK, Answer
    <2>2. PICK b \in BOOLEAN :
            /\ worker' = [worker EXCEPT ![w].pc = "answered", ![w].ok = b]
            /\ told' = IF b THEN told \cup {worker[w].id} ELSE told
      BY <1>2 DEF Answer
    <2>3. worker'[w].ok = b /\ worker'[w].id = worker[w].id
      BY <2>1, <2>2 DEF TypeOK, Busy
    <2>4. \A v \in Workers \ {w} : worker'[v] = worker[v]
      BY <2>2 DEF TypeOK
    <2>5. b => worker[w].id \in told'
      BY <2>2
    <2>6. told \subseteq told'
      BY <2>2
    <2>7. ASSUME NEW v \in Workers, (worker[v].pc = "answered")', worker'[v].ok
          PROVE  worker'[v].id \in told'
      <3>1. CASE v = w
        BY <2>3, <2>5, <2>7, <3>1, Zenon
      <3>2. CASE v # w
        BY <2>4, <2>6, <2>7, <3>2 DEF AckKnown
      <3> QED BY <3>1, <3>2
    <2> QED
      BY <2>7 DEF AckKnown
  <1>3. ASSUME NEW d \in Deliveries, DeliveryStep(d) PROVE AckKnown'
    BY <1>3 DEF DeliveryStep, Enqueue, LeaseLapses, BackoffEnds, Retry, Prune, AckKnown
  <1>4. ASSUME NEW c \in Clients, DeleteOAuthClient(c) PROVE AckKnown'
    BY <1>4 DEF DeleteOAuthClient, AckKnown
  <1>5. CASE Restart \/ ApplyRestoredState
    BY <1>5 DEF Restart, ApplyRestoredState, AckKnown, Idle
  <1>6. CASE UNCHANGED vars
    BY <1>6 DEF vars, AckKnown
  <1>7. told \subseteq told' /\ deleted \subseteq deleted'
    BY DEF Next, WorkerStep, Claim, Answer, Finish, FinishFails, DeliveryStep, Enqueue,
           LeaseLapses, BackoffEnds, Retry, Prune, DeleteOAuthClient, Restart,
           ApplyRestoredState, vars
  <1> QED
    BY <1>1, <1>2, <1>3, <1>4, <1>5, <1>6, <1>7 DEF Next, WorkerStep

\* A delivery row that says delivered, or is gone while its client exists, was acknowledged
\* by the receiver, whatever was retried, restored or pruned in between.
THEOREM AbsenceMeansToldAlways == Spec => []AbsenceMeansTold
  <1>1. Init => AbsenceMeansTold /\ AckKnown
    BY DEF Init, AbsenceMeansTold, AckKnown, NoRow, Unclaimed, Idle
  <1>2. TypeOK /\ AbsenceMeansTold /\ AckKnown /\ [Next]_vars
          => AbsenceMeansTold' /\ AckKnown'
    BY MovesStep, AckStep DEF Moves, AbsenceMeansTold, AckKnown
  <1> QED
    BY <1>1, <1>2, TypeCorrect, PTL DEF Spec
-----------------------------------------------------------------------------
\* The attempts column counts the attempts made, as long as it can still limit them.
Counted(d) ==
    /\ posts[d] <= LogoutAttempts
    /\ row[d].status = "none" => posts[d] = 0
    /\ Queued(d) => posts[d] <= row[d].attempts

\* A claim makes one attempt and counts it in the same transaction.
LEMMA CountedClaim ==
    ASSUME TypeOK, NEW w \in Workers, Claim(w), NEW d \in Deliveries, Counted(d)
    PROVE  Counted(d)'
  <1> DEFINE r == AfterInterruptions
  <1>1. PICK e \in Deliveries, t \in Tokens :
          Oldest(r, e) /\ row' = Leased(r, e, t) /\ posts' = [posts EXCEPT ![e] = @ + 1]
    BY DEF Claim
  <1>2. /\ r \in [Deliveries -> Row]
        /\ r[d].status \in {row[d].status, "failed"} /\ r[d].attempts = row[d].attempts
        /\ r[d].status = "queued" => row[d].status = "queued"
        /\ r[d].status = "none" => row[d].status = "none"
    BY Interrupted DEF AfterInterruptions, Closed, Queued, TypeOK, Row
  <1>3. r[e].status = "queued" /\ r[e].attempts < LogoutAttempts
    BY <1>1 DEF Oldest, Claimable
  <1> HIDE DEF r
  <1>4. r[d].attempts \in Nat /\ posts[d] \in Nat /\ LogoutAttempts \in Nat
    BY <1>2, BoundAssumption DEF TypeOK, Row
  <1>5. CASE d = e
    <2>1. row'[d].attempts = r[d].attempts + 1 /\ row'[d].status = "queued"
      BY <1>1, <1>2, <1>3, <1>5 DEF Leased, Row
    <2>2. posts'[d] = posts[d] + 1
      BY <1>1, <1>5 DEF TypeOK
    <2> QED
      BY <1>2, <1>3, <1>4, <1>5, <2>1, <2>2 DEF Counted, Queued
  <1>6. CASE d # e
    <2>1. row'[d] = r[d] /\ posts'[d] = posts[d]
      BY <1>1, <1>2, <1>6 DEF Leased, TypeOK
    <2> QED
      BY <1>2, <2>1 DEF Counted, Queued
  <1> QED
    BY <1>5, <1>6

\* An outcome closes the row or leaves its count alone.
LEMMA CountedFinish ==
    ASSUME TypeOK, NEW w \in Workers, Finish(w), NEW d \in Deliveries, Counted(d)
    PROVE  Counted(d)'
  <1>1. worker[w] \in Busy
    BY AtWork DEF TypeOK, Finish
  <1>2. worker[w].id \in Deliveries /\ worker[w].token # NoToken
    BY <1>1, TokenAssumption DEF Busy
  <1>3. CASE Mine(w) /\ d = worker[w].id
    <2>1. Queued(d)
      BY <1>2, <1>3 DEF Mine, TypeOK
    <2>2. row'[d] = Finished(row[d], worker[w].attempts, worker[w].ok)
      BY <1>2, <1>3 DEF Finish, TypeOK
    <2>3. row'[d].status # "none" /\ row'[d].attempts = row[d].attempts
      BY <2>2 DEF Finished, TypeOK, Row
    <2> QED
      BY <2>1, <2>3 DEF Counted, Queued, Finish
  <1>4. CASE ~(Mine(w) /\ d = worker[w].id)
    <2>1. row'[d] = row[d]
      BY <1>2, <1>4 DEF Finish, TypeOK
    <2> QED
      BY <2>1 DEF Counted, Queued, Finish
  <1> QED
    BY <1>3, <1>4

\* Every step keeps the count.
LEMMA CountedStep ==
    ASSUME TypeOK, [Next]_vars, NEW d \in Deliveries, Counted(d) PROVE Counted(d)'
  <1>1. CASE row' = row /\ posts' = posts
    BY <1>1 DEF Counted, Queued
  <1>2. ASSUME NEW e \in Deliveries, DeliveryStep(e) PROVE Counted(d)'
    BY <1>2, BoundAssumption
    DEF DeliveryStep, Enqueue, LeaseLapses, BackoffEnds, Retry, Prune, Prunable,
        Fresh, Gone, Unclaimed, Queued, Counted, TypeOK, Row
  <1>3. ASSUME NEW c \in Clients, DeleteOAuthClient(c) PROVE Counted(d)'
    BY <1>3 DEF DeleteOAuthClient, Gone, Unclaimed, Counted, Queued
  <1>4. CASE ApplyRestoredState
    BY <1>4, BoundAssumption
    DEF ApplyRestoredState, Fresh, Unclaimed, Queued, Counted, TypeOK, Row
  <1>5. ASSUME NEW w \in Workers, WorkerStep(w) PROVE Counted(d)'
    BY <1>1, <1>5, CountedClaim, CountedFinish DEF WorkerStep, Answer, FinishFails
  <1> QED
    BY <1>1, <1>2, <1>3, <1>4, <1>5 DEF Next, Restart, vars

\* A delivery is posted at most LogoutAttempts times on one budget, although attempts are
\* cut off by restarts and leases that run out and FinishLogoutDelivery may never run.
THEOREM AttemptBudgetAlways == Spec => []AttemptBudget
  <1> DEFINE Inv == \A d \in Deliveries : Counted(d)
  <1>1. Init => Inv
    BY BoundAssumption DEF Init, Counted, NoRow, Unclaimed, Queued
  <1>2. TypeOK /\ Inv /\ [Next]_vars => Inv'
    BY CountedStep
  <1>3. Inv => AttemptBudget
    BY DEF Counted, AttemptBudget
  <1> HIDE DEF Inv
  <1> QED
    BY <1>1, <1>2, <1>3, TypeCorrect, PTL DEF Spec
-----------------------------------------------------------------------------
\* One lease per client, ClaimLogoutDelivery's NOT EXISTS.
OneLease ==
    \A d, e \in Deliveries :
        ClientOf[d] = ClientOf[e] /\ row[d].lease = "held" /\ row[e].lease = "held" => d = e

\* An attempt under way is covered by the lease it took, unless its client is gone.
Covered ==
    \A w \in Workers : worker[w].pc = "posting" =>
        LET d == worker[w].id IN
        ClientOf[d] \in deleted \/ (row[d].token = worker[w].token /\ row[d].lease = "held")

\* No two attempts share a claim token.
OwnToken ==
    \A v, w \in Workers :
        worker[v] # Idle /\ worker[w] # Idle /\ worker[v].token = worker[w].token => v = w

\* A deleted client has nothing left to deliver.
NoneForDeleted == \A d \in Deliveries : ClientOf[d] \in deleted => ~Queued(d)

Exclusive == OneLease /\ Covered /\ OwnToken /\ NoneForDeleted /\ OneInFlightPerClient

\* A claim takes the lease of a client nobody is posting to.
LEMMA ExclusiveClaim ==
    ASSUME TypeOK, Exclusive, NEW w \in Workers, Claim(w) PROVE Exclusive'
  <1> DEFINE r == AfterInterruptions
  <1>1. PICK d \in Deliveries, t \in Tokens :
          /\ Oldest(r, d) /\ FreshToken(t)
          /\ row' = Leased(r, d, t)
          /\ worker' = [worker EXCEPT ![w] = [pc |-> "posting", id |-> d, token |-> t,
                                       attempts |-> row'[d].attempts, ok |-> FALSE]]
    BY DEF Claim
  <1>2. r \in [Deliveries -> Row] /\ deleted' = deleted /\ worker[w] = Idle
    BY Interrupted DEF Claim
  <1>3. \A e \in Deliveries :
          /\ r[e].lease = "held" <=> row[e].lease = "held"
          /\ r[e].lease = "held" => r[e] = row[e]
          /\ r[e].status = "queued" => Queued(e)
    BY DEF AfterInterruptions, Closed, Queued, TypeOK, Row
  <1>4. /\ r[d].status = "queued" /\ r[d].lease # "held"
        /\ \A e \in Deliveries : ClientOf[e] = ClientOf[d] =>
             ~(r[e].status = "queued" /\ r[e].lease = "held")
    BY <1>1 DEF Oldest, Claimable
  <1>5. \A e \in Deliveries : ClientOf[e] = ClientOf[d] => row[e].lease # "held"
    BY <1>3, <1>4 DEF TypeOK, Queued
  <1>6. ClientOf[d] \notin deleted
    BY <1>3, <1>4 DEF Exclusive, NoneForDeleted
  <1> HIDE DEF r
  <1>7. /\ row'[d].token = t /\ row'[d].lease = "held" /\ row'[d].status = "queued"
        /\ \A e \in Deliveries \ {d} : row'[e] = r[e]
    BY <1>1, <1>2, <1>4 DEF Leased, Row
  <1>8. /\ worker'[w].pc = "posting" /\ worker'[w].id = d /\ worker'[w].token = t
        /\ \A v \in Workers \ {w} : worker'[v] = worker[v]
    BY <1>1 DEF TypeOK
  <1>9. \A v \in Workers : worker[v].pc = "posting" =>
          worker[v] # Idle /\ worker[v].id \in Deliveries /\ worker[v].token # t
    BY <1>1, AtWork DEF FreshToken, Idle, TypeOK, Busy
  <1>10. OneLease'
    BY <1>3, <1>5, <1>7 DEF Exclusive, OneLease
  <1>11. Covered'
    BY <1>2, <1>3, <1>5, <1>7, <1>8, <1>9 DEF Exclusive, Covered, Idle
  <1>12. OwnToken'
    BY <1>1, <1>8 DEF Exclusive, OwnToken, FreshToken
  <1>13. NoneForDeleted'
    BY <1>2, <1>3, <1>6, <1>7 DEF Exclusive, NoneForDeleted, Queued
  <1>14. OneInFlightPerClient'
    <2>1. ASSUME NEW v \in Workers \ {w}, worker[v].pc = "posting"
          PROVE  ClientOf[worker[v].id] # ClientOf[d]
      BY <2>1, <1>5, <1>6, <1>9 DEF Exclusive, Covered
    <2> QED
      BY <2>1, <1>8 DEF Exclusive, OneInFlightPerClient, Posting
  <1> QED
    BY <1>10, <1>11, <1>12, <1>13, <1>14 DEF Exclusive

\* The end of an attempt frees no lease but its own.
LEMMA ExclusiveEnd ==
    ASSUME TypeOK, Exclusive, NEW w \in Workers, Answer(w) \/ Finish(w) \/ FinishFails(w)
    PROVE  Exclusive'
  <1>1. worker[w] \in Busy /\ worker[w] # Idle
    BY AtWork DEF TypeOK, Answer, Finish, FinishFails, Idle
  <1>2. /\ worker'[w].pc # "posting"
        /\ worker'[w] # Idle => worker'[w].token = worker[w].token
        /\ \A v \in Workers \ {w} : worker'[v] = worker[v]
    BY <1>1 DEF Answer, Finish, FinishFails, TypeOK, Idle, Busy
  <1>3. deleted' = deleted
    BY DEF Answer, Finish, FinishFails
  <1>4. ASSUME NEW e \in Deliveries
        PROVE  \/ row'[e] = row[e]
               \/ /\ row[e].token = worker[w].token /\ Queued(e)
                  /\ row'[e].lease = "free" /\ row'[e].status \in Statuses
    <2>1. CASE Answer(w) \/ FinishFails(w)
      BY <2>1 DEF Answer, FinishFails
    <2>2. CASE Finish(w)
      <3>1. worker[w].id \in Deliveries /\ worker[w].token # NoToken
        BY <1>1, TokenAssumption DEF Busy
      <3>2. CASE Mine(w) /\ e = worker[w].id
        <4>1. row'[e] = Finished(row[e], worker[w].attempts, worker[w].ok)
          BY <2>2, <3>1, <3>2 DEF Finish, TypeOK
        <4>2. row'[e].lease = "free" /\ row'[e].status \in Statuses
          BY <4>1 DEF Finished, TypeOK, Row, Statuses
        <4> QED
          BY <3>1, <3>2, <4>2 DEF Mine, TypeOK
      <3>3. CASE ~(Mine(w) /\ e = worker[w].id)
        BY <2>2, <3>1, <3>3 DEF Finish, TypeOK
      <3> QED
        BY <3>2, <3>3
    <2> QED
      BY <2>1, <2>2
  <1>5. OneLease'
    BY <1>4 DEF Exclusive, OneLease
  <1>6. Covered'
    <2>1. ASSUME NEW v \in Workers \ {w}, worker[v].pc = "posting"
          PROVE  worker[v] # Idle /\ worker[v].id \in Deliveries
                 /\ worker[v].token # worker[w].token
      BY <2>1, <1>1, AtWork DEF Exclusive, OwnToken, TypeOK, Busy, Idle
    <2> QED
      BY <2>1, <1>2, <1>3, <1>4 DEF Exclusive, Covered
  <1>7. OwnToken'
    BY <1>1, <1>2 DEF Exclusive, OwnToken
  <1>8. NoneForDeleted'
    BY <1>3, <1>4 DEF Exclusive, NoneForDeleted, Queued
  <1>9. OneInFlightPerClient'
    BY <1>2 DEF Exclusive, OneInFlightPerClient, Posting
  <1> QED
    BY <1>5, <1>6, <1>7, <1>8, <1>9 DEF Exclusive

\* A step on one row, other than a retry, leaves a lease that covers an attempt alone.
LEMMA ExclusiveDelivery ==
    ASSUME TypeOK, Exclusive, retries' = 0, NEW d \in Deliveries, DeliveryStep(d)
    PROVE  Exclusive'
  <1>1. worker' = worker /\ deleted' = deleted /\ ~Retry(d)
    BY DEF DeliveryStep, Enqueue, LeaseLapses, BackoffEnds, Retry, Prune, TypeOK
  <1>2. \A e \in Deliveries \ {d} : row'[e] = row[e]
    BY DEF DeliveryStep, Enqueue, LeaseLapses, BackoffEnds, Retry, Prune, TypeOK
  <1>3. row'[d].lease = "held" => row[d].lease = "held" /\ row'[d].token = row[d].token
    BY <1>1 DEF DeliveryStep, Enqueue, LeaseLapses, BackoffEnds, Prune, TypeOK, Fresh, Gone,
                Unclaimed, Row
  <1>4. ASSUME row[d].lease = "held", row'[d].lease # "held"
        PROVE  \A w \in Workers : worker[w].pc = "posting" => worker[w].token # row[d].token
    BY <1>4, <1>1 DEF DeliveryStep, Enqueue, LeaseLapses, BackoffEnds, Prune, Prunable, TypeOK,
                      Fresh, Gone, Unclaimed, Row, Queued
  <1>5. Queued(d)' => Queued(d) \/ ClientOf[d] \notin deleted
    BY <1>1 DEF DeliveryStep, Enqueue, LeaseLapses, BackoffEnds, Prune, Gone, Unclaimed, Queued,
                TypeOK
  <1>6. OneLease'
    BY <1>2, <1>3 DEF Exclusive, OneLease
  <1>7. Covered'
    BY <1>1, <1>2, <1>3, <1>4, AtWork DEF Exclusive, Covered, TypeOK, Busy
  <1>8. OwnToken' /\ OneInFlightPerClient'
    BY <1>1 DEF Exclusive, OwnToken, OneInFlightPerClient, Posting
  <1>9. NoneForDeleted'
    BY <1>1, <1>2, <1>5 DEF Exclusive, NoneForDeleted, Queued
  <1> QED
    BY <1>6, <1>7, <1>8, <1>9 DEF Exclusive

\* A deleted client's rows go with their leases.
LEMMA ExclusiveDeleteClient ==
    ASSUME TypeOK, Exclusive, NEW c \in Clients, DeleteOAuthClient(c) PROVE Exclusive'
  <1>1. /\ worker' = worker /\ deleted' = deleted \cup {c}
        /\ \A d \in Deliveries : ClientOf[d] # c => row'[d] = row[d]
        /\ \A d \in Deliveries : row'[d].lease = "held" => row'[d] = row[d]
        /\ \A d \in Deliveries : ClientOf[d] = c => row'[d].status # "queued"
        /\ \A d \in Deliveries : row'[d].status = "queued" => row[d].status = "queued"
    BY DEF DeleteOAuthClient, Gone, Unclaimed
  <1>2. \A w \in Workers : worker[w].pc = "posting" => worker[w].id \in Deliveries
    BY AtWork DEF TypeOK, Busy
  <1>3. OneLease' /\ NoneForDeleted' /\ Covered'
    BY <1>1, <1>2 DEF Exclusive, OneLease, NoneForDeleted, Covered, Queued
  <1>4. OwnToken' /\ OneInFlightPerClient'
    BY <1>1 DEF Exclusive, OwnToken, OneInFlightPerClient, Posting
  <1> QED
    BY <1>3, <1>4 DEF Exclusive

\* A new process posts nothing yet.
LEMMA ExclusiveRestart ==
    ASSUME TypeOK, Exclusive, Restart \/ ApplyRestoredState PROVE Exclusive'
  <1>1. /\ deleted' = deleted /\ \A w \in Workers : worker'[w] = Idle
        /\ \A d \in Deliveries : row'[d].lease = "held" => row'[d] = row[d]
        /\ \A d \in Deliveries : Queued(d)' => Queued(d) \/ ClientOf[d] \notin deleted
    BY DEF Restart, ApplyRestoredState, Fresh, Unclaimed, Queued
  <1> QED
    BY <1>1 DEF Exclusive, OneLease, Covered, OwnToken, NoneForDeleted, OneInFlightPerClient,
                Posting, Idle

\* Until an administrator retries a delivery by hand, at most one attempt per client is in
\* flight, for any number of workers, restarts and deletions. The condition is needed:
\* RetryLogoutDeliveryNow clears the lease of an attempt that is under way.
THEOREM OneInFlightAlways == Spec => []OneInFlightUnlessRetried
  <1> DEFINE Inv == retries = 0 => Exclusive
  <1>1. Init => Inv
    BY DEF Init, Exclusive, OneLease, Covered, OwnToken, NoneForDeleted, OneInFlightPerClient,
           Posting, NoRow, Unclaimed, Idle
  <1>2. TypeOK /\ Inv /\ [Next]_vars => Inv'
    <2> SUFFICES ASSUME TypeOK, Inv, [Next]_vars, retries' = 0 PROVE Exclusive'
      OBVIOUS
    <2>1. retries = 0
      <3>1. retries' = retries \/ retries' = retries + 1
        BY DEF Next, WorkerStep, DeliveryStep, Claim, Answer, Finish, FinishFails, Enqueue,
               LeaseLapses, BackoffEnds, Retry, Prune, DeleteOAuthClient, Restart,
               ApplyRestoredState, vars
      <3>2. retries \in Nat
        BY BoundAssumption DEF TypeOK
      <3> QED
        BY <3>1, <3>2
    <2>2. CASE UNCHANGED vars
      BY <2>1, <2>2 DEF vars, Exclusive, OneLease, Covered, OwnToken, NoneForDeleted,
                        OneInFlightPerClient, Posting, Queued
    <2> QED
      BY <2>1, <2>2, ExclusiveClaim, ExclusiveEnd, ExclusiveDelivery, ExclusiveDeleteClient,
         ExclusiveRestart DEF Next, WorkerStep
  <1>3. Inv => OneInFlightUnlessRetried
    BY DEF Exclusive, OneInFlightUnlessRetried
  <1> HIDE DEF Inv
  <1> QED
    BY <1>1, <1>2, <1>3, TypeCorrect, PTL DEF Spec

-----------------------------------------------------------------------------
(* The access of one application                                           *)

\* The roles a user has, by a mapping of its own or through the group if it is live.
RolesIf(u, live) == {r \in roles : <<r, u>> \in roleUsers \/ (r \in roleGroups /\ live)}

\* What a token may say: the roles of now, or those of a membership whose end is not swept yet.
Fine(u) == {RolesOf(u)} \cup IF member[u] = "lapsed" THEN {RolesIf(u, TRUE)} ELSE {}
FineSent(u) == IF roles = {} THEN {{"global"}} ELSE Fine(u)

\* Something that was told, and is right unless it is marked as missed.
Good(s, F) == s \in Told /\ (s.on /\ ~s.missed => s.roles \in F)

\* The types of everything but what was told.
Tables ==
    /\ active \subseteq Users /\ owners \subseteq Users
    /\ app \in [mode : {"assigned_only", "all_active_users"}, enabled : BOOLEAN, requestable : BOOLEAN]
    /\ direct \in [Users -> Instants] /\ member \in [Users -> Instants]
    /\ assigned \in BOOLEAN
    /\ roles \subseteq Roles /\ roleUsers \subseteq roles \X Users /\ roleGroups \subseteq roles
    /\ request \in [Users -> [status : {"none", "pending"} \cup Decided, bounded : BOOLEAN, due : BOOLEAN]]
    /\ sweep \in [pc : {"idle", "started", "members", "direct"}, rows : SUBSET Users]
    /\ MaxChanges \in Nat /\ changes \in 0..MaxChanges

\* There is one row for every user.
Rows == token = [u \in Users |-> token[u]] /\ sent = [u \in Users |-> sent[u]]

\* A user's token and the application's copy are right, and once the follow-up rests the copy
\* is on exactly where the user has access.
Informed(u) ==
    /\ Good(token[u], Fine(u))
    /\ Good(sent[u], FineSent(u))
    /\ sweep.pc = "idle" /\ ~Lapsing(u) => sent[u].on = Has(u)

\* The inductive invariant.
AccessInv == Tables /\ Rows /\ \A u \in Users : Informed(u)

\* What may be said of a user: nothing, what the tables say, or what is marked as missed.
LEMMA GoodFacts ==
    ASSUME NEW F
    PROVE  /\ Good(Off, F)
           /\ \A r \in SUBSET (Roles \cup {"global"}) : r \in F => Good(Says(r), F)
           /\ \A s, G : Good(s, G) /\ G \subseteq F => Good(s, F)
           /\ \A s \in Told : Good([s EXCEPT !.missed = TRUE], F)
<1>1. Good(Off, F)
  BY DEF Good, Off, Told
<1>2. ASSUME NEW r \in SUBSET (Roles \cup {"global"}), r \in F
      PROVE  Good(Says(r), F)
  BY <1>2 DEF Good, Says, Told
<1>3. \A s, G : Good(s, G) /\ G \subseteq F => Good(s, F)
  BY DEF Good
<1>4. ASSUME NEW s \in Told
      PROVE  Good([s EXCEPT !.missed = TRUE], F)
  BY DEF Good, Told
<1> QED  BY <1>1, <1>2, <1>3, <1>4

\* The roles that are sent are roles of the application, or the global one.
LEMMA RolesFacts ==
    ASSUME Tables, NEW u \in Users
    PROVE  /\ RolesOf(u) \in SUBSET (Roles \cup {"global"}) /\ RolesOf(u) \in Fine(u)
           /\ Payload(u) \in SUBSET (Roles \cup {"global"})
                /\ Payload(u) \in FineSent(u)
BY DEF Tables, RolesOf, Payload, Fine, FineSent

\* The same of the next state.
LEMMA RolesFactsNext ==
    ASSUME Tables', NEW u \in Users
    PROVE  /\ RolesOf(u)' \in SUBSET (Roles \cup {"global"})
                /\ RolesOf(u)' \in Fine(u)'
           /\ Payload(u)' \in SUBSET (Roles \cup {"global"})
                /\ Payload(u)' \in FineSent(u)'
BY DEF Tables, RolesOf, Payload, Fine, FineSent

\* Nothing that decides a user's roles changes.
SameRoles == UNCHANGED <<member, roles, roleUsers, roleGroups>>

\* What may be told stays the same with them.
LEMMA SameRolesFacts ==
    ASSUME SameRoles, NEW u \in Users
    PROVE  /\ Fine(u)' = Fine(u) /\ FineSent(u)' = FineSent(u)
           /\ RolesOf(u)' = RolesOf(u) /\ Payload(u)' = Payload(u)
BY DEF SameRoles, Fine, FineSent, RolesOf, RolesIf, Payload

\* The values that the follow-ups leave.
LEMMA ReconciledFacts ==
    ASSUME NEW s, NEW u \in Users, Tables', Good(s[u], FineSent(u)')
    PROVE  Good(Reconciled(s)[u], FineSent(u)')
           /\ Reconciled(s)[u].on = Has(u)'
<1> DEFINE v == Reconciled(s)[u]
<1>1. v = IF Has(u)' = s[u].on THEN s[u] ELSE IF Has(u)' THEN Says(Payload(u)') ELSE Off
  BY DEF Reconciled
<1>2. Has(u)' \in BOOLEAN
  BY DEF Has
<1>3. Good(Says(Payload(u)'), FineSent(u)') /\ Good(Off, FineSent(u)')
  BY GoodFacts, RolesFactsNext
<1>4. Says(Payload(u)').on = TRUE /\ Off.on = FALSE
  BY DEF Says, Off
<1> HIDE DEF v
<1> QED
  <2>1. CASE Has(u)' = s[u].on  BY <1>1, <2>1 DEF v
  <2>2. CASE Has(u)' # s[u].on /\ Has(u)'  BY <1>1, <1>3, <1>4, <2>2 DEF v
  <2>3. CASE Has(u)' # s[u].on /\ ~Has(u)'  BY <1>1, <1>2, <1>3, <1>4, <2>3 DEF v
  <2> QED  BY <2>1, <2>2, <2>3

\* The follow-up of a role sends what holds now to whom it concerns.
LEMMA ResentFacts ==
    ASSUME NEW s, NEW U, NEW u \in Users, Tables', s[u] \in Told,
           u \in U \/ Good(s[u], FineSent(u)')
    PROVE  Good(Resent(s, U)[u], FineSent(u)') /\ Resent(s, U)[u].on = s[u].on
<1> DEFINE v == Resent(s, U)[u]
           m == [s[u] EXCEPT !.missed = TRUE]
<1>1. v = IF u \notin U \/ ~s[u].on THEN s[u] ELSE IF Has(u)' THEN Says(Payload(u)') ELSE m
  BY DEF Resent
<1>2. Good(m, FineSent(u)') /\ m.on = s[u].on
  BY GoodFacts DEF Told
<1>3. Good(Says(Payload(u)'), FineSent(u)')
      /\ Says(Payload(u)').on = TRUE
  BY GoodFacts, RolesFactsNext DEF Says
<1>4. ~s[u].on => Good(s[u], FineSent(u)')
  BY DEF Good
<1>5. s[u].on \in BOOLEAN
  BY DEF Told
<1> HIDE DEF v, m
<1> QED
  <2>1. CASE u \notin U \/ ~s[u].on  BY <1>1, <1>4, <2>1 DEF v
  <2>2. CASE ~(u \notin U \/ ~s[u].on) /\ Has(u)'  BY <1>1, <1>3, <1>5, <2>2 DEF v
  <2>3. CASE ~(u \notin U \/ ~s[u].on) /\ ~Has(u)'  BY <1>1, <1>2, <2>3 DEF v
  <2> QED  BY <2>1, <2>2, <2>3

\* A user whose access ends untold is marked, and nothing else changes.
LEMMA MissedFacts ==
    ASSUME NEW t, NEW u \in Users, t[u] \in Told
    PROVE  /\ Missed(t)[u] \in Told
           /\ Missed(t)[u].on = t[u].on /\ Missed(t)[u].roles = t[u].roles
           /\ Missed(t)[u].missed <=> t[u].missed \/ (t[u].on /\ (Lapsing(u) \/ ~Has(u)))
<1> DEFINE b == t[u].missed \/ (t[u].on /\ (Lapsing(u) \/ ~Has(u)))
<1>1. b \in BOOLEAN
  OBVIOUS
<1>2. Missed(t)[u] = [t[u] EXCEPT !.missed = b]
  BY DEF Missed
<1> HIDE DEF b
<1>3. /\ [t[u] EXCEPT !.missed = b] \in Told
      /\ [t[u] EXCEPT !.missed = b].on = t[u].on
      /\ [t[u] EXCEPT !.missed = b].roles = t[u].roles
      /\ [t[u] EXCEPT !.missed = b].missed = b
  BY <1>1 DEF Told
<1> QED  BY <1>1, <1>2, <1>3 DEF b

\* The follow-up of a change of access informs every user.
LEMMA AccessFollows ==
    ASSUME Tables', SameRoles, AccessChange, NEW u \in Users, Informed(u)
    PROVE  Informed(u)'
<1>1. Fine(u)' = Fine(u) /\ FineSent(u)' = FineSent(u)
  BY SameRolesFacts
<1>2. token'[u] = token[u] \/ token'[u] = Off
  BY DEF AccessChange, WithAccess
<1>3. Good(token'[u], Fine(u)')
  BY <1>1, <1>2, GoodFacts DEF Informed
<1>4. sent' = Reconciled(sent) /\ Good(sent[u], FineSent(u)')
  BY <1>1 DEF AccessChange, Informed
<1>5. Good(sent'[u], FineSent(u)') /\ sent'[u].on = Has(u)'
  BY <1>4, ReconciledFacts
<1> QED  BY <1>3, <1>5 DEF Informed

\* So does the follow-up of a membership, if it is of those whose roles change.
LEMMA MembershipFollows ==
    ASSUME Tables', NEW U, MembershipChange(U), NEW u \in Users, Informed(u),
           \/ u \in U /\ roleGroups # {}
           \/ Fine(u) \subseteq Fine(u)' /\ FineSent(u) \subseteq FineSent(u)'
    PROVE  Informed(u)'
<1> DEFINE T == IF roleGroups = {} THEN {} ELSE U
<1>0. u \in T \/ (Fine(u) \subseteq Fine(u)' /\ FineSent(u) \subseteq FineSent(u)')
  OBVIOUS
<1>1. token' = WithAccess(Revoked(token, T))
      /\ sent' = Reconciled(Resent(sent, T))
  BY DEF MembershipChange
<1> HIDE DEF T
<1>2. token'[u] = Off \/ (u \notin T /\ token'[u] = token[u])
  BY <1>1 DEF WithAccess, Revoked
<1>3. Good(token'[u], Fine(u)')
  BY <1>0, <1>2, GoodFacts DEF Informed
<1>4. sent[u] \in Told /\ (u \in T \/ Good(sent[u], FineSent(u)'))
  BY <1>0, GoodFacts DEF Informed, Good
<1>5. Good(Resent(sent, T)[u], FineSent(u)')
  BY <1>4, ResentFacts
<1>6. Good(sent'[u], FineSent(u)') /\ sent'[u].on = Has(u)'
  BY <1>1, <1>5, ReconciledFacts
<1> QED  BY <1>3, <1>6 DEF Informed

\* Nothing that decides access changes.
SameAccess == UNCHANGED <<active, app, direct, member, assigned, sweep>>

\* Access stays the same with them.
LEMMA SameAccessFacts ==
    ASSUME SameAccess, NEW u \in Users
    PROVE  Has(u)' = Has(u) /\ Lapsing(u)' = Lapsing(u)
BY DEF SameAccess, Has, Lapsing

\* The follow-up of a role informs every user whose roles change.
LEMMA RoleFollows ==
    ASSUME Tables', SameAccess, NEW U, RoleChange(U), NEW u \in Users, Informed(u),
           \/ u \in U \/ Lapsing(u) \/ ~Has(u)
           \/ RolesOf(u)' = RolesOf(u) /\ Payload(u)' = Payload(u)
    PROVE  Informed(u)'
<1> DEFINE t == Missed(token)[u]
           s == Missed(sent)[u]
<1>1. token[u] \in Told /\ sent[u] \in Told
  BY DEF Informed, Good
<1>2. /\ t \in Told /\ t.on = token[u].on /\ t.roles = token[u].roles
      /\ t.missed <=> token[u].missed \/ (token[u].on /\ (Lapsing(u) \/ ~Has(u)))
  BY <1>1, MissedFacts
<1>3. /\ s \in Told /\ s.on = sent[u].on /\ s.roles = sent[u].roles
      /\ s.missed <=> sent[u].missed \/ (sent[u].on /\ (Lapsing(u) \/ ~Has(u)))
  BY <1>1, MissedFacts
<1>4. token'[u] = IF u \in U THEN Off ELSE t
  BY DEF RoleChange, Revoked
<1>5. sent' = Resent(Missed(sent), U)
  BY DEF RoleChange
<1> HIDE DEF t
<1>6. ~Lapsing(u) => Fine(u) = {RolesOf(u)} /\ FineSent(u) = {Payload(u)}
  BY DEF Lapsing, Fine, FineSent, Payload
<1>7. RolesOf(u)' \in Fine(u)' /\ Payload(u)' \in FineSent(u)'
  BY RolesFactsNext
<1>8. u \notin U => Good(t, Fine(u)')
  BY <1>2, <1>6, <1>7 DEF Informed, Good
<1>9. u \in U \/ Good(s, FineSent(u)')
  BY <1>3, <1>6, <1>7 DEF Informed, Good
<1>10. Good(token'[u], Fine(u)')
  BY <1>4, <1>8, GoodFacts
<1>11. Good(sent'[u], FineSent(u)') /\ sent'[u].on = s.on
  BY <1>3, <1>5, <1>9, ResentFacts
<1> HIDE DEF s
<1>12. sweep' = sweep /\ Has(u)' = Has(u) /\ Lapsing(u)' = Lapsing(u)
  BY SameAccessFacts DEF SameAccess
<1>13. sweep'.pc = "idle" /\ ~Lapsing(u)' => sent'[u].on = Has(u)'
  BY <1>3, <1>11, <1>12 DEF Informed
<1> QED  BY <1>10, <1>11, <1>13 DEF Informed

\* A step that changes neither the roles nor what was told keeps both true.
LEMMA NothingTold ==
    ASSUME SameRoles, NEW u \in Users, Informed(u), token'[u] \in {token[u], Off},
           sent'[u] = sent[u],
           \/ sweep'.pc # "idle"
           \/ Lapsing(u)'
           \/ sweep' = sweep /\ Lapsing(u)' = Lapsing(u) /\ Has(u)' = Has(u)
    PROVE  Informed(u)'
<1>1. Fine(u)' = Fine(u) /\ FineSent(u)' = FineSent(u)
  BY SameRolesFacts
<1>2. Good(token'[u], Fine(u)') /\ Good(sent'[u], FineSent(u)')
  BY <1>1, GoodFacts DEF Informed
<1>3. sweep'.pc = "idle" /\ ~Lapsing(u)' => sent'[u].on = Has(u)'
  BY DEF Informed
<1> QED  BY <1>2, <1>3 DEF Informed

\* The follow-ups leave one row for every user.
LEMMA FollowRows ==
    ASSUME NEW t, NEW s, NEW U
    PROVE  /\ Revoked(t, U) = [u \in Users |-> Revoked(t, U)[u]]
           /\ WithAccess(t) = [u \in Users |-> WithAccess(t)[u]]
           /\ Resent(s, U) = [u \in Users |-> Resent(s, U)[u]]
           /\ Reconciled(s) = [u \in Users |-> Reconciled(s)[u]]
BY DEF Revoked, WithAccess, Resent, Reconciled

\* A change of access does,
LEMMA AccessRows ==
    ASSUME AccessChange
    PROVE  Rows'
BY FollowRows DEF AccessChange, Rows

\* a change of a role does,
LEMMA RoleRows ==
    ASSUME NEW U, RoleChange(U)
    PROVE  Rows'
BY FollowRows DEF RoleChange, Rows

\* and a change of a membership does.
LEMMA MembershipRows ==
    ASSUME NEW U, MembershipChange(U)
    PROVE  Rows'
BY FollowRows DEF MembershipChange, Rows

\* The invariant is kept by SetAppPolicy.
LEMMA PolicyStep ==
    ASSUME AccessInv, NEW m \in {"assigned_only", "all_active_users"}, NEW e \in BOOLEAN,
           SetAppPolicy(m, e)
    PROVE  AccessInv'
<1>1. Tables'
  <2>1. app' \in [mode : {"assigned_only", "all_active_users"}, enabled : BOOLEAN, requestable : BOOLEAN]
    BY DEF AccessInv, Tables, SetAppPolicy
  <2> QED  BY <2>1 DEF AccessInv, Tables, SetAppPolicy, Change
<1>2. SameRoles /\ AccessChange
  BY DEF SetAppPolicy, SameRoles
<1> QED  BY <1>1, <1>2, AccessFollows, AccessRows DEF AccessInv

\* The invariant is kept when an application is opened to requests or closed.
LEMMA RequestableStep ==
    ASSUME AccessInv, NEW b \in BOOLEAN, SetAppRequestable(b)
    PROVE  AccessInv'
<1>1. Tables'
  BY DEF AccessInv, Tables, SetAppRequestable, Change
<1>2. /\ SameRoles /\ Rows' /\ UNCHANGED <<token, sent, sweep>>
      /\ \A u \in Users : Has(u)' = Has(u) /\ Lapsing(u)' = Lapsing(u)
  BY DEF AccessInv, Tables, Rows, SetAppRequestable, SameRoles, Has, Lapsing
<1> QED  BY <1>1, <1>2, NothingTold DEF AccessInv

\* The invariant is kept by ApplyAppAssignment, also as a part of an approval.
LEMMA AssignmentStep ==
    ASSUME AccessInv, NEW u \in Users, NEW until \in Instants,
           ApplyAppAssignment(u, until), sweep' = sweep,
           request' \in [Users -> [status : {"none", "pending"} \cup Decided, bounded : BOOLEAN, due : BOOLEAN]],
           changes' \in 0..MaxChanges
    PROVE  AccessInv'
<1>1. Tables'
  BY DEF AccessInv, Tables, ApplyAppAssignment, policy
<1>2. SameRoles /\ AccessChange
  BY DEF ApplyAppAssignment, SameRoles, policy
<1> QED  BY <1>1, <1>2, AccessFollows, AccessRows DEF AccessInv

\* The invariant is kept by AssignGroup.
LEMMA AssignGroupStep ==
    ASSUME AccessInv, NEW b \in BOOLEAN, AssignGroup(b)
    PROVE  AccessInv'
<1>1. Tables'
  BY DEF AccessInv, Tables, AssignGroup, Change
<1>2. SameRoles /\ AccessChange
  BY DEF AssignGroup, SameRoles
<1> QED  BY <1>1, <1>2, AccessFollows, AccessRows DEF AccessInv

\* The invariant is kept by CreateAppRole.
LEMMA CreateRoleStep ==
    ASSUME AccessInv, NEW r \in Roles, CreateAppRole(r)
    PROVE  AccessInv'
<1>1. Tables'
  BY DEF AccessInv, Tables, CreateAppRole, Change
<1>2. SameAccess
  BY DEF CreateAppRole, SameAccess
<1>3. ASSUME NEW u \in Users PROVE RolesOf(u)' = RolesOf(u)
             /\ RolesIf(u, TRUE)' = RolesIf(u, TRUE)
  BY DEF AccessInv, Tables, CreateAppRole, RolesOf, RolesIf
<1>4. CASE roles = {}
  <2>1. RoleChange(WithAccessNow)
    BY <1>4 DEF CreateAppRole
  <2>2. \A u \in Users : u \in WithAccessNow \/ ~Has(u)
    BY DEF WithAccessNow
  <2> QED  BY <1>1, <1>2, <2>1, <2>2, RoleFollows, RoleRows DEF AccessInv
<1>5. CASE roles # {}
  <2>1. UNCHANGED <<token, sent, sweep, member>> /\ roles' # {}
    BY <1>5 DEF CreateAppRole
  <2>2. \A u \in Users : Fine(u)' = Fine(u) /\ FineSent(u)' = FineSent(u)
    BY <1>3, <1>5, <2>1 DEF Fine, FineSent
  <2>3. \A u \in Users : Has(u)' = Has(u) /\ Lapsing(u)' = Lapsing(u)
    BY <1>2, SameAccessFacts
  <2>4. ASSUME NEW u \in Users PROVE Informed(u)'
    <3>1. Informed(u)  BY DEF AccessInv
    <3> QED  BY <2>1, <2>2, <2>3, <3>1 DEF Informed
  <2>5. Rows'
    BY <2>1 DEF AccessInv, Rows
  <2> QED  BY <1>1, <2>4, <2>5 DEF AccessInv
<1> QED  BY <1>4, <1>5

\* The invariant is kept by DeleteAppRole.
LEMMA DeleteRoleStep ==
    ASSUME AccessInv, NEW r \in Roles, DeleteAppRole(r)
    PROVE  AccessInv'
<1>1. Tables'
  <2>1. roleUsers' \subseteq roles' \X Users
    BY DEF AccessInv, Tables, DeleteAppRole
  <2> QED  BY <2>1 DEF AccessInv, Tables, DeleteAppRole, Change
<1>2. SameAccess
  BY DEF DeleteAppRole, SameAccess
<1> DEFINE U == Holders(r) \cup IF roles' = {} THEN WithAccessNow ELSE {}
<1>3. RoleChange(U)
  BY DEF DeleteAppRole
<1>4. ASSUME NEW u \in Users, u \notin U, Has(u), ~Lapsing(u)
      PROVE  RolesOf(u)' = RolesOf(u) /\ Payload(u)' = Payload(u)
  <2>1. u \notin Holders(r) /\ roles' # {} /\ roles # {}
    BY <1>4 DEF WithAccessNow, DeleteAppRole
  <2>2. \A q \in roles : q # r => (<<q, u>> \in roleUsers' <=> <<q, u>> \in roleUsers)
    BY DEF DeleteAppRole
  <2>3. RolesOf(u)' = RolesOf(u)
    BY <2>1, <2>2 DEF DeleteAppRole, Holders, RolesOf
  <2> QED  BY <2>1, <2>3 DEF Payload
<1> HIDE DEF U
<1>5. \A u \in Users : \/ u \in U \/ Lapsing(u) \/ ~Has(u)
                       \/ RolesOf(u)' = RolesOf(u)
                            /\ Payload(u)' = Payload(u)
  BY <1>4
<1> QED  BY <1>1, <1>2, <1>3, <1>5, RoleFollows, RoleRows DEF AccessInv

\* The invariant is kept by MapUser.
LEMMA MapUserStep ==
    ASSUME AccessInv, NEW r \in Roles, NEW u \in Users, NEW b \in BOOLEAN, MapUser(r, u, b)
    PROVE  AccessInv'
<1>1. Tables'
  <2>1. roleUsers' \subseteq roles' \X Users
    BY DEF AccessInv, Tables, MapUser
  <2> QED  BY <2>1 DEF AccessInv, Tables, MapUser, Change
<1>2. SameAccess /\ RoleChange({u}) /\ UNCHANGED <<roles, roleGroups, member>>
  BY DEF MapUser, SameAccess
<1>3. ASSUME NEW v \in Users, v # u
      PROVE  RolesOf(v)' = RolesOf(v) /\ Payload(v)' = Payload(v)
  <2>1. \A q \in roles : <<q, v>> \in roleUsers' <=> <<q, v>> \in roleUsers
    BY <1>3 DEF MapUser
  <2> QED  BY <1>2, <2>1 DEF RolesOf, Payload
<1>4. \A v \in Users : v \in {u} \/ (RolesOf(v)' = RolesOf(v) /\ Payload(v)' = Payload(v))
  BY <1>3
<1> QED  BY <1>1, <1>2, <1>4, RoleFollows, RoleRows DEF AccessInv

\* The invariant is kept by MapGroup.
LEMMA MapGroupStep ==
    ASSUME AccessInv, NEW r \in Roles, NEW b \in BOOLEAN, MapGroup(r, b)
    PROVE  AccessInv'
<1> DEFINE U == {u \in Users : member[u] \in Live}
<1>1. Tables'
  BY DEF AccessInv, Tables, MapGroup, Change
<1>2. SameAccess /\ RoleChange(U) /\ UNCHANGED <<roles, roleUsers, member>>
  BY DEF MapGroup, SameAccess
<1>3. ASSUME NEW v \in Users, v \notin U
      PROVE  RolesOf(v)' = RolesOf(v) /\ Payload(v)' = Payload(v)
  BY <1>2, <1>3 DEF RolesOf, Payload
<1>4. \A v \in Users : v \in U \/ (RolesOf(v)' = RolesOf(v) /\ Payload(v)' = Payload(v))
  BY <1>3
<1> HIDE DEF U
<1> QED  BY <1>1, <1>2, <1>4, RoleFollows, RoleRows DEF AccessInv

\* The invariant is kept by SetGroupMembership.
LEMMA MembershipStep ==
    ASSUME AccessInv, NEW u \in Users, NEW until \in Instants,
           SetGroupMembership(u, until)
    PROVE  AccessInv'
<1>1. Tables'
  BY DEF AccessInv, Tables, SetGroupMembership, Change, policy
<1>2. MembershipChange({u}) /\ UNCHANGED <<roles, roleUsers, roleGroups>>
  BY DEF SetGroupMembership, policy
<1>3. ASSUME NEW v \in Users, v # u \/ roleGroups = {}
      PROVE  Fine(v) \subseteq Fine(v)' /\ FineSent(v) \subseteq FineSent(v)'
  <2>1. CASE roleGroups = {}
    <3>1. RolesOf(v)' = RolesOf(v) /\ RolesIf(v, TRUE) = RolesOf(v)
      BY <1>2, <2>1 DEF RolesOf, RolesIf
    <3> QED  BY <1>2, <3>1 DEF Fine, FineSent
  <2>2. CASE v # u
    <3>1. member'[v] = member[v]
      BY <2>2 DEF SetGroupMembership, AccessInv, Tables
    <3> QED  BY <1>2, <3>1 DEF RolesOf, RolesIf, Fine, FineSent
  <2> QED  BY <1>3, <2>1, <2>2
<1>4. \A v \in Users : \/ v \in {u} /\ roleGroups # {}
                       \/ Fine(v) \subseteq Fine(v)' /\ FineSent(v) \subseteq FineSent(v)'
  BY <1>3
<1> QED  BY <1>1, <1>2, <1>4, MembershipFollows, MembershipRows DEF AccessInv

\* The invariant is kept by DeleteGroup.
LEMMA DeleteGroupStep ==
    ASSUME AccessInv, DeleteGroup
    PROVE  AccessInv'
<1> DEFINE U == {u \in Users : member[u] # "none"}
<1>1. Tables'
  <2>1. member' \in [Users -> Instants]
    BY DEF DeleteGroup, Instants
  <2>2. UNCHANGED <<active, app, direct, roles, roleUsers, owners, request, sweep>>
    BY DEF DeleteGroup
  <2>3. changes' \in 0..MaxChanges
    BY DEF AccessInv, Tables, DeleteGroup, Change
  <2>4. assigned' = FALSE /\ roleGroups' = {}
    BY DEF DeleteGroup
  <2> QED  BY <2>1, <2>2, <2>3, <2>4 DEF AccessInv, Tables
<1>2. MembershipChange(U) /\ UNCHANGED <<roles, roleUsers>> /\ roleGroups' = {}
  BY DEF DeleteGroup
<1>3. ASSUME NEW v \in Users, v \notin U \/ roleGroups = {}
      PROVE  Fine(v) \subseteq Fine(v)' /\ FineSent(v) \subseteq FineSent(v)'
  <2>1. RolesOf(v)' = RolesOf(v)
        /\ (member[v] = "lapsed" => RolesIf(v, TRUE) = RolesOf(v))
    BY <1>2, <1>3 DEF RolesOf, RolesIf, Live
  <2> QED  BY <1>2, <2>1 DEF Fine, FineSent
<1>4. \A v \in Users : \/ v \in U /\ roleGroups # {}
                       \/ Fine(v) \subseteq Fine(v)' /\ FineSent(v) \subseteq FineSent(v)'
  BY <1>3
<1> HIDE DEF U
<1> QED  BY <1>1, <1>2, <1>4, MembershipFollows, MembershipRows DEF AccessInv

\* The invariant is kept by SetStatus.
LEMMA StatusStep ==
    ASSUME AccessInv, NEW u \in Users, NEW b \in BOOLEAN, SetStatus(u, b)
    PROVE  AccessInv'
<1>1. Tables'
  BY DEF AccessInv, Tables, SetStatus, Change
<1>2. SameRoles /\ sent' = Reconciled(Resent(sent, {u}))
  BY DEF SetStatus, SameRoles
<1>3. Rows'
  <2>1. token' = [v \in Users |-> token'[v]]
    <3>1. token' = IF b THEN token ELSE Revoked(token, {u})
      BY DEF SetStatus
    <3>2. token = [v \in Users |-> token[v]]
      BY DEF AccessInv, Rows
    <3>3. Revoked(token, {u}) = [v \in Users |-> Revoked(token, {u})[v]]
      BY DEF Revoked
    <3> QED  BY <3>1, <3>2, <3>3
  <2> QED  BY <1>2, <2>1, FollowRows DEF Rows
<1>4. ASSUME NEW v \in Users PROVE Informed(v)'
  <2>1. Informed(v) /\ Fine(v)' = Fine(v) /\ FineSent(v)' = FineSent(v)
    BY <1>2, SameRolesFacts DEF AccessInv
  <2>2. token'[v] = token[v] \/ token'[v] = Off
    BY DEF SetStatus, Revoked
  <2>3. Good(token'[v], Fine(v)')
    BY <2>1, <2>2, GoodFacts DEF Informed
  <2>4. Good(sent[v], FineSent(v)') /\ sent[v] \in Told
    BY <2>1 DEF Informed, Good
  <2>5. Good(Resent(sent, {u})[v], FineSent(v)')
    BY <1>1, <2>4, ResentFacts
  <2>6. Good(sent'[v], FineSent(v)') /\ sent'[v].on = Has(v)'
    BY <1>1, <1>2, <2>5, ReconciledFacts
  <2> QED  BY <2>3, <2>6 DEF Informed
<1> QED  BY <1>1, <1>3, <1>4 DEF AccessInv

\* The invariant is kept by SetDelegations.
LEMMA DelegationsStep ==
    ASSUME AccessInv, NEW u \in Users, NEW b \in BOOLEAN, SetDelegations(u, b)
    PROVE  AccessInv'
<1>1. Tables'
  BY DEF AccessInv, Tables, SetDelegations, Change
<1>2. SameRoles /\ SameAccess /\ sent' = sent /\ token' = Revoked(token, {u})
  BY DEF SetDelegations, SameRoles, SameAccess
<1>4. Rows'
  <2>1. token' = [v \in Users |-> token'[v]]
    BY <1>2 DEF Revoked
  <2> QED  BY <1>2, <2>1 DEF AccessInv, Rows
<1>3. \A v \in Users : token'[v] \in {token[v], Off}
  BY <1>2 DEF Revoked
<1> QED  BY <1>1, <1>2, <1>3, <1>4, SameAccessFacts, NothingTold DEF AccessInv, SameAccess

\* A step of the requests, which concern neither roles nor access.
LEMMA RequestStep ==
    ASSUME AccessInv, UNCHANGED <<direct, member, policy, token, sent, sweep>>,
           request' \in [Users -> [status : {"none", "pending"} \cup Decided, bounded : BOOLEAN, due : BOOLEAN]],
           changes' \in 0..MaxChanges
    PROVE  AccessInv'
<1>1. Tables'
  BY DEF AccessInv, Tables, policy
<1>2. SameRoles /\ SameAccess /\ UNCHANGED <<token, sent, sweep>> /\ Rows'
  BY DEF SameRoles, SameAccess, AccessInv, Rows, policy
<1> QED  BY <1>1, <1>2, SameAccessFacts, NothingTold DEF AccessInv

\* The invariant is kept by every step of the access requests.
LEMMA AskingStep ==
    ASSUME AccessInv, Asking
    PROVE  AccessInv'
<1> DEFINE Rq == [status : {"none", "pending"} \cup Decided, bounded : BOOLEAN, due : BOOLEAN]
<1>0. request \in [Users -> Rq] /\ MaxChanges \in Nat /\ changes \in 0..MaxChanges
  BY DEF AccessInv, Tables
<1>1. ASSUME NEW u \in Users, NEW b \in BOOLEAN, CreateAccessRequest(u, b) PROVE AccessInv'
  <2>1. request' \in [Users -> Rq] /\ changes' \in 0..MaxChanges
    BY <1>0, <1>1 DEF CreateAccessRequest, Change
  <2> QED  BY <1>1, <2>1, RequestStep DEF CreateAccessRequest
<1>2. ASSUME NEW u \in Users, CancelAccessRequest(u) PROVE AccessInv'
  <2>1. request' \in [Users -> Rq] /\ changes' \in 0..MaxChanges
    BY <1>0, <1>2 DEF CancelAccessRequest, Decided
  <2> QED  BY <1>2, <2>1, RequestStep DEF CancelAccessRequest
<1>3. ASSUME NEW d, NEW u \in Users, DenyAccessRequest(d, u) PROVE AccessInv'
  <2>1. request' \in [Users -> Rq] /\ changes' \in 0..MaxChanges
    BY <1>0, <1>3 DEF DenyAccessRequest, Decided
  <2> QED  BY <1>3, <2>1, RequestStep DEF DenyAccessRequest
<1>4. ASSUME NEW d, NEW u \in Users, ApproveAccessRequest(d, u) PROVE AccessInv'
  <2>1. request' \in [Users -> Rq] /\ changes' \in 0..MaxChanges /\ sweep' = sweep
    BY <1>0, <1>4 DEF ApproveAccessRequest, Decided
  <2>2. PICK until \in Instants : ApplyAppAssignment(u, until)
    BY <1>4 DEF ApproveAccessRequest, Instants
  <2> QED  BY <2>1, <2>2, AssignmentStep
<1> QED  BY <1>1, <1>2, <1>3, <1>4 DEF Asking

\* The invariant is kept by every edit of an administrator.
LEMMA AdministrationStep ==
    ASSUME AccessInv, Administration
    PROVE  AccessInv'
<1>1. ASSUME NEW m \in {"assigned_only", "all_active_users"}, NEW e \in BOOLEAN,
             SetAppPolicy(m, e)
      PROVE  AccessInv'
  BY <1>1, PolicyStep
<1>2. ASSUME NEW b \in BOOLEAN, SetAppRequestable(b) \/ AssignGroup(b)
             PROVE AccessInv'
  BY <1>2, RequestableStep, AssignGroupStep
<1>3. ASSUME NEW r \in Roles, CreateAppRole(r) \/ DeleteAppRole(r) PROVE AccessInv'
  BY <1>3, CreateRoleStep, DeleteRoleStep
<1>4. ASSUME NEW r \in Roles, NEW b \in BOOLEAN, MapGroup(r, b) PROVE AccessInv'
  BY <1>4, MapGroupStep
<1>5. ASSUME NEW r \in Roles, NEW u \in Users, NEW b \in BOOLEAN, MapUser(r, u, b)
             PROVE AccessInv'
  BY <1>5, MapUserStep
<1>6. ASSUME NEW u \in Users, NEW until \in {"none", "bounded", "unbounded"},
             SetAppAssignment(u, until) \/ SetGroupMembership(u, until)
      PROVE  AccessInv'
  <2>1. until \in Instants
    BY DEF Instants
  <2>2. CASE SetAppAssignment(u, until)
    <3>1. ApplyAppAssignment(u, until) /\ UNCHANGED <<request, sweep>>
      BY <2>2 DEF SetAppAssignment
    <3>2. changes' \in 0..MaxChanges /\ request' = request
      BY <2>2 DEF SetAppAssignment, Change, AccessInv, Tables
    <3> QED  BY <2>1, <3>1, <3>2, AssignmentStep DEF AccessInv, Tables
  <2> QED  BY <1>6, <2>1, <2>2, MembershipStep
<1>7. ASSUME NEW u \in Users, NEW b \in BOOLEAN,
             SetStatus(u, b) \/ SetDelegations(u, b) PROVE AccessInv'
  BY <1>7, StatusStep, DelegationsStep
<1> QED  BY <1>1, <1>2, <1>3, <1>4, <1>5, <1>6, <1>7, DeleteGroupStep DEF Administration

\* The invariant is kept by IssueToken.
LEMMA IssueStep ==
    ASSUME AccessInv, NEW u \in Users, IssueToken(u)
    PROVE  AccessInv'
<1>1. Tables' /\ SameRoles /\ SameAccess /\ sent' = sent /\ sweep' = sweep
  BY DEF AccessInv, Tables, IssueToken, policy, SameRoles, SameAccess
<1>2. token' = [token EXCEPT ![u] = Says(RolesOf(u))]
      /\ token = [v \in Users |-> token[v]]
  BY DEF IssueToken, AccessInv, Rows
<1>3. Rows' /\ token'[u] = Says(RolesOf(u))
      /\ \A v \in Users \ {u} : token'[v] = token[v]
  BY <1>1, <1>2 DEF Rows, AccessInv
<1>4. ASSUME NEW v \in Users PROVE Informed(v)'
  <2>1. CASE v # u
    BY <1>1, <1>3, <2>1, SameAccessFacts, NothingTold DEF AccessInv
  <2>2. CASE v = u
    <3>1. Good(token'[u], Fine(u)')
      BY <1>1, <1>3, RolesFactsNext, SameRolesFacts, GoodFacts
    <3>2. Has(u)' = Has(u) /\ Lapsing(u)' = Lapsing(u)
          /\ FineSent(u)' = FineSent(u)
      BY <1>1, SameRolesFacts, SameAccessFacts
    <3> QED  BY <1>1, <2>2, <3>1, <3>2 DEF AccessInv, Informed
  <2> QED  BY <2>1, <2>2
<1> QED  BY <1>1, <1>3, <1>4 DEF AccessInv

\* The invariant is kept by LapseDirect.
LEMMA LapseDirectStep ==
    ASSUME AccessInv, NEW u \in Users, LapseDirect(u)
    PROVE  AccessInv'
<1>1. Tables'
  BY DEF AccessInv, Tables, LapseDirect, policy, Instants
<1>2. SameRoles /\ UNCHANGED <<active, app, assigned, token, sent, sweep>> /\ Rows'
  BY DEF LapseDirect, policy, SameRoles, AccessInv, Rows
<1>3. direct'[u] = "lapsed" /\ \A v \in Users \ {u} : direct'[v] = direct[v]
  BY DEF LapseDirect, AccessInv, Tables
<1>4. \A v \in Users : Lapsing(v)' \/ (Lapsing(v)' = Lapsing(v) /\ Has(v)' = Has(v))
  BY <1>2, <1>3 DEF Lapsing, Has, SameRoles
<1> QED  BY <1>1, <1>2, <1>4, NothingTold DEF AccessInv

\* The invariant is kept by LapseMember.
LEMMA LapseMemberStep ==
    ASSUME AccessInv, NEW u \in Users, LapseMember(u)
    PROVE  AccessInv'
<1>1. Tables'
  BY DEF AccessInv, Tables, LapseMember, policy, Instants
<1>2. UNCHANGED <<active, app, assigned, direct, roles, roleUsers, roleGroups, token, sent, sweep>> /\ Rows'
  BY DEF LapseMember, policy, AccessInv, Rows
<1>3. member[u] = "bounded" /\ member'[u] = "lapsed"
      /\ \A v \in Users \ {u} : member'[v] = member[v]
  BY DEF LapseMember, AccessInv, Tables
<1>4. ASSUME NEW v \in Users PROVE Informed(v)'
  <2>1. Fine(v) \subseteq Fine(v)'
    <3>1. CASE v # u
      <4>1. member'[v] = member[v]  BY <1>3, <3>1
      <4> QED  BY <1>2, <4>1 DEF Fine, RolesOf, RolesIf
    <3>2. CASE v = u
      <4>1. RolesIf(u, TRUE)' = RolesOf(u)
        BY <1>2, <1>3 DEF RolesOf, RolesIf, Live
      <4> QED  BY <1>3, <3>2, <4>1 DEF Fine
    <3> QED  BY <3>1, <3>2
  <2>2. FineSent(v) \subseteq FineSent(v)'
    BY <1>2, <2>1 DEF FineSent
  <2>3. Good(token'[v], Fine(v)') /\ Good(sent'[v], FineSent(v)')
    BY <1>2, <2>1, <2>2, GoodFacts DEF AccessInv, Informed
  <2>4. Lapsing(v)' \/ (Lapsing(v)' = Lapsing(v) /\ Has(v)' = Has(v))
    BY <1>2, <1>3 DEF Lapsing, Has
  <2> QED  BY <1>2, <2>3, <2>4 DEF AccessInv, Informed
<1> QED  BY <1>1, <1>2, <1>4 DEF AccessInv

\* The invariant is kept when an end passes.
LEMMA TimeStep ==
    ASSUME AccessInv, Time
    PROVE  AccessInv'
<1>1. ASSUME NEW u \in Users, RequestDue(u) PROVE AccessInv'
  <2>1. request' \in [Users -> [status : {"none", "pending"} \cup Decided, bounded : BOOLEAN, due : BOOLEAN]]
    BY <1>1 DEF RequestDue, AccessInv, Tables
  <2> QED  BY <1>1, <2>1, RequestStep DEF RequestDue, AccessInv, Tables
<1> QED  BY <1>1, IssueStep, LapseDirectStep, LapseMemberStep DEF Time

\* Steps of the follow-up that only move it on.
LEMMA SweepOnly ==
    ASSUME AccessInv, UNCHANGED <<direct, member, policy, request, token, sent>>,
           sweep' \in [pc : {"started", "members", "direct"}, rows : SUBSET Users],
           changes' \in 0..MaxChanges
    PROVE  AccessInv'
<1>1. Tables' /\ SameRoles /\ UNCHANGED <<token, sent>> /\ Rows'
  BY DEF AccessInv, Tables, policy, SameRoles, Rows
<1>2. sweep'.pc # "idle"
  OBVIOUS
<1> QED  BY <1>1, <1>2, NothingTold DEF AccessInv

\* The invariant is kept by SweepMember.
LEMMA SweepMemberStep ==
    ASSUME AccessInv, NEW u \in Users, SweepMember(u)
    PROVE  AccessInv'
<1>1. Tables' /\ sweep'.pc # "idle"
  <2>1. sweep' \in [pc : {"members"}, rows : SUBSET Users]
    BY DEF AccessInv, Tables, SweepMember
  <2>2. member' \in [Users -> Instants]
    BY DEF AccessInv, Tables, SweepMember, Instants
  <2> QED  BY <2>1, <2>2 DEF AccessInv, Tables, SweepMember, policy
<1>2. UNCHANGED <<roles, roleUsers, roleGroups>>
  BY DEF SweepMember, policy
<1>3. member'[u] = "none" /\ \A v \in Users \ {u} : member'[v] = member[v]
  BY DEF SweepMember, AccessInv, Tables
<1>4. CASE roleGroups = {}
  <2>1. UNCHANGED <<token, sent>> /\ Rows'
    BY <1>4 DEF SweepMember, AccessInv, Rows
  <2>2. ASSUME NEW v \in Users PROVE Informed(v)'
    <3>1. RolesOf(v)' = RolesOf(v) /\ RolesIf(v, TRUE) = RolesOf(v)
      BY <1>2, <1>4 DEF RolesOf, RolesIf
    <3>2. Fine(v) \subseteq Fine(v)' /\ FineSent(v) \subseteq FineSent(v)'
      BY <1>2, <3>1 DEF Fine, FineSent
    <3>3. Good(token'[v], Fine(v)') /\ Good(sent'[v], FineSent(v)')
      BY <2>1, <3>2, GoodFacts DEF AccessInv, Informed
    <3> QED  BY <1>1, <3>3 DEF Informed
  <2> QED  BY <1>1, <2>1, <2>2 DEF AccessInv
<1>5. CASE roleGroups # {}
  <2>1. token' = Revoked(token, {u}) /\ sent' = Resent(sent, {u})
    BY <1>5 DEF SweepMember
  <2>2. ASSUME NEW v \in Users PROVE Informed(v)'
    <3>1. v # u => Fine(v)' = Fine(v) /\ FineSent(v)' = FineSent(v)
      <4> SUFFICES ASSUME v # u PROVE Fine(v)' = Fine(v) /\ FineSent(v)' = FineSent(v)
        OBVIOUS
      <4>1. member'[v] = member[v]  BY <1>3
      <4> QED  BY <1>2, <4>1 DEF Fine, FineSent, RolesOf, RolesIf
    <3>2. token'[v] = IF v = u THEN Off ELSE token[v]
      BY <2>1 DEF Revoked
    <3>3. Good(token'[v], Fine(v)')
      BY <3>1, <3>2, GoodFacts DEF AccessInv, Informed
    <3>4. sent[v] \in Told /\ (v \in {u} \/ Good(sent[v], FineSent(v)'))
      BY <3>1 DEF AccessInv, Informed, Good
    <3>5. Good(sent'[v], FineSent(v)')
      BY <1>1, <2>1, <3>4, ResentFacts
    <3> QED  BY <1>1, <3>3, <3>5 DEF Informed
  <2>3. Rows'
    <3>1. token' = [v \in Users |-> token'[v]]
      BY <2>1 DEF Revoked
    <3>2. sent' = [v \in Users |-> sent'[v]]
      BY <2>1 DEF Resent
    <3> QED  BY <3>1, <3>2 DEF Rows
  <2> QED  BY <1>1, <2>2, <2>3 DEF AccessInv
<1> QED  BY <1>4, <1>5

\* The invariant is kept by SweepDirect.
LEMMA SweepDirectStep ==
    ASSUME AccessInv, NEW u \in Users, SweepDirect(u)
    PROVE  AccessInv'
<1>1. sweep' \in [pc : {"direct"}, rows : SUBSET Users]
  BY DEF AccessInv, Tables, SweepDirect
<1>2. direct' \in [Users -> Instants]
  BY DEF AccessInv, Tables, SweepDirect, Instants
<1>3. Tables' /\ SameRoles /\ UNCHANGED <<token, sent>> /\ Rows' /\ sweep'.pc # "idle"
  BY <1>1, <1>2 DEF AccessInv, Tables, SweepDirect, policy, SameRoles, Rows
<1> QED  BY <1>3, NothingTold DEF AccessInv

\* The invariant is kept by SweepEnds.
LEMMA SweepEndsStep ==
    ASSUME AccessInv, SweepEnds
    PROVE  AccessInv'
<1> DEFINE Rq == [status : {"none", "pending"} \cup Decided, bounded : BOOLEAN, due : BOOLEAN]
<1>1. request' \in [Users -> Rq]
  <2>1. \A u \in Users : request[u] \in Rq /\ [request[u] EXCEPT !.status = "expired"] \in Rq
    BY DEF AccessInv, Tables, Decided
  <2> HIDE DEF Rq
  <2> QED  BY <2>1 DEF SweepEnds
<1>2. sweep' \in [pc : {"idle"}, rows : SUBSET Users]
  BY DEF SweepEnds, NoSweep
<1>3. Tables' /\ SameRoles /\ AccessChange
  BY <1>1, <1>2 DEF AccessInv, Tables, SweepEnds, policy, SameRoles
<1> QED  BY <1>3, AccessFollows, AccessRows DEF AccessInv

\* The invariant is kept by ReconcileProvisioning.
LEMMA ReconcileStep ==
    ASSUME AccessInv, ReconcileProvisioning
    PROVE  AccessInv'
<1>1. Tables' /\ SameRoles /\ SameAccess /\ sent' = Reconciled(sent) /\ token' = token
  BY DEF AccessInv, Tables, ReconcileProvisioning, policy, SameRoles, SameAccess
<1>2. ASSUME NEW v \in Users PROVE Informed(v)'
  <2>1. Fine(v)' = Fine(v) /\ FineSent(v)' = FineSent(v)
    BY <1>1, SameRolesFacts
  <2>2. Good(token'[v], Fine(v)') /\ Good(sent[v], FineSent(v)')
    BY <1>1, <2>1 DEF AccessInv, Informed
  <2>3. Good(sent'[v], FineSent(v)') /\ sent'[v].on = Has(v)'
    BY <1>1, <2>2, ReconciledFacts
  <2> QED  BY <2>2, <2>3 DEF Informed
<1>3. Rows'
  BY <1>1, FollowRows DEF AccessInv, Rows
<1> QED  BY <1>1, <1>2, <1>3 DEF AccessInv

\* The invariant is kept when the follow-up starts, or the process does.
LEMMA SweepStep ==
    ASSUME AccessInv, RunDueExpiries \/ RestartFollowUp
    PROVE  AccessInv'
<1>1. ASSUME SweepStarts PROVE AccessInv'
  <2>1. sweep' \in [pc : {"started", "members", "direct"}, rows : SUBSET Users]
    BY <1>1 DEF SweepStarts
  <2> QED  BY <1>1, <2>1, SweepOnly DEF SweepStarts, AccessInv, Tables
<1>2. ASSUME SweepDirects PROVE AccessInv'
  <2>1. sweep' \in [pc : {"started", "members", "direct"}, rows : SUBSET Users]
    BY <1>2 DEF SweepDirects
  <2> QED  BY <1>2, <2>1, SweepOnly DEF SweepDirects, AccessInv, Tables
<1>3. ASSUME RestartFollowUp PROVE AccessInv'
  <2>1. sweep' \in [pc : {"started", "members", "direct"}, rows : SUBSET Users]
    BY <1>3 DEF RestartFollowUp
  <2>2. changes' \in 0..MaxChanges
    BY <1>3 DEF RestartFollowUp, Change, AccessInv, Tables
  <2> QED  BY <1>3, <2>1, <2>2, SweepOnly DEF RestartFollowUp
<1> QED
  BY <1>1, <1>2, <1>3, SweepMemberStep, SweepDirectStep, SweepEndsStep DEF RunDueExpiries

\* The invariant holds at the start.
LEMMA InitInformed ==
    ASSUME AccessInit, MaxChanges \in Nat
    PROVE  AccessInv
<1>1. Tables
  BY DEF AccessInit, Tables, Instants, NoSweep
<1>2. Rows
  BY DEF AccessInit, Rows
<1>3. ASSUME NEW u \in Users PROVE Informed(u)
  <2>1. token[u] = Off
        /\ sent[u] = IF Has(u) THEN Says(Payload(u)) ELSE Off
    BY DEF AccessInit
  <2>2. Good(token[u], Fine(u)) /\ Good(sent[u], FineSent(u))
    BY <1>1, <2>1, GoodFacts, RolesFacts
  <2>3. Has(u) \in BOOLEAN /\ Says(Payload(u)).on = TRUE
        /\ Off.on = FALSE
    BY DEF Has, Says, Off
  <2>4. sent[u].on = Has(u)
    BY <2>1, <2>3
  <2> QED  BY <2>2, <2>4 DEF Informed
<1> QED  BY <1>1, <1>2, <1>3 DEF AccessInv

\* Every step keeps the invariant.
LEMMA NextInformed ==
    ASSUME AccessInv, [AccessNext]_accessVars
    PROVE  AccessInv'
<1>1. CASE UNCHANGED accessVars
  <2>1. /\ UNCHANGED <<direct, member, policy, token, sent, sweep>>
        /\ UNCHANGED <<request, changes>>
    BY <1>1 DEF accessVars, policy
  <2> QED  BY <2>1, RequestStep DEF AccessInv, Tables
<1> QED
  BY <1>1, AdministrationStep, AskingStep, TimeStep, SweepStep, ReconcileStep DEF AccessNext

\* The invariant implies the type invariant and the property.
LEMMA InformedTells ==
    ASSUME AccessInv
    PROVE  AccessTypeOK /\ ToldWhatHolds
<1>1. AccessTypeOK
  <2>1. token \in [Users -> Told] /\ sent \in [Users -> Told]
    BY DEF AccessInv, Rows, Informed, Good
  <2> QED  BY <2>1 DEF AccessInv, Tables, AccessTypeOK
<1>2. RolesCurrent
  <2> SUFFICES ASSUME NEW u \in Users, member[u] # "lapsed"
               PROVE  /\ token[u].on /\ ~token[u].missed => token[u].roles = RolesOf(u)
                      /\ sent[u].on /\ ~sent[u].missed => sent[u].roles = Payload(u)
    BY DEF RolesCurrent
  <2>1. Fine(u) = {RolesOf(u)} /\ FineSent(u) = {Payload(u)}
    BY DEF Fine, FineSent, Payload
  <2> QED  BY <2>1 DEF AccessInv, Informed, Good
<1>3. ProvisionedHaveAccess
  BY DEF ProvisionedHaveAccess, AccessInv, Informed
<1> QED  BY <1>1, <1>2, <1>3 DEF ToldWhatHolds

\* The type invariant.
THEOREM AccessTypeCorrect == AccessSpec => []AccessTypeOK
<1>1. AccessInit => AccessInv
  BY InitInformed, ChangesAssumption DEF ChangesAssumption
<1>2. AccessInv /\ [AccessNext]_accessVars => AccessInv'
  BY NextInformed
<1>3. AccessInv => AccessTypeOK
  BY InformedTells
<1> QED  BY <1>1, <1>2, <1>3, PTL DEF AccessSpec

\* What the tokens and the connection of an application say of a user's roles is so now, except
\* of a user whose lapsed membership waits for its follow-up or whom a role change passed over
\* meanwhile; and while the follow-up rests and nothing is lapsing, the connection is on for
\* exactly the users who have access (ToldWhatHolds: roleChangeTx, RunDueExpiries).
THEOREM AppsAreToldWhatHolds == AccessSpec => []ToldWhatHolds
<1>1. AccessInit => AccessInv
  BY InitInformed, ChangesAssumption DEF ChangesAssumption
<1>2. AccessInv /\ [AccessNext]_accessVars => AccessInv'
  BY NextInformed
<1>3. AccessInv => ToldWhatHolds
  BY InformedTells
<1> QED  BY <1>1, <1>2, <1>3, PTL DEF AccessSpec

\* Only an approval leaves a request approved that was pending.
LEMMA OnlyApproval ==
    ASSUME AccessInv, [AccessNext]_accessVars, NEW u \in Users,
           request[u].status = "pending", request'[u].status = "approved"
    PROVE  \E d \in Users \cup {Root} : ApproveAccessRequest(d, u)
<1>0. request \in [Users -> [status : {"none", "pending"} \cup Decided, bounded : BOOLEAN, due : BOOLEAN]]
  BY DEF AccessInv, Tables
<1>1. request' # request
  OBVIOUS
<1>2. ~Administration
  BY <1>1 DEF Administration, SetAppPolicy, SetAppRequestable,
       AssignGroup, CreateAppRole, DeleteAppRole,
     MapGroup, MapUser, SetAppAssignment, SetGroupMembership,
         SetStatus, SetDelegations, DeleteGroup
<1>3. ~RestartFollowUp /\ ~ReconcileProvisioning /\ ~UNCHANGED accessVars
  BY <1>1 DEF RestartFollowUp, ReconcileProvisioning, accessVars
<1>4. ~Time
  <2> SUFFICES ASSUME NEW v \in Users, RequestDue(v) PROVE FALSE
    BY <1>1 DEF Time, IssueToken, LapseDirect, LapseMember
  <2> QED  BY <1>0 DEF RequestDue
<1>5. ~RunDueExpiries
  <2> SUFFICES ASSUME SweepEnds PROVE FALSE
    BY <1>1 DEF RunDueExpiries, SweepStarts, SweepDirects,
         SweepMember, SweepDirect
  <2>1. request'[u] = request[u] \/ request'[u] = [request[u] EXCEPT !.status = "expired"]
    BY DEF SweepEnds
  <2> QED  BY <1>0, <2>1
<1>6. Asking
  BY <1>2, <1>3, <1>4, <1>5 DEF AccessNext
<1>7. \A v \in Users, b \in BOOLEAN : ~CreateAccessRequest(v, b)
  BY <1>0 DEF CreateAccessRequest
<1>8. \A v \in Users : ~CancelAccessRequest(v)
  BY <1>0 DEF CancelAccessRequest
<1>9. \A v \in Users, d \in Users \cup {Root} : ~DenyAccessRequest(d, v)
  BY <1>0 DEF DenyAccessRequest
<1>10. \A v \in Users, d \in Users \cup {Root} : ApproveAccessRequest(d, v) => v = u
  BY <1>0 DEF ApproveAccessRequest
<1> QED  BY <1>6, <1>7, <1>8, <1>9, <1>10 DEF Asking

\* An approval is made while the application is open to requests, and gives what it says.
LEMMA ApprovalEffect ==
    ASSUME AccessInv, NEW u \in Users, NEW d, ApproveAccessRequest(d, u)
    PROVE  OpenToRequests /\ (u \in active => Has(u)' /\ sent'[u].on)
<1>1. OpenToRequests
      /\ ApplyAppAssignment(u, IF request[u].bounded THEN "bounded" ELSE "unbounded")
  BY DEF ApproveAccessRequest
<1>2. /\ direct' = [direct EXCEPT ![u] = IF request[u].bounded THEN "bounded" ELSE "unbounded"]
      /\ UNCHANGED <<app, active>> /\ SameRoles /\ sent' = Reconciled(sent)
  BY <1>1 DEF ApplyAppAssignment, policy, SameRoles, AccessChange
<1>3. direct'[u] \in Live
  BY <1>2 DEF AccessInv, Tables, Live
<1>4. u \in active => Has(u)'
  BY <1>1, <1>2, <1>3 DEF Has, OpenToRequests
<1>5. u \in active => sent'[u].on
  <2>1. sent'[u] = IF Has(u)' = sent[u].on THEN sent[u] ELSE IF Has(u)' THEN Says(Payload(u)') ELSE Off
    BY <1>2 DEF Reconciled
  <2>2. Has(u)' \in BOOLEAN /\ Says(Payload(u)').on = TRUE
    BY DEF Has, Says
  <2>3. CASE Has(u)' = sent[u].on
    BY <1>4, <2>1, <2>2, <2>3
  <2>4. CASE Has(u)' # sent[u].on
    BY <1>4, <2>1, <2>2, <2>4
  <2> QED  BY <2>3, <2>4
<1> QED  BY <1>1, <1>4, <1>5

\* An approved request gives the access it was made for, and the application hears of it: the
\* approval re-checks what may have changed since the request was made (ApproveAccessRequest).
THEOREM ApprovalsTakeEffect == AccessSpec => ApprovalTakesEffect
<1> DEFINE A == \A u \in Users :
                  (request[u].status = "pending" /\ request'[u].status = "approved") =>
                     /\ OpenToRequests
                     /\ u \in active => Has(u)' /\ sent'[u].on
<1>1. AccessInit => AccessInv
  BY InitInformed, ChangesAssumption DEF ChangesAssumption
<1>2. AccessInv /\ [AccessNext]_accessVars => AccessInv'
  BY NextInformed
<1>3. AccessInv /\ [AccessNext]_accessVars => A
  BY OnlyApproval, ApprovalEffect
<1> QED  BY <1>1, <1>2, <1>3, PTL DEF AccessSpec, ApprovalTakesEffect
=============================================================================
