---------------------------- MODULE AlertsProofs ----------------------------
(***************************************************************************)
(* Proofs about Alerts, for any number of sources, connectors, recipients  *)
(* and failed passes: type correctness, that no burst of login failures    *)
(* goes unseen, that login noise is bounded, and that mail is careful.     *)
(***************************************************************************)
EXTENDS Alerts, FiniteSetTheorems, TLAPS

USE DEF ghosts

Ids == Keys \X Nat \X Users
Pcs == {"idle", "quiet", "batch", "list", "mail", "cleared", "accepted", "refused"}
Pass == [pc : Pcs, now : Nat, to : SUBSET Users, done : Nat, due : SUBSET Ids,
         row : Ids \cup {<<>>}]

\* An event is known by its id, and one that is about no source is from none.
Logged ==
    /\ IsFiniteSet(log)
    /\ \A e \in log : e.key = Subject => e.ip = Subject
    /\ \A e, f \in log : e.n = f.n => e = f

\* Mailings about a key are numbered, and a row is known by its key, number and recipient.
Nths(k) == {d.nth : d \in {r \in mail : r.key = k}}
Filed ==
    /\ \A k \in Keys : IsFiniteSet(Nths(k))
    /\ \A d \in mail : d.nth < Nth(d.key)
    /\ \A d, e \in mail : Id(d) = Id(e) => d = e

\* No mail is from the future, of the clock or of the pass that evaluates events.
Dated ==
    /\ pass.now <= clock
    /\ \A d \in mail : d.created <= clock
    /\ pass.pc \in {"quiet", "batch"} => \A d \in mail : d.created <= pass.now

\* What a pass has listed and not finished is pending and due, and it is in the mail.
Listed ==
    /\ \A d \in mail : d.status # "pending" => d.attempts = 0 /\ ~d.wait
    /\ pass.due \subseteq {Id(d) : d \in mail}
    /\ \A d \in mail : Id(d) \in pass.due => d.status = "pending" /\ ~d.wait
    /\ \A d \in mail : pass.pc \in {"cleared", "accepted", "refused"} /\ pass.row = Id(d)
                          => d.status = "pending" /\ ~d.wait /\ Id(d) \notin pass.due

\* The sources with an alert of their own.
LiveSources == {s \in Sources : live[s] # "none"}
Counted == IsFiniteSet(LiveSources) /\ Cardinality(LiveSources) <= Ceiling

\* Messages the relay accepted and no pass will record any more.
Lost == {Id(d) : d \in {r \in mail : r.got}} \ (IF pass.pc = "accepted" THEN {pass.row} ELSE {})
Careful ==
    /\ IsFiniteSet(Lost) /\ repeats + Cardinality(Lost) <= excused
    /\ \A u \in Users \ readers : late[u] <= 1
    /\ \A d \in mail : pass.pc = "cleared" /\ pass.row = Id(d) /\ d.user \notin readers
                          => late[d.user] = 0

\* The shapes of TypeOK, with that of a pass.
Shape ==
    /\ clock \in 0..MaxTime /\ log \subseteq Event
    /\ queue \subseteq {e.n : e \in log}
    /\ live \in [Keys -> {"none", "open", "acknowledged"}]
    /\ mail \subseteq Row
    /\ recipients \subseteq Users /\ readers \subseteq Users /\ outage \subseteq Connectors
    /\ pass \in Pass
    /\ late \in [Users -> Nat] /\ repeats \in Nat /\ excused \in Nat /\ ops \in 0..MaxOps

-----------------------------------------------------------------------------
(* Rows of the mail                                                        *)

\* What never changes in a row.
Renews(d, m) ==
    /\ m \in Row /\ m.key = d.key /\ m.nth = d.nth /\ m.user = d.user
    /\ m.created = d.created /\ m.again = d.again /\ Id(m) = Id(d)

\* The edits of DeliverAlerts on a row.
LEMMA RowTaken ==
    ASSUME NEW d \in Row, NEW m, m = [d EXCEPT !.got = TRUE]
    PROVE  /\ Renews(d, m) /\ m.status = d.status /\ m.attempts = d.attempts
           /\ m.wait = d.wait /\ m.got = TRUE
BY DEF Row, Renews, Id

LEMMA RowDue ==
    ASSUME NEW d \in Row, NEW m, m = [d EXCEPT !.wait = FALSE]
    PROVE  /\ Renews(d, m) /\ m.status = d.status /\ m.attempts = d.attempts
           /\ m.wait = FALSE /\ m.got = d.got
BY DEF Row, Renews, Id

LEMMA RowWaits ==
    ASSUME NEW d \in Row, NEW m, d.attempts + 1 < AlertAttempts,
           m = [d EXCEPT !.attempts = @ + 1, !.wait = TRUE]
    PROVE  Renews(d, m) /\ m.status = d.status /\ m.wait = TRUE /\ m.got = d.got
<1>1. PICK n \in 0..AlertAttempts - 1 : n = d.attempts + 1
  BY NumberAssumption DEF Row
<1>2. m = [d EXCEPT !.attempts = n, !.wait = TRUE]
  BY <1>1
<1> QED  BY <1>2 DEF Row, Renews, Id

\* The outcome of a send on its row.
LEMMA RecordedFacts ==
    ASSUME NEW d \in Row, d.status = "pending"
    PROVE  LET m == Recorded(d) IN
           /\ Renews(d, m)
           /\ m.status # "pending" => m.attempts = 0 /\ m.wait = d.wait
           /\ pass.pc = "accepted" => ~m.got
           /\ m.got => d.got
<1>1. ASSUME NEW s \in {"delivered", "failed"},
             Recorded(d) = [d EXCEPT !.status = s, !.attempts = 0, !.got = FALSE]
      PROVE  LET m == Recorded(d) IN Renews(d, m) /\ m.attempts = 0 /\ m.wait = d.wait /\ ~m.got
  <2>1. PICK m : m = [d EXCEPT !.status = s, !.attempts = 0, !.got = FALSE]
    OBVIOUS
  <2>2. 0 \in 0..AlertAttempts - 1
    BY NumberAssumption
  <2>3. Renews(d, m) /\ m.attempts = 0 /\ m.wait = d.wait /\ m.got = FALSE
    BY <2>1, <2>2 DEF Row, Renews, Id
  <2> QED  BY <1>1, <2>1, <2>3
<1>2. CASE pass.pc = "accepted"
  <2>1. Recorded(d) = [d EXCEPT !.status = "delivered", !.attempts = 0, !.got = FALSE]
    BY <1>2 DEF Recorded
  <2> QED  BY <1>1, <2>1
<1>3. CASE pass.pc # "accepted" /\ d.attempts + 1 >= AlertAttempts
  <2>1. Recorded(d) = [d EXCEPT !.status = "failed", !.attempts = 0, !.got = FALSE]
    BY <1>3 DEF Recorded
  <2> QED  BY <1>1, <2>1
<1>4. CASE pass.pc # "accepted" /\ ~(d.attempts + 1 >= AlertAttempts)
  <2>1. d.attempts + 1 < AlertAttempts
    BY <1>4, NumberAssumption DEF Row
  <2>2. Recorded(d) = [d EXCEPT !.attempts = @ + 1, !.wait = TRUE]
    BY <1>4 DEF Recorded
  <2>3. PICK m : m = [d EXCEPT !.attempts = @ + 1, !.wait = TRUE]
    OBVIOUS
  <2>4. Renews(d, m) /\ m.status = d.status /\ m.wait = TRUE /\ m.got = d.got
    BY <2>1, <2>3, RowWaits
  <2> QED  BY <1>4, <2>2, <2>3, <2>4
<1> QED  BY <1>2, <1>3, <1>4

\* An edit replaces a row by one of the same name.
LEMMA EditFiled ==
    ASSUME Shape, Filed, NEW d \in mail, NEW m, Renews(d, m), mail' = (mail \ {d}) \cup {m}
    PROVE  /\ Filed' /\ mail' \subseteq Row
           /\ {Id(r) : r \in mail'} = {Id(r) : r \in mail}
           /\ LoginMailCapped => LoginMailCapped'
<1>1. mail' \subseteq Row
  BY DEF Shape, Renews
<1>2. ASSUME NEW k  PROVE Nths(k)' = Nths(k)
  BY DEF Nths, Renews
<1>3. \A k : Nth(k)' = Nth(k)
  BY <1>2 DEF Nth, Nths
<1>4. ASSUME NEW x \in mail', NEW y \in mail', Id(x) = Id(y)  PROVE x = y
  BY <1>4 DEF Filed, Renews
<1>5. \A x \in mail' : x.nth < Nth(x.key)'
  BY <1>3 DEF Filed, Renews
<1>6. Filed'
  BY <1>2, <1>4, <1>5 DEF Filed
<1>7. {Id(r) : r \in mail'} = {Id(r) : r \in mail}
  BY DEF Renews
<1>8. ASSUME LoginMailCapped  PROVE LoginMailCapped'
  BY <1>8 DEF LoginMailCapped, Renews
<1> QED  BY <1>1, <1>6, <1>7, <1>8

\* The rows of a mailing.
Mailed(K, again, d) ==
    /\ d \in Row /\ d.key \in K /\ d.nth = Nth(d.key) /\ d.user \in pass.to
    /\ d.created = (IF d.key \in LoginKeys THEN pass.now ELSE 0) /\ d.again = again
    /\ d.status = "pending" /\ d.attempts = 0 /\ d.wait = FALSE /\ d.got = FALSE

LEMMA QueuedFacts ==
    ASSUME Shape, Filed, NEW K \in SUBSET Keys, NEW again \in BOOLEAN, NEW d \in Queued(K, again)
    PROVE  Mailed(K, again, d)
<1>1. PICK p \in K \X pass.to :
         d = [key |-> p[1], nth |-> Nth(p[1]), user |-> p[2],
              created |-> IF p[1] \in LoginKeys THEN pass.now ELSE 0, again |-> again,
              status |-> "pending", attempts |-> 0, wait |-> FALSE, got |-> FALSE]
  BY DEF Queued
<1>2. p[1] \in Keys /\ p[1] \in K /\ p[2] \in pass.to /\ p[2] \in Users
  BY DEF Shape, Pass
<1>3. Nth(p[1]) \in Nat \ {0}
  <2>1. Cardinality(Nths(p[1])) \in Nat
    BY <1>2, FS_CardinalityType DEF Filed
  <2> QED  BY <2>1 DEF Nth, Nths
<1>4. (IF p[1] \in LoginKeys THEN pass.now ELSE 0) \in Nat /\ 0 \in 0..AlertAttempts - 1
  BY NumberAssumption DEF Shape, Pass
<1>5. d \in Row
  BY <1>1, <1>2, <1>3, <1>4 DEF Row
<1> QED  BY <1>1, <1>2, <1>5 DEF Mailed

\* A mailing is filed under a number of its own.
LEMMA QueuedFiled ==
    ASSUME Shape, Filed, NEW K \in SUBSET Keys, NEW again \in BOOLEAN,
           mail' = mail \cup Queued(K, again)
    PROVE  Filed' /\ mail' \subseteq Row
<1> DEFINE Q == Queued(K, again)
<1>1. ASSUME NEW d \in Q
      PROVE  d \in Row /\ d.key \in K /\ d.nth = Nth(d.key) /\ d.user \in pass.to
  <2>1. Mailed(K, again, d)
    BY QueuedFacts, Zenon
  <2> QED  BY <2>1 DEF Mailed
<1>2. mail' \subseteq Row
  BY <1>1 DEF Shape
<1>3. ASSUME NEW k \in Keys
      PROVE  /\ IsFiniteSet(Nths(k)') /\ Nth(k)' >= Nth(k) /\ Nth(k) \in Nat /\ Nth(k)' \in Nat
             /\ \A d \in Q : d.key = k => Nth(k)' = Nth(k) + 1
  <2>1. IsFiniteSet(Nths(k)) /\ Cardinality(Nths(k)) \in Nat /\ Nth(k) = 1 + Cardinality(Nths(k))
    BY FS_CardinalityType DEF Filed, Nth, Nths
  <2>2. Nth(k) \notin Nths(k)
    BY <2>1 DEF Filed, Nths, Shape, Row
  <2>3. CASE \E d \in Q : d.key = k
    <3>1. Nths(k)' = Nths(k) \cup {Nth(k)}
      <4>1. PICK x \in Q : x.key = k
        BY <2>3
      <4>2. x.nth = Nth(k) /\ \A d \in Q : d.key = k => d.nth = Nth(k)
        BY <1>1, <4>1
      <4>3. mail' = mail \cup Q
        OBVIOUS
      <4> HIDE DEF Q
      <4> QED  BY <4>1, <4>2, <4>3 DEF Nths
    <3>2. IsFiniteSet(Nths(k)') /\ Cardinality(Nths(k)') = Cardinality(Nths(k)) + 1
      <4>1. PICK S, x : S = Nths(k) /\ x = Nth(k)
        OBVIOUS
      <4>2. IsFiniteSet(S \cup {x}) /\ Cardinality(S \cup {x}) = Cardinality(S) + 1
        <5>1. IsFiniteSet(S) /\ x \notin S
          BY <2>1, <2>2, <4>1
        <5> QED  BY <5>1, FS_AddElement
      <4> QED  BY <3>1, <4>1, <4>2
    <3>3. Nth(k)' = 1 + Cardinality(Nths(k)')
      BY DEF Nth, Nths
    <3> QED  BY <2>1, <3>2, <3>3
  <2>4. CASE ~\E d \in Q : d.key = k
    <3>1. Nths(k)' = Nths(k)
      BY <2>4 DEF Nths
    <3>2. Nth(k)' = 1 + Cardinality(Nths(k)')
      BY DEF Nth, Nths
    <3> QED  BY <2>1, <2>4, <3>1, <3>2
  <2> QED  BY <2>3, <2>4
<1> HIDE DEF Q
<1>4. mail' = mail \cup Q
  BY DEF Q
<1>5. \A d \in mail' : d.key \in Keys /\ d.nth \in Nat
  BY <1>2 DEF Row
<1>6. ASSUME NEW d \in mail'  PROVE d.nth < Nth(d.key)'
  <2>1. CASE d \in mail
    <3>1. d.nth < Nth(d.key)
      BY <2>1 DEF Filed
    <3> QED  BY <1>3, <1>5, <3>1
  <2>2. CASE d \in Q
    <3>1. d.nth = Nth(d.key)
      BY <1>1, <2>2
    <3> QED  BY <1>3, <1>5, <2>2, <3>1
  <2> QED  BY <1>4, <2>1, <2>2
<1>7. ASSUME NEW d \in mail, NEW e \in Q  PROVE Id(d) # Id(e)
  <2>1. d.nth < Nth(d.key) /\ e.nth = Nth(e.key) /\ d.key \in Keys
    BY <1>1, <1>4, <1>5 DEF Filed
  <2> QED  BY <1>3, <1>4, <1>5, <2>1 DEF Id
<1>8. ASSUME NEW d \in Q, NEW e \in Q, Id(d) = Id(e)  PROVE d = e
  <2> DEFINE row(k, u) == [key |-> k, nth |-> Nth(k), user |-> u,
                           created |-> IF k \in LoginKeys THEN pass.now ELSE 0, again |-> again,
                           status |-> "pending", attempts |-> 0, wait |-> FALSE, got |-> FALSE]
  <2>1. \A x \in Q : \E p \in K \X pass.to : x = row(p[1], p[2])
    BY DEF Q, Queued
  <2>2. PICK p \in K \X pass.to : d = row(p[1], p[2])
    BY <2>1
  <2>3. PICK q \in K \X pass.to : e = row(q[1], q[2])
    BY <2>1
  <2>4. d.key = p[1] /\ d.user = p[2] /\ e.key = q[1] /\ e.user = q[2]
    BY <2>2, <2>3
  <2>5. p[1] = q[1] /\ p[2] = q[2]
    BY <1>8, <2>4 DEF Id
  <2> QED  BY <2>2, <2>3, <2>5
<1>9. \A d, e \in mail' : Id(d) = Id(e) => d = e
  BY <1>4, <1>7, <1>8 DEF Filed
<1> QED  BY <1>2, <1>3, <1>6, <1>9 DEF Filed

-----------------------------------------------------------------------------
(* The log, and the alerts it raises                                       *)

\* The failures a source has in the window at an instant, up to an event and in time for it.
Recent(e, t) ==
    {f \in log : CountsFor(f, e.key) /\ UpTo(f, e) /\ e.n \notin f.missed /\ f.at + Window > t}

LEMMA RecentFacts ==
    ASSUME Shape, Logged, NEW e \in log, NEW t \in Nat, NEW v \in Nat, t <= v
    PROVE  /\ IsFiniteSet(Recent(e, t)) /\ Cardinality(Recent(e, t)) \in Nat
           /\ Cardinality(Recent(e, v)) \in Nat
           /\ Cardinality(Recent(e, v)) <= Cardinality(Recent(e, t))
           /\ Cardinality(Recent(e, t)) >= Threshold => Recent(e, t) # {}
<1>1. Recent(e, t) \in SUBSET log /\ IsFiniteSet(log)
  BY DEF Recent, Logged
<1>2. IsFiniteSet(Recent(e, t))
  BY <1>1, FS_Subset
<1>3. Recent(e, v) \in SUBSET Recent(e, t)
  BY NumberAssumption DEF Recent, Shape, Event
<1>4. IsFiniteSet(Recent(e, v)) /\ Cardinality(Recent(e, v)) <= Cardinality(Recent(e, t))
  BY <1>2, <1>3, FS_Subset
<1>5. Cardinality(Recent(e, t)) \in Nat /\ Cardinality(Recent(e, v)) \in Nat
  BY <1>2, <1>4, FS_CardinalityType
<1>6. Recent(e, t) = {} => Cardinality(Recent(e, t)) = 0
  BY FS_EmptySet
<1> QED  BY <1>2, <1>4, <1>5, <1>6, NumberAssumption

\* BurstsShown, said of one event.
Showing(e) == live[e.key] # "none" \/ live[Many] # "none"
LEMMA BurstsSaid ==
    BurstsShown <=> \A e \in log :
        e.key \in Sources /\ e.n \notin queue /\ Cardinality(Recent(e, clock)) >= Threshold
        => Showing(e)
BY DEF BurstsShown, Recent, Showing

\* Time passes, and alerts that are live stay so.
LEMMA BurstsStay ==
    ASSUME Shape, Shape', Logged, BurstsShown, UNCHANGED log, clock' >= clock, queue \subseteq queue',
           \A k \in Sources \cup {Many} : live[k] # "none" => live'[k] # "none"
    PROVE  BurstsShown'
<1>1. clock \in Nat /\ clock' \in Nat
  BY DEF Shape
<1>2. ASSUME NEW e \in log, e.key \in Sources, e.n \notin queue',
             Cardinality(Recent(e, clock)') >= Threshold
      PROVE  Showing(e)'
  <2>1. Recent(e, clock)' = Recent(e, clock')
    BY DEF Recent, CountsFor, UpTo, Precedes
  <2>2. Cardinality(Recent(e, clock)) >= Threshold
    BY <1>1, <1>2, <2>1, RecentFacts, NumberAssumption
  <2>3. Showing(e)
    BY <1>2, <2>2, BurstsSaid
  <2> QED  BY <1>2, <2>3 DEF Showing
<1>3. \A e \in log' :
        e.key \in Sources /\ e.n \notin queue' /\ Cardinality(Recent(e, clock)') >= Threshold
        => Showing(e)'
  BY <1>2
<1>4. BurstsShown' <=> \A e \in log' :
        e.key \in Sources /\ e.n \notin queue' /\ Cardinality(Recent(e, clock)') >= Threshold
        => Showing(e)'
  BY DEF BurstsShown, Recent, Showing
<1> QED  BY <1>3, <1>4

\* A committed event is new to the log, and waits in the queue.
LEMMA AuditStep ==
    ASSUME Shape, Logged, BurstsShown, NEW k \in Sources \cup {Subject},
           NEW ip \in Addresses \cup {Subject}, NEW at \in 0..clock, NEW n \in 1..MaxOps,
           AuditInsert(k, ip, at, n)
    PROVE  Shape' /\ Logged' /\ BurstsShown'
<1> DEFINE over == {e.n : e \in {f \in log : Precedes(at, n, f)}} \ queue
<1>0. PICK x : x = [n |-> n, key |-> k, ip |-> ip, at |-> at, missed |-> over]
  OBVIOUS
<1>1. /\ log' = log \cup {x} /\ queue' = queue \cup {n} /\ MayAct /\ (k = Subject => ip = Subject)
      /\ UNCHANGED <<clock, live, mail, recipients, readers, outage, pass, ghosts>>
  BY <1>0 DEF AuditInsert
<1>2. over \in SUBSET Nat
  BY DEF Shape, Event
<1>3. /\ x \in Event /\ x.n = n /\ x.key = k /\ x.ip = ip /\ x.at = at
      /\ x.missed = over
  <2>1. at \in Nat /\ n \in Nat
    BY NumberAssumption DEF Shape
  <2> HIDE DEF over
  <2> QED  BY <1>0, <1>2, <2>1 DEF Event
<1>4. \A e \in log : e.n # n
  BY DEF AuditInsert
<1>5. \A e \in log : e.n \notin queue /\ UpTo(x, e) => e.n \in x.missed
  BY <1>3 DEF UpTo
<1> HIDE DEF over
<1>6. IsFiniteSet(log')
  BY <1>1, FS_AddElement DEF Logged
<1>8. Logged'
  <2>1. \A e \in log' : e.key = Subject => e.ip = Subject
    BY <1>1, <1>3 DEF Logged
  <2>2. ASSUME NEW e \in log', NEW f \in log', e.n = f.n  PROVE e = f
    <3>1. CASE e \in log /\ f \in log
      BY <2>2, <3>1 DEF Logged
    <3>2. \A y \in log : y.n # x.n
      BY <1>3, <1>4
    <3> QED  BY <1>1, <2>2, <3>1, <3>2
  <2> QED  BY <1>6, <2>1, <2>2 DEF Logged
<1>9. Shape'
  <2>1. log' \subseteq Event /\ queue' \subseteq {e.n : e \in log'}
    BY <1>1, <1>3 DEF Shape
  <2>2. ops' \in 0..MaxOps /\ excused' \in Nat
    BY <1>1, NumberAssumption DEF MayAct, Shape
  <2> QED  BY <1>1, <2>1, <2>2 DEF Shape
<1>10. ASSUME NEW e \in log', e.n \notin queue'
       PROVE  e \in log /\ e.n \notin queue /\ Recent(e, clock)' = Recent(e, clock)
  <2>1. e \in log
    BY <1>1, <1>3, <1>10
  <2>2. e.n \notin queue
    BY <1>1, <1>10
  <2>3. ~UpTo(x, e) \/ e.n \in x.missed
    BY <1>5, <2>1, <2>2
  <2> QED  BY <1>1, <2>1, <2>2, <2>3 DEF Recent, CountsFor, UpTo, Precedes
<1>11. \A e \in log' :
        e.key \in Sources /\ e.n \notin queue' /\ Cardinality(Recent(e, clock)') >= Threshold
        => Showing(e)'
  <2> SUFFICES ASSUME NEW e \in log', e.key \in Sources, e.n \notin queue',
                      Cardinality(Recent(e, clock)') >= Threshold
               PROVE  Showing(e)'
    OBVIOUS
  <2>1. e \in log /\ e.n \notin queue /\ Cardinality(Recent(e, clock)) >= Threshold
    BY <1>10
  <2>2. Showing(e)
    BY <2>1, BurstsSaid
  <2> QED  BY <1>1, <2>2 DEF Showing
<1>12. BurstsShown' <=> \A e \in log' :
        e.key \in Sources /\ e.n \notin queue' /\ Cardinality(Recent(e, clock)') >= Threshold
        => Showing(e)'
  BY DEF BurstsShown, Recent, Showing
<1> QED  BY <1>8, <1>9, <1>11, <1>12

\* resolveQuietLoginAlerts closes no alert with a burst under it.
LEMMA QuietStep ==
    ASSUME Shape, Logged, Dated, Counted, BurstsShown, ResolveQuiet
    PROVE  /\ live' \in [Keys -> {"none", "open", "acknowledged"}] /\ BurstsShown' /\ Counted'
<1>1. /\ live' = [k \in Keys |-> IF k \in LoginKeys /\ Quiet(k) THEN "none" ELSE live[k]]
      /\ UNCHANGED <<clock, log, queue>>
  BY DEF ResolveQuiet
<1>2. live' \in [Keys -> {"none", "open", "acknowledged"}]
  BY <1>1 DEF Shape
<1>3. clock \in Nat /\ pass.now \in Nat /\ pass.now <= clock
  BY DEF Shape, Pass, Dated
<1>4. ASSUME NEW e \in log, e.key \in Sources, Recent(e, clock) # {}
      PROVE  ~Quiet(e.key) /\ ~Quiet(Many)
  <2>1. PICK f \in log : CountsFor(f, e.key) /\ f.at + Window > clock
    BY <1>4 DEF Recent
  <2>2. f \in Event /\ f.at \in Nat
    BY DEF Shape, Event
  <2>3. ~(f.at + Window <= pass.now)
    BY <1>3, <2>1, <2>2, NumberAssumption
  <2>4. f.key \in Sources
    BY <1>4, <2>1, <2>2, KeyAssumption DEF Logged, CountsFor, Event
  <2> QED  BY <2>1, <2>3, <2>4 DEF Quiet
<1>5. ASSUME NEW e \in log, e.key \in Sources, e.n \notin queue,
             Cardinality(Recent(e, clock)) >= Threshold
      PROVE  Showing(e)'
  <2>1. Recent(e, clock) # {}
    BY <1>3, <1>5, RecentFacts
  <2>2. Showing(e)
    BY <1>5, BurstsSaid
  <2>3. e.key \in Keys /\ Many \in Keys
    BY <1>5 DEF Keys, LoginKeys
  <2> QED  BY <1>1, <1>4, <1>5, <2>1, <2>2, <2>3 DEF Showing
<1>6. \A e \in log : Recent(e, clock)' = Recent(e, clock)
  BY <1>1 DEF Recent, CountsFor, UpTo, Precedes
<1>7. BurstsShown'
  <2>1. BurstsShown' <=> \A e \in log' :
        e.key \in Sources /\ e.n \notin queue' /\ Cardinality(Recent(e, clock)') >= Threshold
        => Showing(e)'
    BY DEF BurstsShown, Recent, Showing
  <2> QED  BY <1>1, <1>5, <1>6, <2>1
<1>8. Counted'
  <2>1. LiveSources' \in SUBSET LiveSources
    BY <1>1 DEF LiveSources, Keys, LoginKeys
  <2>2. IsFiniteSet(LiveSources') /\ Cardinality(LiveSources') <= Cardinality(LiveSources)
    BY <2>1, FS_Subset DEF Counted
  <2>3. Cardinality(LiveSources') \in Nat /\ Cardinality(LiveSources) \in Nat
    BY <2>2, FS_CardinalityType DEF Counted
  <2> QED  BY <2>2, <2>3, NumberAssumption DEF Counted
<1> QED  BY <1>2, <1>7, <1>8

\* Raising an alert hides none, and takes a source only below the ceiling.
LEMMA RaiseLive ==
    ASSUME Shape, Counted, NEW k \in Keys, RaiseAlert(k), k \in Sources => ~PastCeiling(k)
    PROVE  /\ live' \in [Keys -> {"none", "open", "acknowledged"}] /\ Counted'
           /\ live'[k] = "open" /\ \A j \in Keys : live[j] # "none" => live'[j] # "none"
<1>1. live' = [live EXCEPT ![k] = "open"]
  BY DEF RaiseAlert
<1>2. /\ live' \in [Keys -> {"none", "open", "acknowledged"}] /\ live'[k] = "open"
      /\ \A j \in Keys : j # k => live'[j] = live[j]
  BY <1>1 DEF Shape
<1>3. Sources \subseteq Keys
  BY DEF Keys, LoginKeys
<1>4. CASE k \notin Sources \/ live[k] # "none"
  <2>1. LiveSources' = LiveSources
    BY <1>2, <1>3, <1>4 DEF LiveSources
  <2> QED  BY <1>2, <2>1 DEF Counted
<1>5. CASE k \in Sources /\ live[k] = "none"
  <2>1. LiveSources' = LiveSources \cup {k} /\ k \notin LiveSources
    BY <1>2, <1>3, <1>5 DEF LiveSources
  <2>2. Cardinality(LiveSources) \in Nat
    BY FS_CardinalityType DEF Counted
  <2>3. Cardinality(LiveSources) < Ceiling
    BY <1>5, <2>2, NumberAssumption DEF PastCeiling, LiveSources
  <2>4. IsFiniteSet(LiveSources') /\ Cardinality(LiveSources') = Cardinality(LiveSources) + 1
    BY <2>1, FS_AddElement DEF Counted
  <2> QED  BY <1>2, <2>2, <2>3, <2>4, NumberAssumption DEF Counted
<1> QED  BY <1>4, <1>5

\* What a mailing adds to the mail.
Adds ==
    /\ mail \subseteq mail' /\ mail' \subseteq Row
    /\ \A d \in mail' \ mail : /\ d.status = "pending" /\ d.attempts = 0 /\ ~d.wait /\ ~d.got
                               /\ d.created <= pass.now

\* raiseAlertTx mails about a login alert only after the cooldown, or to reopen one.
LEMMA RaiseMail ==
    ASSUME Shape, Filed, Dated, LoginMailCapped, pass.pc = "batch", NEW k \in Keys, RaiseAlert(k)
    PROVE  Filed' /\ LoginMailCapped' /\ Adds
<1>0. pass.now \in Nat /\ \A d \in mail : d \in Row /\ d.created \in Nat /\ d.created <= pass.now
  BY DEF Shape, Pass, Row, Dated
<1>1. CASE mail' = mail
  BY <1>1 DEF Filed, Nths, Nth, LoginMailCapped, Adds, Shape
<1>2. CASE /\ mail' = mail \cup Queued({k}, live[k] = "acknowledged")
           /\ (live[k] = "none" /\ ~MailedLately(k)) \/ live[k] = "acknowledged"
  <2>1. PICK again \in BOOLEAN : again = (live[k] = "acknowledged")
    OBVIOUS
  <2> DEFINE Q == Queued({k}, again)
  <2>2. mail' = mail \cup Q /\ (again \/ ~MailedLately(k))
    BY <1>2, <2>1
  <2>3. \A d \in Q : /\ d \in Row /\ d.key = k /\ d.nth = Nth(k) /\ d.again = again
                     /\ d.created = (IF k \in LoginKeys THEN pass.now ELSE 0)
                     /\ d.status = "pending" /\ d.attempts = 0 /\ d.wait = FALSE /\ d.got = FALSE
    <3>1. PICK K \in SUBSET Keys : K = {k}
      OBVIOUS
    <3>2. \A d \in Queued(K, again) : Mailed(K, again, d)
      BY QueuedFacts
    <3> QED  BY <3>1, <3>2 DEF Mailed
  <2>4. Filed' /\ mail' \subseteq Row
    BY <2>2, QueuedFiled
  <2> HIDE DEF Q
  <2>5. Adds
    <3>1. \A d \in Q : d.created <= pass.now
      BY <1>0, <2>3
    <3> QED  BY <2>2, <2>3, <2>4, <3>1 DEF Adds
  <2>6. ASSUME NEW d \in mail', NEW e \in mail', d.key \in LoginKeys, e.key \in LoginKeys,
               <<d.key, d.nth>> # <<e.key, e.nth>>, d.created <= e.created,
               e.created < d.created + Cooldown
        PROVE  d.again \/ e.again
    <3>1. CASE d \in mail /\ e \in mail
      BY <2>6, <3>1 DEF LoginMailCapped
    <3>2. ~(d \in Q /\ e \in Q)
      BY <2>3, <2>6
    <3>3. ASSUME NEW x \in mail, NEW y \in Q, y.key \in LoginKeys, x.key \in LoginKeys,
                 y.created < x.created + Cooldown
          PROVE  y.again
      <4>1. k \in LoginKeys /\ y.created = pass.now /\ y.again = again
        BY <2>3, <3>3
      <4>2. x.created + Cooldown > pass.now
        BY <1>0, <3>3, <4>1, NumberAssumption
      <4> QED  BY <2>2, <3>3, <4>1, <4>2 DEF MailedLately
    <3>4. CASE d \in mail /\ e \in Q
      BY <2>6, <3>3, <3>4
    <3>5. CASE d \in Q /\ e \in mail
      <4>1. d.created = pass.now /\ e.created <= pass.now /\ e.created \in Nat
        BY <1>0, <2>3, <2>6, <3>5
      <4>2. d.created < e.created + Cooldown
        BY <1>0, <2>6, <4>1, NumberAssumption
      <4> QED  BY <2>6, <3>3, <3>5, <4>2
    <3> QED  BY <2>2, <3>1, <3>2, <3>4, <3>5
  <2>7. LoginMailCapped'
    BY <2>6 DEF LoginMailCapped
  <2> QED  BY <2>4, <2>5, <2>7
<1> QED  BY <1>1, <1>2 DEF RaiseAlert

\* New rows disturb neither the pass's list nor the count of what was lost.
LEMMA AddsRest ==
    ASSUME Shape, Filed', Dated, Listed, Careful, Adds, UNCHANGED <<clock, readers, ghosts>>,
           pass'.due \in SUBSET pass.due, pass.pc = "batch", pass'.pc \in {"batch", "list"},
           pass'.now \in Nat, pass'.now <= clock, pass'.pc = "batch" => pass'.now = pass.now
    PROVE  Dated' /\ Listed' /\ Careful'
<1>0. pass.now \in Nat /\ clock \in Nat /\ pass.now <= clock
  BY DEF Shape, Pass, Dated
<1>1. Dated'
  <2>1. \A d \in mail' : d.created \in Nat /\ d.created <= pass.now
    BY DEF Adds, Dated, Row
  <2>2. \A d \in mail' : d.created <= clock
    BY <1>0, <2>1
  <2> QED  BY <2>1, <2>2 DEF Dated
<1>2. Listed'
  <2>1. \A d \in mail' : d.status # "pending" => d.attempts = 0 /\ ~d.wait
    BY DEF Adds, Listed
  <2>2. pass'.due \subseteq {Id(d) : d \in mail'}
    BY DEF Adds, Listed
  <2>3. ASSUME NEW d \in mail', Id(d) \in pass'.due  PROVE d.status = "pending" /\ ~d.wait
    <3>1. PICK r \in mail : Id(r) = Id(d)
      BY <2>3 DEF Listed
    <3>2. r = d
      BY <3>1 DEF Filed, Adds
    <3> QED  BY <2>3, <3>2 DEF Listed
  <2> QED  BY <2>1, <2>2, <2>3 DEF Listed
<1>3. Careful'
  <2>1. Lost' = Lost
    BY DEF Lost, Adds
  <2> QED  BY <2>1 DEF Careful
<1> QED  BY <1>1, <1>2, <1>3

-----------------------------------------------------------------------------
(* Every step                                                              *)

Inv == /\ Shape /\ Logged /\ Filed /\ Dated /\ Listed /\ Counted /\ Careful
       /\ BurstsShown /\ LoginMailCapped

\* An alert of a kind that is not about logins is none of these keys'.
LEMMA KeyFacts ==
    /\ Sources \cup {Many} \subseteq Keys /\ Connectors \subseteq Keys /\ Subject \in Keys
    /\ Subject \notin Sources /\ Many \notin Sources /\ Connectors \cap LoginKeys = {}
BY KeyAssumption DEF Keys, LoginKeys

\* evaluateBatch: the event is under a live alert when it leaves the queue.
LEMMA EventStep ==
    ASSUME Inv, EvaluateEvent
    PROVE  Inv'
<1>1. PICK e \in log : /\ queue' = queue \ {e.n}
                       /\ IF Classify(e) = {} THEN UNCHANGED <<live, mail>>
                          ELSE \E k \in Classify(e) : RaiseAlert(k)
  BY DEF EvaluateEvent
<1>2. /\ pass.pc = "batch" /\ pass' = [pass EXCEPT !.done = @ + 1]
      /\ UNCHANGED <<clock, log, recipients, readers, outage, ghosts, ops>>
  BY DEF EvaluateEvent
<1>3. /\ pass' \in Pass /\ pass'.pc = "batch" /\ pass'.now = pass.now /\ pass'.due = pass.due
  <2>1. pass \in Pass /\ pass.done + 1 \in Nat
    BY DEF Inv, Shape, Pass
  <2>2. PICK n \in Nat : n = pass.done + 1
    BY <2>1
  <2>3. pass' = [pass EXCEPT !.done = n]
    BY <1>2, <2>2
  <2> QED  BY <1>2, <2>1, <2>3 DEF Pass
<1>4. e \in Event /\ e.key \in Sources \cup {Subject}
  BY DEF Inv, Shape, Event
<1>5. ASSUME NEW k \in Classify(e)
      PROVE  /\ k \in Keys /\ (k \in Sources => ~PastCeiling(k))
             /\ e.key \in Sources => k \in {e.key, Many}
  BY <1>4, <1>5, KeyFacts DEF Classify
<1>6. /\ live' \in [Keys -> {"none", "open", "acknowledged"}] /\ Counted'
      /\ \A j \in Keys : live[j] # "none" => live'[j] # "none"
      /\ Classify(e) # {} => \E k \in Classify(e) : live'[k] = "open"
      /\ Filed' /\ LoginMailCapped' /\ Adds
  <2>1. CASE Classify(e) = {}
    BY <1>1, <2>1 DEF Inv, Shape, Counted, LiveSources, Filed, Nths, Nth, LoginMailCapped, Adds
  <2>2. ASSUME NEW k \in Classify(e), RaiseAlert(k)
        PROVE  /\ live' \in [Keys -> {"none", "open", "acknowledged"}] /\ Counted'
               /\ \A j \in Keys : live[j] # "none" => live'[j] # "none"
               /\ live'[k] = "open" /\ Filed' /\ LoginMailCapped' /\ Adds
    BY <1>2, <1>5, <2>2, RaiseLive, RaiseMail DEF Inv
  <2> QED  BY <1>1, <2>1, <2>2
<1>7. Dated' /\ Listed' /\ Careful'
  <2>1. pass.now \in Nat /\ pass.now <= clock
    BY DEF Inv, Shape, Pass, Dated
  <2> QED  BY <1>2, <1>3, <1>6, <2>1, AddsRest DEF Inv
<1>8. Shape' /\ Logged'
  <2>1. queue' \subseteq {f.n : f \in log'} /\ mail' \subseteq Row
    BY <1>1, <1>2, <1>6 DEF Inv, Shape, Adds
  <2> QED  BY <1>2, <1>3, <1>6, <2>1 DEF Inv, Shape, Logged
<1>9. ASSUME NEW g \in log, g.key \in Sources, g.n \notin queue',
             Cardinality(Recent(g, clock)) >= Threshold
      PROVE  Showing(g)'
  <2>1. CASE g.n \notin queue
    <3>1. Showing(g)
      BY <1>9, <2>1, BurstsSaid DEF Inv
    <3>2. g.key \in Keys /\ Many \in Keys
      BY <1>9, KeyFacts
    <3> QED  BY <1>6, <3>1, <3>2 DEF Showing
  <2>2. CASE g.n \in queue
    <3>1. g = e
      BY <1>1, <1>9, <2>2 DEF Inv, Logged
    <3>2. pass.now \in Nat /\ clock \in Nat /\ pass.now <= clock
      BY DEF Inv, Shape, Pass, Dated
    <3>3. /\ Cardinality(Recent(e, clock)) <= Cardinality(Recent(e, pass.now))
          /\ Cardinality(Recent(e, clock)) \in Nat /\ Cardinality(Recent(e, pass.now)) \in Nat
      BY <3>2, RecentFacts DEF Inv
    <3>4. /\ Cardinality(Recent(e, pass.now)) <= Cardinality(FailuresUpTo(e))
          /\ Cardinality(FailuresUpTo(e)) \in Nat
      <4>1. Recent(e, pass.now) \in SUBSET FailuresUpTo(e) /\ FailuresUpTo(e) \in SUBSET log
        BY DEF FailuresUpTo, Recent
      <4>2. IsFiniteSet(FailuresUpTo(e))
        BY <4>1, FS_Subset DEF Inv, Logged
      <4> QED  BY <4>1, <4>2, FS_Subset, FS_CardinalityType
    <3>5. ~(Cardinality(FailuresUpTo(e)) < Threshold)
      BY <1>9, <3>1, <3>3, <3>4, NumberAssumption
    <3>6. Classify(e) # {}
      BY <3>5 DEF Classify
    <3>7. PICK k \in Classify(e) : live'[k] = "open"
      BY <1>6, <3>6
    <3>8. k \in {g.key, Many}
      BY <1>5, <1>9, <3>1
    <3> QED  BY <3>7, <3>8 DEF Showing
  <2> QED  BY <2>1, <2>2
<1>10. \A g \in log : Recent(g, clock)' = Recent(g, clock)
  BY <1>2 DEF Recent, CountsFor, UpTo, Precedes
<1>11. BurstsShown'
  <2>1. BurstsShown' <=> \A g \in log' :
        g.key \in Sources /\ g.n \notin queue' /\ Cardinality(Recent(g, clock)') >= Threshold
        => Showing(g)'
    BY DEF BurstsShown, Recent, Showing
  <2> QED  BY <1>2, <1>9, <1>10, <2>1
<1> QED  BY <1>6, <1>7, <1>8, <1>11 DEF Inv

\* A pass between two transactions.
LEMMA PassFacts ==
    ASSUME Shape
    PROVE  /\ Idle \in Pass /\ Idle.pc = "idle" /\ Idle.now = 0 /\ Idle.due = {}
           /\ LET q == [Idle EXCEPT !.pc = "list"] IN
              q \in Pass /\ q.pc = "list" /\ q.now = 0 /\ q.due = {}
           /\ LET q == [Idle EXCEPT !.pc = "quiet", !.now = clock, !.to = recipients] IN
              q \in Pass /\ q.pc = "quiet" /\ q.now = clock /\ q.due = {}
           /\ \A pc \in Pcs : LET q == [pass EXCEPT !.pc = pc] IN
              /\ q \in Pass /\ q.pc = pc /\ q.now = pass.now /\ q.due = pass.due
              /\ q.row = pass.row
<1>1. Idle \in Pass /\ Idle.pc = "idle" /\ Idle.now = 0 /\ Idle.due = {}
  BY DEF Idle, Pass, Pcs
<1>2. LET q == [Idle EXCEPT !.pc = "list"] IN
      q \in Pass /\ q.pc = "list" /\ q.now = 0 /\ q.due = {}
  BY DEF Idle, Pass, Pcs
<1>3. LET q == [Idle EXCEPT !.pc = "quiet", !.now = clock, !.to = recipients] IN
      q \in Pass /\ q.pc = "quiet" /\ q.now = clock /\ q.due = {}
  <2>1. clock \in Nat /\ recipients \in SUBSET Users
    BY DEF Shape
  <2> QED  BY <2>1 DEF Idle, Pass, Pcs
<1>4. ASSUME NEW pc \in Pcs
      PROVE  LET q == [pass EXCEPT !.pc = pc] IN
             /\ q \in Pass /\ q.pc = pc /\ q.now = pass.now /\ q.due = pass.due
             /\ q.row = pass.row
  BY DEF Pass, Shape
<1> QED  BY <1>1, <1>2, <1>3, <1>4

\* evaluateOutages touches the connectors' alerts only.
LEMMA OutageStep ==
    ASSUME Inv, EvaluateOutages
    PROVE  Inv'
<1>1. /\ pass.pc = "batch" /\ pass' = [Idle EXCEPT !.pc = "list"]
      /\ live' = [k \in Keys |-> IF k \in Begun THEN "open" ELSE IF k \in Over THEN "none"
                                 ELSE live[k]]
      /\ mail' = mail \cup Queued(Begun \cup Over, FALSE)
      /\ UNCHANGED <<clock, log, queue, recipients, readers, outage, ghosts, ops>>
  BY DEF EvaluateOutages
<1>2. pass' \in Pass /\ pass'.pc = "list" /\ pass'.now = 0 /\ pass'.due = {}
  BY <1>1, PassFacts DEF Inv
<1>3. Begun \cup Over \subseteq Connectors
  BY DEF Begun, Over, Inv, Shape
<1>4. PICK K \in SUBSET Connectors : K = Begun \cup Over
  BY <1>3
<1>5. K \in SUBSET Keys /\ K \cap LoginKeys = {}
  BY KeyFacts
<1>6. live' \in [Keys -> {"none", "open", "acknowledged"}]
  BY <1>1 DEF Inv, Shape
<1>7. \A k \in LoginKeys : live'[k] = live[k]
  BY <1>1, <1>4, <1>5 DEF Keys
<1>8. Filed' /\ mail' \subseteq Row
  BY <1>1, <1>4, <1>5, QueuedFiled DEF Inv
<1>9. \A d \in Queued(K, FALSE) : Mailed(K, FALSE, d)
  BY <1>5, QueuedFacts DEF Inv
<1>10. pass.now \in Nat
  BY DEF Inv, Shape, Pass
<1>11. Adds /\ \A d \in mail' : d.key \in LoginKeys => d \in mail
  <2> DEFINE Q == Queued(K, FALSE)
  <2>1. mail' = mail \cup Q
    BY <1>1, <1>4
  <2>2. \A d \in Q :
           /\ d.key \notin LoginKeys /\ d.created = 0 /\ d.status = "pending" /\ d.attempts = 0
           /\ ~d.wait /\ ~d.got
    <3> SUFFICES ASSUME NEW d \in Q
                 PROVE  /\ d.key \notin LoginKeys /\ d.created = 0 /\ d.status = "pending"
                        /\ d.attempts = 0 /\ ~d.wait /\ ~d.got
      OBVIOUS
    <3>1. Mailed(K, FALSE, d)
      BY <1>9
    <3>2. d.key \notin LoginKeys
      BY <1>5, <3>1 DEF Mailed
    <3> QED  BY <3>1, <3>2 DEF Mailed
  <2> HIDE DEF Q
  <2>3. \A d \in Q : d.created <= pass.now
    BY <1>10, <2>2
  <2> QED  BY <1>8, <2>1, <2>2, <2>3 DEF Adds
<1>12. LoginMailCapped'
  BY <1>11 DEF LoginMailCapped, Inv
<1>13. Dated' /\ Listed' /\ Careful'
  <2>1. 0 \in Nat /\ 0 <= clock /\ {} \in SUBSET pass.due
    BY DEF Inv, Shape
  <2> QED  BY <1>1, <1>2, <1>8, <1>11, <2>1, AddsRest DEF Inv
<1>14. Shape' /\ Logged'
  BY <1>1, <1>2, <1>6, <1>8 DEF Inv, Shape, Logged
<1>15. Counted'
  <2>1. LiveSources' = LiveSources
    BY <1>7 DEF LiveSources, LoginKeys
  <2> QED  BY <2>1 DEF Counted, Inv
<1>16. BurstsShown'
  <2>1. clock' >= clock
    BY <1>1 DEF Inv, Shape
  <2> QED  BY <1>1, <1>7, <1>14, <2>1, BurstsStay DEF Inv, LoginKeys
<1> QED  BY <1>8, <1>12, <1>13, <1>14, <1>15, <1>16 DEF Inv

\* A step that leaves the mail and the alerts alone.
LEMMA MailStays ==
    ASSUME Inv, UNCHANGED mail
    PROVE  Filed' /\ LoginMailCapped'
BY DEF Inv, Filed, Nths, Nth, LoginMailCapped

LEMMA LiveStays ==
    ASSUME Inv, Shape', UNCHANGED <<live, log, queue>>, clock' >= clock
    PROVE  Logged' /\ Counted' /\ BurstsShown'
<1>1. Logged' /\ Counted'
  BY DEF Inv, Logged, Counted, LiveSources
<1>2. BurstsShown'
  BY BurstsStay DEF Inv
<1> QED  BY <1>1, <1>2

\* Committed events, outages, settings, rights and the clock move while a pass runs.
LEMMA WorldStep ==
    ASSUME Inv,
           \/ \E k \in Sources \cup {Subject}, ip \in Addresses \cup {Subject},
                at \in 0..clock, n \in 1..MaxOps : AuditInsert(k, ip, at, n)
           \/ \E c \in Connectors : OutageChanges(c)
           \/ \E to \in SUBSET Users : SetAlertSettings(to)
           \/ \E u \in Users : ReaderChanges(u)
           \/ Tick
    PROVE  Inv'
<1>1. UNCHANGED <<live, mail, pass, repeats, excused>>
  BY DEF AuditInsert, OutageChanges, SetAlertSettings, ReaderChanges, Tick
<1>2. clock' >= clock /\ clock' \in 0..MaxTime
  BY NumberAssumption
     DEF Inv, Shape, AuditInsert, OutageChanges, SetAlertSettings, ReaderChanges, Tick
<1>3. ops' \in 0..MaxOps /\ excused' \in Nat
  BY <1>1, NumberAssumption
     DEF Inv, Shape, AuditInsert, OutageChanges, SetAlertSettings, ReaderChanges, Tick, MayAct
<1>4. Filed' /\ LoginMailCapped'
  BY <1>1, MailStays
<1>5. Listed'
  BY <1>1 DEF Inv, Listed
<1>6. Dated'
  <2>1. pass.now \in Nat /\ clock \in Nat /\ clock' \in Nat /\ \A d \in mail : d.created \in Nat
    BY <1>2 DEF Inv, Shape, Pass, Row
  <2>2. pass.now <= clock /\ \A d \in mail : d.created <= clock
    BY DEF Inv, Dated
  <2>3. pass.now <= clock' /\ \A d \in mail : d.created <= clock'
    BY <1>2, <2>1, <2>2
  <2> QED  BY <1>1, <2>3 DEF Inv, Dated
<1>7. Lost' = Lost
  BY <1>1 DEF Lost
<1>8. CASE \E k \in Sources \cup {Subject}, ip \in Addresses \cup {Subject},
              at \in 0..clock, n \in 1..MaxOps : AuditInsert(k, ip, at, n)
  <2>1. Shape' /\ Logged' /\ BurstsShown'
    BY <1>8, AuditStep DEF Inv
  <2>2. UNCHANGED <<late, readers>>
    BY <1>8 DEF AuditInsert
  <2>3. Careful' /\ Counted'
    BY <1>1, <1>7, <2>2 DEF Inv, Careful, Counted, LiveSources
  <2> QED  BY <1>4, <1>5, <1>6, <2>1, <2>3 DEF Inv
<1>9. ASSUME UNCHANGED <<log, queue>>, Shape', Careful'  PROVE Inv'
  <2>1. Logged' /\ Counted' /\ BurstsShown'
    BY <1>1, <1>2, <1>9, LiveStays
  <2> QED  BY <1>4, <1>5, <1>6, <1>9, <2>1 DEF Inv
<1>10. CASE (\E c \in Connectors : OutageChanges(c)) \/ (\E to \in SUBSET Users : SetAlertSettings(to)) \/ Tick
  <2>1. UNCHANGED <<late, readers, log, queue>> /\ outage' \subseteq Connectors /\ recipients' \subseteq Users
    BY <1>10 DEF OutageChanges, SetAlertSettings, Tick, Inv, Shape
  <2>2. Shape'
    BY <1>1, <1>2, <1>3, <2>1 DEF Inv, Shape
  <2>3. Careful'
    BY <1>1, <1>7, <2>1 DEF Inv, Careful
  <2> QED  BY <1>9, <2>1, <2>2, <2>3
<1>11. ASSUME NEW u \in Users, ReaderChanges(u)  PROVE Inv'
  <2>1. /\ UNCHANGED <<log, queue, recipients, outage>> /\ readers' \subseteq Users
        /\ readers' \in {readers \ {u}, readers \cup {u}}
        /\ late' \in [Users -> Nat] /\ late'[u] = 0 /\ \A v \in Users : v # u => late'[v] = late[v]
    BY <1>11 DEF ReaderChanges, Inv, Shape
  <2>2. Shape'
    BY <1>1, <1>2, <1>3, <2>1 DEF Inv, Shape
  <2>3. Careful'
    <3>1. \A v \in Users \ readers' : late'[v] <= 1
      BY <2>1 DEF Inv, Careful
    <3>2. \A d \in mail : d.user \in Users
      BY DEF Inv, Shape, Row
    <3>3. \A d \in mail : pass.pc = "cleared" /\ pass.row = Id(d) /\ d.user \notin readers'
                             => late'[d.user] = 0
      BY <2>1, <3>2 DEF Inv, Careful
    <3> QED  BY <1>1, <1>7, <3>1, <3>3 DEF Inv, Careful
  <2> QED  BY <1>9, <2>1, <2>2, <2>3
<1> QED  BY <1>8, <1>10, <1>11

\* What is lost does not grow.
LEMMA LostLess ==
    ASSUME Inv, Lost' \in SUBSET Lost, UNCHANGED <<repeats, excused>>
    PROVE  IsFiniteSet(Lost') /\ repeats' + Cardinality(Lost') <= excused'
<1>1. IsFiniteSet(Lost') /\ Cardinality(Lost') <= Cardinality(Lost)
  BY FS_Subset DEF Inv, Careful
<1>2. Cardinality(Lost') \in Nat /\ Cardinality(Lost) \in Nat
  BY <1>1, FS_CardinalityType DEF Inv, Careful
<1>3. repeats \in Nat /\ excused \in Nat
  BY DEF Inv, Shape
<1> QED  BY <1>1, <1>2, <1>3 DEF Inv, Careful

\* An administrator acknowledges an alert, and quiet ones are resolved.
LEMMA LiveStep ==
    ASSUME Inv, ResolveQuiet \/ \E k \in Keys : AcknowledgeAlert(k)
    PROVE  Inv'
<1>1. /\ UNCHANGED <<clock, log, queue, mail, recipients, readers, outage, ghosts>>
      /\ \/ UNCHANGED pass
         \/ pass.pc = "quiet" /\ pass' = [pass EXCEPT !.pc = "batch"]
  BY DEF ResolveQuiet, AcknowledgeAlert, Step
<1>2. ops' \in 0..MaxOps /\ excused' \in Nat
  BY NumberAssumption DEF ResolveQuiet, AcknowledgeAlert, MayAct, Inv, Shape
<1>3. "batch" \in Pcs
  BY DEF Pcs
<1>4. /\ pass' \in Pass /\ pass'.now = pass.now /\ pass'.due = pass.due /\ pass'.row = pass.row
      /\ \/ pass'.pc = pass.pc
         \/ pass.pc = "quiet" /\ pass'.pc = "batch"
  BY <1>1, <1>3, PassFacts DEF Inv, Shape
<1>5. live' \in [Keys -> {"none", "open", "acknowledged"}] /\ Counted' /\ BurstsShown'
  <2>1. CASE ResolveQuiet
    BY <2>1, QuietStep DEF Inv
  <2>2. ASSUME NEW k \in Keys, AcknowledgeAlert(k)
        PROVE  live' \in [Keys -> {"none", "open", "acknowledged"}] /\ Counted' /\ BurstsShown'
    <3>1. /\ live' \in [Keys -> {"none", "open", "acknowledged"}]
          /\ \A j \in Keys : live'[j] # "none" <=> live[j] # "none"
      BY <2>2 DEF AcknowledgeAlert, Inv, Shape
    <3>2. LiveSources' = LiveSources
      BY <3>1, KeyFacts DEF LiveSources
    <3>3. Shape'
      BY <1>1, <1>2, <1>4, <3>1 DEF Inv, Shape
    <3>4. clock' >= clock
      BY <1>1 DEF Inv, Shape
    <3>5. \A j \in Sources \cup {Many} : live[j] # "none" => live'[j] # "none"
      BY <3>1, KeyFacts
    <3>6. BurstsShown'
      BY <1>1, <3>3, <3>4, <3>5, BurstsStay DEF Inv
    <3> QED  BY <3>1, <3>2, <3>6 DEF Counted, Inv
  <2> QED  BY <2>1, <2>2
<1>6. Shape' /\ Logged'
  BY <1>1, <1>2, <1>4, <1>5 DEF Inv, Shape, Logged
<1>7. Filed' /\ LoginMailCapped'
  BY <1>1, MailStays
<1>8. Dated' /\ Listed'
  BY <1>1, <1>4 DEF Inv, Dated, Listed
<1>9. Careful'
  <2>1. Lost' = Lost
    BY <1>1, <1>4 DEF Lost
  <2> QED  BY <1>1, <1>4, <2>1 DEF Inv, Careful
<1> QED  BY <1>5, <1>6, <1>7, <1>8, <1>9 DEF Inv

\* A pass begins, lists what is due, ends, or is cut off: what it had sent and not recorded is lost.
LEMMA PassesStep ==
    ASSUME Inv, BeginPass \/ ListDue \/ EndPass \/ PassFails
    PROVE  Inv'
<1>1. UNCHANGED <<clock, log, queue, live, mail, recipients, readers, outage, late, repeats>>
  BY DEF BeginPass, ListDue, EndPass, PassFails
<1>2. ops' \in 0..MaxOps /\ excused' \in Nat
  BY NumberAssumption DEF BeginPass, ListDue, EndPass, PassFails, MayAct, Inv, Shape
<1> DEFINE due == {Id(d) : d \in {r \in mail : r.status = "pending" /\ ~r.wait}}
<1>3. \A d \in mail : d \in Row /\ Id(d) \in Ids /\ d.created \in Nat
  BY DEF Inv, Shape, Row, Id, Ids
<1>4. /\ pass' \in Pass /\ pass'.now \in {0, clock, pass.now}
      /\ \/ pass'.pc \in {"idle", "quiet"} /\ pass'.due = {}
         \/ pass'.pc = "mail" /\ pass'.due = due
      /\ pass'.pc = "quiet" => pass'.now = clock
  <2>1. CASE BeginPass \/ EndPass \/ PassFails
    BY <2>1, PassFacts DEF BeginPass, EndPass, PassFails, Inv
  <2>2. CASE ListDue
    <3>1. PICK D \in SUBSET Ids : D = due
      BY <1>3
    <3>2. pass' = [pass EXCEPT !.pc = "mail", !.due = D]
      BY <2>2, <3>1 DEF ListDue
    <3>3. pass' \in Pass /\ pass'.now = pass.now /\ pass'.pc = "mail" /\ pass'.due = D
      BY <3>2 DEF Inv, Shape, Pass, Pcs
    <3> QED  BY <3>1, <3>3
  <2> QED  BY <2>1, <2>2
<1>5. Shape'
  BY <1>1, <1>2, <1>4 DEF Inv, Shape
<1>6. Logged' /\ Counted' /\ BurstsShown'
  <2>1. clock' >= clock
    BY <1>1 DEF Inv, Shape
  <2> QED  BY <1>1, <1>5, <2>1, LiveStays
<1>7. Filed' /\ LoginMailCapped'
  BY <1>1, MailStays
<1>8. Dated'
  <2>1. clock \in Nat /\ pass.now <= clock
    BY DEF Inv, Shape, Dated
  <2> QED  BY <1>1, <1>4, <2>1 DEF Inv, Dated
<1>9. Listed'
  <2>1. \A d \in mail : Id(d) \in due => d.status = "pending" /\ ~d.wait
    BY DEF Inv, Filed
  <2>2. due \subseteq {Id(d) : d \in mail}
    OBVIOUS
  <2> HIDE DEF due
  <2> QED  BY <1>1, <1>4, <2>1, <2>2 DEF Inv, Listed
<1>10. Careful'
  <2>1. /\ IsFiniteSet(Lost') /\ repeats' + Cardinality(Lost') <= excused'
    <3>1. CASE pass.pc # "accepted"
      <4>1. Lost' = Lost
        BY <1>1, <1>4, <3>1 DEF Lost
      <4>2. excused' >= excused
        BY DEF BeginPass, ListDue, EndPass, PassFails, Inv, Shape
      <4>3. repeats \in Nat /\ excused \in Nat /\ excused' \in Nat /\ Cardinality(Lost) \in Nat
        BY <1>2, FS_CardinalityType DEF Inv, Shape, Careful
      <4> QED  BY <1>1, <4>1, <4>2, <4>3 DEF Inv, Careful
    <3>2. CASE pass.pc = "accepted"
      <4>1. excused' = excused + 1
        BY <3>2 DEF BeginPass, ListDue, EndPass, PassFails
      <4>2. Lost' \in SUBSET (Lost \cup {pass.row})
        BY <1>1, <1>4, <3>2 DEF Lost
      <4>3. /\ IsFiniteSet(Lost \cup {pass.row}) /\ Cardinality(Lost) \in Nat
            /\ Cardinality(Lost \cup {pass.row}) <= Cardinality(Lost) + 1
        <5>1. IsFiniteSet(Lost) /\ Cardinality(Lost) \in Nat
          BY FS_CardinalityType DEF Inv, Careful
        <5>2. CASE pass.row \in Lost
          <6>1. Lost \cup {pass.row} = Lost
            BY <5>2
          <6>2. Cardinality(Lost) <= Cardinality(Lost) + 1
            BY <5>1
          <6> QED  BY <5>1, <6>1, <6>2, Zenon
        <5>3. CASE pass.row \notin Lost
          <6>1. /\ IsFiniteSet(Lost \cup {pass.row})
                /\ Cardinality(Lost \cup {pass.row}) = Cardinality(Lost) + 1
            BY <5>1, <5>3, FS_AddElement
          <6> QED  BY <5>1, <6>1
        <5> QED  BY <5>2, <5>3
      <4>4. IsFiniteSet(Lost') /\ Cardinality(Lost') <= Cardinality(Lost \cup {pass.row})
        BY <4>2, <4>3, FS_Subset
      <4>5. /\ Cardinality(Lost') \in Nat /\ Cardinality(Lost \cup {pass.row}) \in Nat
            /\ repeats \in Nat /\ excused \in Nat
        BY <4>3, <4>4, FS_CardinalityType DEF Inv, Shape
      <4>6. repeats + Cardinality(Lost) <= excused
        BY DEF Inv, Careful
      <4> QED  BY <1>1, <4>1, <4>3, <4>4, <4>5, <4>6
    <3> QED  BY <3>1, <3>2
  <2> QED  BY <1>1, <1>4, <2>1 DEF Inv, Careful
<1> QED  BY <1>5, <1>6, <1>7, <1>8, <1>9, <1>10 DEF Inv

\* A row of the mail is replaced by a renewed one: what does not depend on the pass.
LEMMA EditStays ==
    ASSUME Inv, NEW d \in mail, NEW m, Renews(d, m), mail' = (mail \ {d}) \cup {m},
           UNCHANGED <<clock, log, queue, live, recipients, readers, outage, ops>>, excused' \in Nat,
           pass' \in Pass, pass'.now = pass.now, pass.pc \notin {"quiet", "batch"},
           pass'.pc \notin {"quiet", "batch"},
           late' \in [Users -> Nat], repeats' \in Nat
    PROVE  /\ Shape' /\ Logged' /\ Filed' /\ Dated' /\ Counted' /\ BurstsShown' /\ LoginMailCapped'
           /\ {Id(r) : r \in mail'} = {Id(r) : r \in mail}
<1>1. /\ Filed' /\ mail' \subseteq Row /\ {Id(r) : r \in mail'} = {Id(r) : r \in mail}
      /\ LoginMailCapped'
  BY EditFiled DEF Inv
<1>2. Shape'
  BY <1>1 DEF Inv, Shape
<1>3. clock' >= clock
  BY DEF Inv, Shape
<1>4. Logged' /\ Counted' /\ BurstsShown'
  BY <1>2, <1>3, LiveStays
<1>5. Dated'
  BY DEF Inv, Dated, Renews
<1> QED  BY <1>1, <1>2, <1>4, <1>5

\* next_attempt_at comes for a row that waits: no pass has it listed.
LEMMA BackoffStep ==
    ASSUME Inv, NEW d \in mail, BackoffEnds(d)
    PROVE  Inv'
<1>0. PICK m : m = [d EXCEPT !.wait = FALSE]
  OBVIOUS
<1>1. /\ d.wait /\ mail' = (mail \ {d}) \cup {m}
      /\ UNCHANGED <<clock, log, queue, live, recipients, readers, outage, pass, ghosts, ops>>
  BY <1>0 DEF BackoffEnds, Put
<1>2. d \in Row /\ pass \in Pass
  BY DEF Inv, Shape
<1>3. /\ Renews(d, m) /\ m.status = d.status /\ m.attempts = d.attempts
      /\ m.wait = FALSE /\ m.got = d.got
  BY <1>0, <1>2, RowDue
<1>4. Filed' /\ mail' \subseteq Row /\ {Id(r) : r \in mail'} = {Id(r) : r \in mail} /\ LoginMailCapped'
  BY <1>1, <1>3, EditFiled DEF Inv
<1>5. Shape'
  BY <1>1, <1>4 DEF Inv, Shape
<1>6. Logged' /\ Counted' /\ BurstsShown'
  <2>1. clock' >= clock
    BY <1>1 DEF Inv, Shape
  <2> QED  BY <1>1, <1>5, <2>1, LiveStays
<1>7. Dated'
  BY <1>1, <1>3 DEF Inv, Dated, Renews
<1>8. Listed'
  BY <1>1, <1>3, <1>4 DEF Inv, Listed, Renews
<1>9. Careful'
  <2>1. {Id(r) : r \in {x \in mail' : x.got}} = {Id(r) : r \in {x \in mail : x.got}}
    BY <1>1, <1>3 DEF Renews
  <2>2. Lost' = Lost
    BY <1>1, <2>1 DEF Lost
  <2>3. \A x \in mail' : pass.pc = "cleared" /\ pass.row = Id(x) /\ x.user \notin readers
                          => late[x.user] = 0
    BY <1>1, <1>3 DEF Inv, Careful, Renews
  <2> QED  BY <1>1, <2>2, <2>3 DEF Inv, Careful
<1> QED  BY <1>4, <1>5, <1>6, <1>7, <1>8, <1>9 DEF Inv

\* The next row is skipped when its user may not read alerts any more, and cleared otherwise.
LEMMA CheckStep ==
    ASSUME Inv, NEW d \in mail, CheckReader(d)
    PROVE  Inv'
<1>1. /\ pass.pc = "mail" /\ Id(d) \in pass.due
      /\ UNCHANGED <<clock, log, queue, live, recipients, readers, outage, ghosts, ops>>
  BY DEF CheckReader
<1>2. /\ d \in Row /\ pass \in Pass /\ Id(d) \in Ids /\ d.status = "pending" /\ ~d.wait
      /\ late \in [Users -> Nat] /\ repeats \in Nat /\ excused \in Nat
  BY <1>1 DEF Inv, Shape, Listed, Row, Id, Ids
<1>3. PICK D \in SUBSET Ids : D = pass.due \ {Id(d)}
  BY <1>2 DEF Pass
<1>4. CASE d.user \in readers
  <2>1. pass' = [pass EXCEPT !.pc = "cleared", !.due = D, !.row = Id(d)] /\ UNCHANGED mail
    BY <1>3, <1>4 DEF CheckReader, MayReceive
  <2>2. /\ pass' \in Pass /\ pass'.pc = "cleared" /\ pass'.now = pass.now /\ pass'.due = D
        /\ pass'.row = Id(d)
    BY <1>2, <2>1 DEF Pass, Pcs
  <2>3. Shape'
    BY <1>1, <2>1, <2>2 DEF Inv, Shape
  <2>4. Logged' /\ Counted' /\ BurstsShown'
    <3>1. clock' >= clock
      BY <1>1 DEF Inv, Shape
    <3> QED  BY <1>1, <2>3, <3>1, LiveStays
  <2>5. Filed' /\ LoginMailCapped'
    BY <2>1, MailStays
  <2>6. Dated'
    BY <1>1, <2>1, <2>2 DEF Inv, Dated
  <2>7. Listed'
    <3>1. \A r \in mail : Id(r) = Id(d) => r = d
      BY DEF Inv, Filed
    <3> QED  BY <1>2, <1>3, <2>1, <2>2, <3>1 DEF Inv, Listed
  <2>8. Careful'
    <3>1. Lost' = Lost
      BY <1>1, <2>1, <2>2 DEF Lost
    <3>2. \A r \in mail : Id(r) = Id(d) => r.user \in readers
      BY <1>4 DEF Id
    <3> QED  BY <1>1, <2>1, <2>2, <3>1, <3>2 DEF Inv, Careful
  <2> QED  BY <2>3, <2>4, <2>5, <2>6, <2>7, <2>8 DEF Inv
<1>5. CASE d.user \notin readers
  <2>0. PICK m : m = [d EXCEPT !.status = "skipped", !.attempts = 0, !.got = FALSE]
    OBVIOUS
  <2>1. pass' = [pass EXCEPT !.due = D] /\ mail' = (mail \ {d}) \cup {m}
    BY <1>3, <1>5, <2>0 DEF CheckReader, MayReceive, Put
  <2>2. pass' \in Pass /\ pass'.pc = "mail" /\ pass'.now = pass.now /\ pass'.due = D
    BY <1>1, <1>2, <2>1 DEF Pass, Pcs
  <2>3. Renews(d, m) /\ m.status = "skipped" /\ m.attempts = 0 /\ m.got = FALSE /\ m.wait = d.wait
    <3>1. 0 \in 0..AlertAttempts - 1
      BY NumberAssumption
    <3> QED  BY <1>2, <2>0, <3>1 DEF Row, Renews, Id
  <2>4. /\ Shape' /\ Logged' /\ Filed' /\ Dated' /\ Counted' /\ BurstsShown' /\ LoginMailCapped'
        /\ {Id(r) : r \in mail'} = {Id(r) : r \in mail}
    BY <1>1, <1>2, <2>1, <2>2, <2>3, EditStays
  <2>5. Listed'
    <3>1. \A r \in mail' : r \in mail \/ (r = m /\ Id(r) \notin D)
      BY <1>3, <2>1, <2>3 DEF Renews
    <3> QED  BY <1>2, <1>3, <2>2, <2>3, <2>4, <3>1 DEF Inv, Listed
  <2>6. Careful'
    <3>1. Lost' \in SUBSET Lost
      BY <1>1, <2>1, <2>2, <2>3 DEF Lost
    <3>2. IsFiniteSet(Lost') /\ repeats' + Cardinality(Lost') <= excused'
      BY <1>1, <3>1, LostLess
    <3> QED  BY <1>1, <2>2, <3>2 DEF Inv, Careful
  <2> QED  BY <2>4, <2>5, <2>6 DEF Inv
<1> QED  BY <1>4, <1>5

\* The relay answers for the row that was cleared, and the pass is the only one to know.
LEMMA SendStep ==
    ASSUME Inv, NEW d \in mail, NEW taken \in BOOLEAN, NEW ok \in BOOLEAN, Send(d, taken, ok)
    PROVE  Inv'
<1>1. /\ pass.pc = "cleared" /\ pass.row = Id(d)
      /\ UNCHANGED <<clock, log, queue, live, recipients, readers, outage, ops>>
  BY DEF Send
<1>2. /\ d \in Row /\ pass \in Pass /\ Id(d) \in Ids /\ d.user \in Users
      /\ late \in [Users -> Nat] /\ repeats \in Nat /\ excused \in Nat
      /\ d.status = "pending" /\ ~d.wait /\ Id(d) \notin pass.due
  BY <1>1 DEF Inv, Shape, Listed, Row, Id, Ids
<1>3. /\ late' \in [Users -> Nat]
      /\ \A u \in Users : u # d.user => late'[u] = late[u]
      /\ late'[d.user] = (IF d.user \in readers THEN 0 ELSE late[d.user] + 1)
  BY <1>2 DEF Send
<1>4. \A u \in Users \ readers : late'[u] <= 1
  <2>1. d.user \notin readers => late[d.user] = 0
    BY <1>1 DEF Inv, Careful
  <2>2. \A u \in Users \ readers : late[u] <= 1
    BY DEF Inv, Careful
  <2> QED  BY <1>2, <1>3, <2>1, <2>2
<1>5. /\ pass' \in Pass /\ pass'.pc \in {"accepted", "refused"} /\ pass'.now = pass.now
      /\ pass'.due = pass.due /\ pass'.row = Id(d) /\ (pass'.pc = "accepted" <=> ok)
  <2>1. "accepted" \in Pcs /\ "refused" \in Pcs
    BY DEF Pcs
  <2>2. PICK pc \in Pcs : pc = IF ok THEN "accepted" ELSE "refused"
    BY <2>1
  <2>3. pass' = [pass EXCEPT !.pc = pc]
    BY <2>2 DEF Send
  <2> QED  BY <1>1, <2>2, <2>3, PassFacts DEF Inv
<1>6. CASE ~taken
  <2>1. UNCHANGED <<mail, repeats, excused>> /\ pass'.pc = "refused"
    BY <1>5, <1>6 DEF Send
  <2>2. Shape'
    BY <1>1, <1>3, <1>5, <2>1 DEF Inv, Shape
  <2>3. Logged' /\ Counted' /\ BurstsShown'
    <3>1. clock' >= clock
      BY <1>1 DEF Inv, Shape
    <3> QED  BY <1>1, <2>2, <3>1, LiveStays
  <2>4. Filed' /\ LoginMailCapped'
    BY <2>1, MailStays
  <2>5. Dated' /\ Listed'
    BY <1>1, <1>5, <2>1 DEF Inv, Dated, Listed
  <2>6. Lost' = Lost
    BY <1>1, <2>1 DEF Lost
  <2>7. Careful'
    BY <1>1, <1>4, <2>1, <2>6 DEF Inv, Careful
  <2> QED  BY <2>2, <2>3, <2>4, <2>5, <2>7 DEF Inv
<1>7. CASE taken
  <2>0. PICK m : m = [d EXCEPT !.got = TRUE]
    OBVIOUS
  <2>1. /\ mail' = (mail \ {d}) \cup {m}
        /\ repeats' = (IF d.got THEN repeats + 1 ELSE repeats)
        /\ excused' = (IF ok THEN excused ELSE excused + 1)
    BY <1>7, <2>0 DEF Send, Put
  <2>2. /\ Renews(d, m) /\ m.status = d.status /\ m.attempts = d.attempts
        /\ m.wait = d.wait /\ m.got = TRUE
    BY <1>2, <2>0, RowTaken
  <2>3. repeats' \in Nat /\ excused' \in Nat
    BY <1>2, <2>1
  <2>4. /\ Shape' /\ Logged' /\ Filed' /\ Dated' /\ Counted' /\ BurstsShown' /\ LoginMailCapped'
        /\ {Id(r) : r \in mail'} = {Id(r) : r \in mail}
    BY <1>1, <1>3, <1>5, <2>1, <2>2, <2>3, EditStays
  <2>5. Listed'
    <3>1. \A r \in mail' : r \in mail \/ r = m
      BY <2>1
    <3>2. Id(m) = Id(d) /\ m.status = "pending" /\ ~m.wait /\ Id(m) \notin pass.due
      BY <1>2, <2>2 DEF Renews
    <3>3. \A r \in mail : Id(r) = Id(d) => r = d
      BY DEF Inv, Filed
    <3>4. \A r \in mail' : Id(r) = Id(d) => r.status = "pending" /\ ~r.wait /\ Id(r) \notin pass.due
      BY <1>2, <3>1, <3>2, <3>3
    <3>5. \A r \in mail' : r.status # "pending" => r.attempts = 0 /\ ~r.wait
      BY <3>1, <3>2 DEF Inv, Listed
    <3>6. \A r \in mail' : Id(r) \in pass.due => r.status = "pending" /\ ~r.wait
      BY <3>1, <3>2 DEF Inv, Listed
    <3>7. pass.due \subseteq {Id(r) : r \in mail'}
      BY <2>4 DEF Inv, Listed
    <3> QED  BY <1>5, <3>4, <3>5, <3>6, <3>7 DEF Listed
  <2>6. Lost' = IF ok THEN Lost \ {Id(d)} ELSE Lost \cup {Id(d)}
    <3>1. \A r \in mail : Id(r) = Id(d) => r = d
      BY DEF Inv, Filed
    <3> DEFINE G == {Id(r) : r \in {x \in mail : x.got}}
               H == {Id(r) : r \in {x \in mail' : x.got}}
    <3>2. H = G \cup {Id(d)}
      BY <2>1, <2>2 DEF Renews
    <3>3. Lost = G
      BY <1>1 DEF Lost
    <3>4. Lost' = IF ok THEN H \ {Id(d)} ELSE H
      BY <1>5 DEF Lost
    <3> HIDE DEF G, H
    <3> QED  BY <3>2, <3>3, <3>4
  <2>7. d.got => Id(d) \in Lost
    BY <1>1 DEF Lost
  <2>8. IsFiniteSet(Lost') /\ repeats' + Cardinality(Lost') <= excused'
    <3>1. IsFiniteSet(Lost) /\ Cardinality(Lost) \in Nat /\ repeats + Cardinality(Lost) <= excused
      BY FS_CardinalityType DEF Inv, Careful
    <3>2. CASE ok /\ d.got
      <4>1. IsFiniteSet(Lost') /\ Cardinality(Lost') = Cardinality(Lost) - 1
        BY <2>6, <2>7, <3>1, <3>2, FS_RemoveElement
      <4> QED  BY <1>2, <2>1, <3>1, <3>2, <4>1
    <3>3. CASE ok /\ ~d.got
      <4>1. Lost' \in SUBSET Lost
        BY <2>6, <3>3
      <4>2. UNCHANGED <<repeats, excused>>
        BY <2>1, <3>3
      <4> QED  BY <4>1, <4>2, LostLess
    <3>4. CASE ~ok /\ d.got
      <4>1. Lost' = Lost
        BY <2>6, <2>7, <3>4
      <4> QED  BY <1>2, <2>1, <3>1, <3>4, <4>1
    <3>5. CASE ~ok /\ ~d.got
      <4>1. Id(d) \notin Lost
        <5>1. \A r \in mail : Id(r) = Id(d) => r = d
          BY DEF Inv, Filed
        <5> QED  BY <3>5, <5>1 DEF Lost
      <4>2. IsFiniteSet(Lost') /\ Cardinality(Lost') = Cardinality(Lost) + 1
        BY <2>6, <3>1, <3>5, <4>1, FS_AddElement
      <4> QED  BY <1>2, <2>1, <3>1, <3>5, <4>2
    <3> QED  BY <3>2, <3>3, <3>4, <3>5
  <2>9. Careful'
    BY <1>1, <1>4, <1>5, <2>8 DEF Careful
  <2> QED  BY <2>4, <2>5, <2>9 DEF Inv
<1> QED  BY <1>6, <1>7

\* The outcome of the send is recorded on its row.
LEMMA RecordStep ==
    ASSUME Inv, NEW d \in mail, RecordSend(d)
    PROVE  Inv'
<1>1. /\ pass.pc \in {"accepted", "refused"} /\ pass.row = Id(d)
      /\ UNCHANGED <<clock, log, queue, live, recipients, readers, outage, ghosts, ops>>
  BY DEF RecordSend
<1>2. /\ d \in Row /\ pass \in Pass /\ late \in [Users -> Nat] /\ repeats \in Nat /\ excused \in Nat
      /\ d.status = "pending" /\ ~d.wait /\ Id(d) \notin pass.due
  BY <1>1 DEF Inv, Shape, Listed
<1>3. pass' = [pass EXCEPT !.pc = "mail", !.row = <<>>]
  BY DEF RecordSend
<1>4. pass' \in Pass /\ pass'.pc = "mail" /\ pass'.now = pass.now /\ pass'.due = pass.due
  BY <1>2, <1>3 DEF Pass, Pcs
<1>5. PICK m : m = Recorded(d)
  OBVIOUS
<1>6. /\ Renews(d, m) /\ (m.status # "pending" => m.attempts = 0 /\ m.wait = d.wait)
      /\ (pass.pc = "accepted" => ~m.got) /\ (m.got => d.got)
  BY <1>2, <1>5, RecordedFacts
<1>7. mail' = (mail \ {d}) \cup {m}
  BY <1>5 DEF RecordSend, Put
<1>8. /\ Shape' /\ Logged' /\ Filed' /\ Dated' /\ Counted' /\ BurstsShown' /\ LoginMailCapped'
      /\ {Id(r) : r \in mail'} = {Id(r) : r \in mail}
  BY <1>1, <1>2, <1>4, <1>6, <1>7, EditStays
<1>9. Listed'
  <2>1. \A r \in mail' : r \in mail \/ r = m
    BY <1>7
  <2>2. Id(m) = Id(d) /\ Id(m) \notin pass.due
    BY <1>2, <1>6 DEF Renews
  <2>3. \A r \in mail' : r.status # "pending" => r.attempts = 0 /\ ~r.wait
    BY <1>2, <1>6, <2>1 DEF Inv, Listed
  <2>4. \A r \in mail' : Id(r) \in pass.due => r.status = "pending" /\ ~r.wait
    BY <2>1, <2>2 DEF Inv, Listed
  <2>5. pass.due \subseteq {Id(r) : r \in mail'}
    BY <1>8 DEF Inv, Listed
  <2> QED  BY <1>4, <2>3, <2>4, <2>5 DEF Listed
<1>10. Lost' \in SUBSET Lost
  <2> DEFINE G == {Id(r) : r \in {x \in mail : x.got}}
             H == {Id(r) : r \in {x \in mail' : x.got}}
  <2>1. \A r \in mail : Id(r) = Id(d) => r = d
    BY DEF Inv, Filed
  <2>2. H \subseteq G
    BY <1>6, <1>7 DEF Renews
  <2>3. pass.pc = "accepted" => Id(d) \notin H
    BY <1>6, <1>7, <2>1 DEF Renews
  <2>4. Lost' = H
    BY <1>4 DEF Lost
  <2>5. Lost = G \ (IF pass.pc = "accepted" THEN {Id(d)} ELSE {})
    BY <1>1 DEF Lost
  <2> HIDE DEF G, H
  <2> QED  BY <2>2, <2>3, <2>4, <2>5
<1>11. IsFiniteSet(Lost') /\ repeats' + Cardinality(Lost') <= excused'
  BY <1>1, <1>10, LostLess
<1>12. Careful'
  BY <1>1, <1>4, <1>11 DEF Inv, Careful
<1> QED  BY <1>8, <1>9, <1>12 DEF Inv

-----------------------------------------------------------------------------
(* The theorems                                                            *)

LEMMA InitInv == Init => Inv
<1> SUFFICES ASSUME Init  PROVE Inv
  OBVIOUS
<1>1. /\ clock = 0 /\ log = {} /\ queue = {} /\ live = [k \in Keys |-> "none"] /\ mail = {}
      /\ recipients = Users /\ readers = Users /\ outage = {} /\ pass = Idle
      /\ late = [u \in Users |-> 0] /\ repeats = 0 /\ excused = 0 /\ ops = 0
  BY DEF Init
<1>2. Idle \in Pass /\ Idle.pc = "idle" /\ Idle.now = 0 /\ Idle.due = {}
  BY DEF Idle, Pass, Pcs
<1>3. Shape
  BY <1>1, <1>2, NumberAssumption DEF Shape
<1>4. IsFiniteSet({}) /\ Cardinality({}) = 0
  BY FS_EmptySet
<1>5. Logged /\ Dated /\ Listed
  BY <1>1, <1>2, <1>4 DEF Logged, Dated, Listed
<1>6. Filed
  <2>1. \A k : Nths(k) = {}
    BY <1>1 DEF Nths
  <2> QED  BY <1>1, <1>4, <2>1 DEF Filed
<1>7. Counted
  <2>1. LiveSources = {}
    BY <1>1, KeyFacts DEF LiveSources
  <2> QED  BY <1>4, <2>1, NumberAssumption DEF Counted
<1>8. Careful
  <2>1. Lost = {}
    BY <1>1 DEF Lost
  <2> QED  BY <1>1, <1>4, <2>1 DEF Careful
<1>9. BurstsShown /\ LoginMailCapped
  BY <1>1 DEF BurstsShown, LoginMailCapped
<1> QED  BY <1>3, <1>5, <1>6, <1>7, <1>8, <1>9 DEF Inv

LEMMA StutterInv ==
    ASSUME Inv, UNCHANGED vars
    PROVE  Inv'
<1>1. UNCHANGED <<clock, log, queue, live, mail, recipients, readers, outage, pass, ghosts, ops>>
  BY DEF vars
<1>2. Shape'
  BY <1>1 DEF Inv, Shape
<1>3. Logged' /\ Counted' /\ BurstsShown'
  <2>1. clock' >= clock
    BY <1>1 DEF Inv, Shape
  <2> QED  BY <1>1, <1>2, <2>1, LiveStays
<1>4. Filed' /\ LoginMailCapped'
  BY <1>1, MailStays
<1>5. Dated' /\ Listed'
  BY <1>1 DEF Inv, Dated, Listed
<1>6. Lost' = Lost
  BY <1>1 DEF Lost
<1>7. Careful'
  BY <1>1, <1>6 DEF Inv, Careful
<1> QED  BY <1>2, <1>3, <1>4, <1>5, <1>7 DEF Inv

LEMMA NextInv ==
    ASSUME Inv, [Next]_vars
    PROVE  Inv'
<1>1. CASE UNCHANGED vars
  BY <1>1, StutterInv
<1>2. CASE BeginPass \/ ListDue \/ EndPass \/ PassFails
  BY <1>2, PassesStep
<1>3. CASE ResolveQuiet \/ \E k \in Keys : AcknowledgeAlert(k)
  BY <1>3, LiveStep
<1>4. CASE EvaluateEvent
  BY <1>4, EventStep
<1>5. CASE EvaluateOutages
  BY <1>5, OutageStep
<1>6. CASE \E d \in mail : \/ CheckReader(d) \/ RecordSend(d)
                           \/ \E taken, ok \in BOOLEAN : Send(d, taken, ok)
  BY <1>6, CheckStep, RecordStep, SendStep
<1>7. CASE \E d \in mail : BackoffEnds(d)
  BY <1>7, BackoffStep
<1>8. CASE \/ \E k \in Sources \cup {Subject}, ip \in Addresses \cup {Subject},
                at \in 0..clock, n \in 1..MaxOps : AuditInsert(k, ip, at, n)
           \/ \E c \in Connectors : OutageChanges(c)
           \/ \E to \in SUBSET Users : SetAlertSettings(to)
           \/ \E u \in Users : ReaderChanges(u)
           \/ Tick
  BY <1>8, WorldStep
<1> QED  BY <1>1, <1>2, <1>3, <1>4, <1>5, <1>6, <1>7, <1>8, Zenon DEF Next, PassStep

LEMMA InvAlways == Spec => []Inv
<1>1. Inv /\ [Next]_vars => Inv'
  BY NextInv
<1> QED  BY InitInv, <1>1, PTL DEF Spec

\* Tables and pass keep their shape, what a pass has listed is in the mail, and a delivery
\* that is closed has no attempts left to count (runAlerts, DeliverAlerts).
THEOREM TypeCorrect == Spec => []TypeOK
<1>1. ASSUME Inv  PROVE TypeOK
  <2>1. pass.pc \in Pcs /\ pass.to \subseteq Users
    BY <1>1 DEF Inv, Shape, Pass
  <2> QED  BY <1>1, <2>1 DEF TypeOK, Inv, Shape, Listed, Pcs
<1> QED  BY InvAlways, <1>1, PTL

\* However failures, passes, quiet resolutions, acknowledgements and restarts interleave, and
\* however late a failure commits after it was stamped: one that was evaluated, and is with
\* those that were there before it a burst still in its window, is under a live alert, its
\* source's own or the one sources share past the ceiling (classifyTx).
THEOREM BurstsShownAlways == Spec => []BurstsShown
<1>1. Inv => BurstsShown
  BY DEF Inv
<1> QED  BY InvAlways, <1>1, PTL

\* For any number of sources: at most loginAlertCeiling of them have an alert of their own,
\* and two mailings about login failures are a cooldown apart unless one reopened an alert
\* that was acknowledged (classifyTx, raiseAlertTx).
THEOREM LoginNoiseBoundedAlways == Spec => []LoginNoiseBounded
<1>1. Inv => LoginNoiseBounded
  BY DEF Inv, Counted, LiveSources, LoginNoiseBounded, LoginAlertsBounded
<1> QED  BY InvAlways, <1>1, PTL

\* DeliverAlerts sends a message the relay took again only where a failed pass had not recorded
\* it or Send had reported it as failed, and who lost the right to read alerts gets at most the
\* message that was past its check.
THEOREM MailIsCarefulAlways == Spec => []MailIsCareful
<1>1. ASSUME Inv  PROVE MailIsCareful
  <2>1. /\ repeats \in Nat /\ excused \in Nat /\ Cardinality(Lost) \in Nat
        /\ repeats + Cardinality(Lost) <= excused
    BY <1>1, FS_CardinalityType DEF Inv, Shape, Careful
  <2>2. repeats <= excused
    BY <2>1
  <2> QED  BY <1>1, <2>2 DEF MailIsCareful, MailedOnce, LostReadersGetOneAtMost, Inv, Careful
<1> QED  BY InvAlways, <1>1, PTL
=============================================================================
