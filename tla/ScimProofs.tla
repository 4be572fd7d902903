----------------------------- MODULE ScimProofs -----------------------------
(***************************************************************************)
(* What InboundAccounts guarantees for any number of accounts, connectors, *)
(* addresses and overlapping requests (type correctness, the status of an  *)
(* owned account, the freshness of links, what each side may write), and   *)
(* what ScimDrift guarantees for any number of identifiers at the target,  *)
(* workers, attempts and upsets.                                           *)
(***************************************************************************)
EXTENDS InboundAccounts, ScimDrift, SequenceTheorems, TLAPS

\* A row of an owned account says what its source, its override and its password say.
Follows(a) ==
    Owned(a) => (a.status = "active" <=> a.sourceActive /\ ~a.localOff /\ ~a.pending)

\* ApplySourceState changes nothing but the status, and derives that of an owned account.
LEMMA ApplyFacts ==
    ASSUME NEW a \in Account
    PROVE  LET b == ApplySourceState(a) IN
           /\ b \in Account /\ b.owner = a.owner /\ b.sourceActive = a.sourceActive
           /\ b.localOff = a.localOff /\ b.pending = a.pending
           /\ b.email = a.email /\ b.proven = a.proven
           /\ Follows(b) /\ (~Owned(a) => b = a)
<1>1. CASE ~Owned(a)
  BY <1>1 DEF ApplySourceState, Follows
<1>2. CASE Owned(a)
  <2> DEFINE s == IF a.sourceActive /\ ~a.localOff /\ ~a.pending THEN "active" ELSE "disabled"
             b == [a EXCEPT !.status = s]
  <2>1. s \in {"active", "disabled"}
    OBVIOUS
  <2>2. (s = "active") <=> a.sourceActive /\ ~a.localOff /\ ~a.pending
    OBVIOUS
  <2> HIDE DEF s
  <2>3. /\ b \in Account /\ b.owner = a.owner /\ b.sourceActive = a.sourceActive
        /\ b.localOff = a.localOff /\ b.pending = a.pending
        /\ b.email = a.email /\ b.proven = a.proven /\ b.status = s
    BY <2>1 DEF Account
  <2>4. ApplySourceState(a) = b
    BY <1>2 DEF ApplySourceState, s
  <2> HIDE DEF b
  <2>5. Follows(b)
    BY <2>2, <2>3 DEF Follows
  <2> QED  BY <1>2, <2>3, <2>4, <2>5
<1> QED  BY <1>1, <1>2

\* Links that stay fit their accounts when those that changed have lost theirs.
LEMMA LinksFacts ==
    ASSUME links \subseteq Link, NEW ended, NEW changed
    PROVE  /\ LinksAfter(ended, changed) \subseteq Link
           /\ LinksFitTheirAccount /\ changed \subseteq ended
              => \A l \in LinksAfter(ended, changed) : ~l.stale
<1>1. ASSUME NEW l \in links
      PROVE  LET m == [l EXCEPT !.stale = l.stale \/ l.user \in changed] IN
             m \in Link /\ (m.stale <=> l.stale \/ l.user \in changed)
  <2> DEFINE s == l.stale \/ l.user \in changed
  <2>1. s \in BOOLEAN /\ l \in Link
    BY DEF Link
  <2> HIDE DEF s
  <2>2. [l EXCEPT !.stale = s] \in Link /\ [l EXCEPT !.stale = s].stale = s
    BY <2>1 DEF Link
  <2> QED  BY <2>1, <2>2 DEF s
<1> QED  BY <1>1 DEF LinksAfter, LinksFitTheirAccount

\* What a prepared row is once stored: itself, but for the proof of a new address.
Stored(old, new, a) ==
    /\ a \in Account /\ a.owner = new.owner /\ a.sourceActive = new.sourceActive
    /\ a.localOff = new.localOff /\ a.pending = new.pending /\ a.status = new.status
    /\ a.email = new.email /\ (new.email = old.email => a = new)

\* updateUser touches one row, and ends every link that no longer fits.
LEMMA StoreFacts ==
    ASSUME TypeOK, NEW u \in Users, NEW new \in Account, NEW revoke, StoreUser(u, new, revoke)
    PROVE  /\ acct' \in [Users -> Account] /\ Stored(acct[u], new, acct'[u])
           /\ \A v \in Users : v # u => acct'[v] = acct[v]
           /\ links' \subseteq Link /\ (LinksFitTheirAccount => LinksFitTheirAccount')
<1> DEFINE a == IF Moved(acct[u], new) THEN [new EXCEPT !.proven = NoEmail] ELSE new
<1>1. acct' = [acct EXCEPT ![u] = a]
  BY DEF StoreUser
<1>2. Stored(acct[u], new, a)
  BY DEF Stored, Moved, Account
<1> HIDE DEF a
<1>3. acct'[u] = a /\ acct' \in [Users -> Account] /\ \A v \in Users : v # u => acct'[v] = acct[v]
  BY <1>1, <1>2 DEF TypeOK, Stored
<1>4. PICK ended : links' = LinksAfter(ended, ended)
  BY DEF StoreUser
<1>5. links' \subseteq Link /\ (LinksFitTheirAccount => LinksFitTheirAccount')
  BY <1>4, LinksFacts DEF TypeOK, LinksFitTheirAccount
<1> QED  BY <1>2, <1>3, <1>5

\* The row of an account that was just made.
LEMMA NewRows ==
    /\ NoAccount \in Account
    /\ \A c \in Connectors, e \in Emails, b \in BOOLEAN :
          LET a == [NoAccount EXCEPT !.owner = c, !.sourceActive = b, !.pending = TRUE,
                                     !.email = e]
          IN  a \in Account /\ a.owner = c
    /\ \A e \in Emails, b \in BOOLEAN, s \in {"active", "disabled"} :
          LET a == [NoAccount EXCEPT !.owner = Local, !.email = e, !.pending = b, !.status = s]
          IN  a \in Account /\ ~Owned(a)
<1>1. NoAccount \in Account
  BY DEF NoAccount, Account
<1>2. ASSUME NEW c \in Connectors, NEW e \in Emails, NEW b \in BOOLEAN
      PROVE  LET a == [NoAccount EXCEPT !.owner = c, !.sourceActive = b, !.pending = TRUE,
                                        !.email = e]
             IN  a \in Account /\ a.owner = c
  BY DEF NoAccount, Account
<1>3. ASSUME NEW e \in Emails, NEW b \in BOOLEAN, NEW s \in {"active", "disabled"}
      PROVE  LET a == [NoAccount EXCEPT !.owner = Local, !.email = e, !.pending = b, !.status = s]
             IN  a \in Account /\ ~Owned(a)
  BY OwnerAssumption DEF NoAccount, Account, Owned
<1> QED  BY <1>1, <1>2, <1>3

\* UpdateUpstreamUser folds into the row of its own account, and leaves the override alone.
LEMMA FoldFacts ==
    ASSUME NEW w \in Write, NEW a \in Account, Follows(a)
    PROVE  LET b == Fold(w, a) IN
           /\ b \in Account /\ Follows(b) /\ b.owner = a.owner /\ b.localOff = a.localOff
           /\ (a.owner # w.conn => b = a)
<1> DEFINE g == [a EXCEPT !.sourceActive = w.active, !.email = w.email]
<1>1. w.active \in BOOLEAN /\ w.email \in Emails
  BY DEF Write
<1>2. g \in Account /\ g.owner = a.owner /\ g.localOff = a.localOff
  BY <1>1 DEF Account
<1>3. CASE a.owner = w.conn /\ Free(w.user, w.email)
  <2>1. Fold(w, a) = ApplySourceState(g)
    BY <1>3 DEF Fold
  <2> HIDE DEF g
  <2> QED  BY <1>2, <1>3, <2>1, ApplyFacts
<1>4. CASE ~(a.owner = w.conn /\ Free(w.user, w.email))
  BY <1>4 DEF Fold
<1> QED  BY <1>3, <1>4

\* The form of an administrator's edit is a row.
LEMMA FilledType ==
    ASSUME NEW seen \in Account, NEW status \in {"active", "disabled"}, NEW email \in Emails,
           NEW password \in BOOLEAN
    PROVE  /\ Filled(seen, status, email, password) \in Account
           /\ [seen EXCEPT !.email = email, !.pending = @ /\ ~password] \in Account
<1>1. ASSUME NEW a \in Account  PROVE [a EXCEPT !.pending = @ /\ ~password] \in Account
  <2>1. PICK b \in BOOLEAN : b = (a.pending /\ ~password)
    BY DEF Account
  <2>2. [a EXCEPT !.pending = b] \in Account
    BY DEF Account
  <2> QED  BY <2>1, <2>2
<1>2. [seen EXCEPT !.localOff = (status = "disabled")] \in Account
  <2>1. PICK b \in BOOLEAN : b = (status = "disabled")
    OBVIOUS
  <2>2. [seen EXCEPT !.localOff = b] \in Account
    BY DEF Account
  <2> QED  BY <2>1, <2>2
<1>3. [seen EXCEPT !.status = status, !.email = email, !.pending = @ /\ ~password] \in Account
  <2>1. PICK b \in BOOLEAN : b = (seen.pending /\ ~password)
    BY DEF Account
  <2>2. [seen EXCEPT !.status = status, !.email = email, !.pending = b] \in Account
    BY DEF Account
  <2> QED  BY <2>1, <2>2
<1>4. [seen EXCEPT !.email = email, !.pending = @ /\ ~password] \in Account
  <2>1. PICK b \in BOOLEAN : b = (seen.pending /\ ~password)
    BY DEF Account
  <2>2. [seen EXCEPT !.email = email, !.pending = b] \in Account
    BY DEF Account
  <2> QED  BY <2>1, <2>2
<1>5. PICK c : c = [seen EXCEPT !.localOff = (status = "disabled")]
  OBVIOUS
<1>6. ApplySourceState(c) \in Account
  BY <1>2, <1>5, ApplyFacts
<1> QED  BY <1>1, <1>3, <1>4, <1>5, <1>6 DEF Filled

\* What updateUser stores of a form keeps the upstream's fields of the row it locks.
LEMMA MergedFacts ==
    ASSUME NEW f \in Account, NEW a \in Account
    PROVE  LET b == Merged(f, a) IN
           /\ b \in Account /\ Follows(b) /\ b.owner = a.owner
           /\ Owned(a) => b.email = a.email /\ b.sourceActive = a.sourceActive
<1> DEFINE e == IF Owned(a) THEN a.email ELSE f.email
<1>1. PICK x \in Emails \cup {NoEmail} : x = e
  BY DEF Account
<1>2. PICK g : g = [f EXCEPT !.owner = a.owner, !.sourceActive = a.sourceActive,
                             !.proven = a.proven, !.email = x]
  OBVIOUS
<1>3. /\ g \in Account /\ g.owner = a.owner /\ g.email = x /\ g.sourceActive = a.sourceActive
  BY <1>2 DEF Account
<1>4. Merged(f, a) = ApplySourceState(g)
  BY <1>1, <1>2 DEF Merged
<1> QED  BY <1>1, <1>3, <1>4, ApplyFacts

\* A redeemed link leaves an owned account with the status its source and override give it.
LEMMA RedeemFacts ==
    ASSUME NEW a \in Account, Follows(a), NEW purpose \in Kinds,
           IF purpose = "activation" THEN a.pending ELSE a.status = "active" /\ ~a.pending,
           NEW to \in Emails \cup {NoEmail, ByHand}
    PROVE  LET b == IF purpose = "activation" THEN Activated(a) ELSE a
               c == [b EXCEPT !.proven = IF @ = NoEmail /\ to # ByHand THEN to ELSE @]
           IN  /\ c \in Account /\ Follows(c) /\ c.owner = a.owner /\ c.localOff = a.localOff
               /\ c.sourceActive = a.sourceActive /\ c.email = a.email
<1>1. PICK b : b = IF purpose = "activation" THEN Activated(a) ELSE a
  OBVIOUS
<1>2. /\ b \in Account /\ Follows(b) /\ b.owner = a.owner /\ b.localOff = a.localOff
      /\ b.sourceActive = a.sourceActive /\ b.email = a.email
  <2>1. CASE purpose = "activation"
    <3>1. PICK s \in {"active", "disabled"} :
             s = IF Owned(a) /\ ~(a.sourceActive /\ ~a.localOff) THEN "disabled" ELSE "active"
      OBVIOUS
    <3>2. b = [a EXCEPT !.pending = FALSE, !.status = s]
      BY <1>1, <2>1, <3>1 DEF Activated
    <3>3. /\ b \in Account /\ b.owner = a.owner /\ b.localOff = a.localOff
          /\ b.sourceActive = a.sourceActive /\ b.email = a.email
          /\ b.pending = FALSE /\ b.status = s
      BY <3>2 DEF Account
    <3> QED  BY <3>1, <3>3 DEF Follows, Owned
  <2>2. CASE purpose # "activation"
    BY <1>1, <2>2
  <2> QED  BY <2>1, <2>2
<1>3. PICK p \in Emails \cup {NoEmail} : p = IF b.proven = NoEmail
      /\ to # ByHand THEN to ELSE b.proven
  BY <1>2 DEF Account
<1>4. PICK c : c = [b EXCEPT !.proven = p]
  OBVIOUS
<1>5. /\ c \in Account /\ c.owner = b.owner /\ c.localOff = b.localOff /\ c.email = b.email
      /\ c.sourceActive = b.sourceActive /\ c.pending = b.pending /\ c.status = b.status
  BY <1>2, <1>4 DEF Account
<1>6. Follows(c)
  BY <1>2, <1>5 DEF Follows, Owned
<1> QED  BY <1>1, <1>2, <1>3, <1>4, <1>5, <1>6

-----------------------------------------------------------------------------
(* Steps                                                                   *)

Sound == TypeOK /\ StatusFollowsSource /\ LinksFitTheirAccount

\* The three action properties of SidesKeepTheirOwn, of one step.
HoldsDown ==
    \A u \in Users :
        Owned(acct[u]) /\ acct[u].localOff /\ (acct'[u].status = "active" \/ ~acct'[u].localOff)
        => \/ form' # form
           \/ conn' # conn /\ acct'[u].status = "disabled"
KeepsSource ==
    form' # form =>
        \A u \in Users : Owned(acct[u]) =>
            /\ acct'[u].email = acct[u].email
            /\ acct'[u].sourceActive = acct[u].sourceActive
OwnerOnly ==
    \A r \in Requests : req[r] # Idle /\ req'[r] = Idle =>
        \A u \in Users : acct'[u] # acct[u] => acct[u].owner \in {Nobody, req[r].conn}
Sides == HoldsDown /\ KeepsSource /\ OwnerOnly

\* The status of every row, and of the row of one account that a step touches.
LEMMA RowsFollow ==
    ASSUME TypeOK
    PROVE  /\ StatusFollowsSource <=> \A u \in Users : Follows(acct[u])
           /\ \A u \in Users : acct[u] \in Account
BY DEF StatusFollowsSource, Follows, TypeOK

\* A step that leaves the rows alone leaves every side what is its own.
LEMMA RowsStay ==
    ASSUME Sound, UNCHANGED acct
    PROVE  StatusFollowsSource' /\ Sides
<1>1. StatusFollowsSource'
  BY DEF Sound, StatusFollowsSource
<1>2. HoldsDown
  BY DEF Sound, StatusFollowsSource, HoldsDown
<1>3. KeepsSource /\ OwnerOnly
  BY DEF KeepsSource, OwnerOnly
<1> QED  BY <1>1, <1>2, <1>3 DEF Sides

\* One operation of the bounded number.
LEMMA OpType ==
    ASSUME TypeOK, Op
    PROVE  ops' \in 0..MaxOps
BY BoundAssumption DEF TypeOK, Op

\* Connectors and tokens are administered beside the accounts.
LEMMA ConnectorStep ==
    ASSUME Sound, NEW c \in Connectors,
           \/ CreateSCIMConnector(c)
           \/ \E status \in {"active", "disabled"} : UpdateSCIMConnector(c, status)
           \/ \E scope \in {"", "read", "write"} : AdminIssueToken(c, scope)
           \/ \E scope \in {"read", "write"} : RevokeSCIMToken(c, scope)
    PROVE  Sound' /\ Sides
<1> DEFINE Beside ==
        /\ UNCHANGED <<acct, links, req, form>> /\ Op
        /\ conn' \in [Connectors -> {"none", "active", "disabled", "gone"}]
        /\ token' \in [Connectors -> SUBSET {"read", "write"}]
<1>1. Beside
  <2>1. CASE CreateSCIMConnector(c)
    BY <2>1 DEF CreateSCIMConnector, Sound, TypeOK
  <2>2. ASSUME NEW status \in {"active", "disabled"}, UpdateSCIMConnector(c, status)
        PROVE  Beside
    BY <2>2 DEF UpdateSCIMConnector, Sound, TypeOK
  <2>3. ASSUME NEW scope \in {"", "read", "write"}, AdminIssueToken(c, scope)
        PROVE  Beside
    <3>1. PICK x \in {"read", "write"} : IssueSCIMToken(c, x)
      BY <2>3 DEF AdminIssueToken
    <3>2. token[c] \cup {x} \in SUBSET {"read", "write"}
      BY DEF Sound, TypeOK
    <3> QED  BY <3>1, <3>2 DEF IssueSCIMToken, Sound, TypeOK
  <2>4. ASSUME NEW scope \in {"read", "write"}, RevokeSCIMToken(c, scope)
        PROVE  Beside
    BY <2>4 DEF RevokeSCIMToken, Sound, TypeOK
  <2> QED  BY <2>1, <2>2, <2>3, <2>4
<1>2. TypeOK'
  BY <1>1, OpType DEF Sound, TypeOK
<1> QED  BY <1>1, <1>2, RowsStay DEF Sound, LinksFitTheirAccount

\* A disconnect hands the accounts over; none that was held down becomes active.
LEMMA DisconnectStep ==
    ASSUME Sound, NEW c \in Connectors, NEW disable \in BOOLEAN, DeleteSCIMConnector(c, disable)
    PROVE  Sound' /\ Sides
<1> DEFINE own == {u \in Users : acct[u].owner = c}
<1>1. /\ conn[c] \in {"active", "disabled"} /\ Op /\ UNCHANGED <<req, form>>
      /\ conn' = [conn EXCEPT ![c] = "gone"] /\ token' = [token EXCEPT ![c] = {}]
      /\ acct' = [u \in Users |->
                  IF u \notin own THEN acct[u]
                  ELSE [acct[u] EXCEPT !.owner = Local, !.sourceActive = TRUE, !.localOff = FALSE,
                                       !.status = IF disable THEN "disabled" ELSE @]]
      /\ \E ended : links' = LinksAfter(ended, ended)
  BY DEF DeleteSCIMConnector
<1>2. ASSUME NEW u \in own
      PROVE  /\ acct'[u] \in Account /\ acct'[u].owner = Local
             /\ acct'[u].status \in {acct[u].status, "disabled"}
  <2>1. PICK s \in {"active", "disabled"} : s = IF disable THEN "disabled" ELSE acct[u].status
    BY DEF Sound, TypeOK, Account
  <2>2. acct'[u] = [acct[u] EXCEPT !.owner = Local, !.sourceActive = TRUE, !.localOff = FALSE,
                                   !.status = s]
    BY <1>1, <2>1
  <2>3. acct[u] \in Account
    BY DEF Sound, TypeOK
  <2>4. acct'[u] \in Account /\ acct'[u].owner = Local /\ acct'[u].status = s
    BY <2>2, <2>3 DEF Account
  <2> QED  BY <2>1, <2>4
<1>3. \A u \in Users : u \notin own => acct'[u] = acct[u]
  BY <1>1
<1>4. acct' \in [Users -> Account]
  <2>1. \A u \in Users : acct'[u] \in Account
    BY <1>2, <1>3 DEF Sound, TypeOK
  <2>2. acct' = [u \in Users |-> acct'[u]]
    BY <1>1
  <2> QED  BY <2>1, <2>2
<1>5. links' \subseteq Link /\ LinksFitTheirAccount'
  BY <1>1, LinksFacts DEF Sound, TypeOK, LinksFitTheirAccount
<1>6. TypeOK'
  BY <1>1, <1>4, <1>5, OpType DEF Sound, TypeOK
<1> HIDE DEF own
<1>7. StatusFollowsSource'
  BY <1>2, <1>3, OwnerAssumption DEF Sound, StatusFollowsSource, Owned
<1>8. HoldsDown
  <2>1. conn' # conn
    BY <1>1 DEF Sound, TypeOK
  <2>2. \A u \in Users : acct[u] \in Account /\ acct'[u] \in Account
    BY <1>4 DEF Sound, TypeOK
  <2>3. ASSUME NEW u \in Users, Owned(acct[u]), acct[u].localOff,
               acct'[u].status = "active" \/ ~acct'[u].localOff
        PROVE  acct'[u].status = "disabled"
    <3>1. acct[u].status = "disabled"
      BY <2>2, <2>3 DEF Sound, StatusFollowsSource, Account
    <3> QED  BY <1>2, <1>3, <3>1
  <2> QED  BY <2>1, <2>3 DEF HoldsDown
<1>9. KeepsSource /\ OwnerOnly
  BY <1>1 DEF KeepsSource, OwnerOnly
<1> QED  BY <1>5, <1>6, <1>7, <1>8, <1>9 DEF Sound, Sides

\* A SCIM request reads the row and waits for its transaction.
LEMMA ArrivesStep ==
    ASSUME Sound, NEW r \in Requests, NEW c \in Connectors, NEW u \in Users, NEW email \in Emails,
           NEW active \in BOOLEAN,
           CreateArrives(r, c, u, email, active) \/ UpdateArrives(r, c, u, email, active)
    PROVE  Sound' /\ Sides
<1>1. PICK w \in Write : req' = [req EXCEPT ![r] = w]
  BY DEF CreateArrives, UpdateArrives, Opens, Write
<1>2. Op /\ UNCHANGED <<conn, token, acct, links, form>>
  BY DEF CreateArrives, UpdateArrives
<1>3. TypeOK'
  BY <1>1, <1>2, OpType DEF Sound, TypeOK
<1> QED  BY <1>2, <1>3, RowsStay DEF Sound, LinksFitTheirAccount

\* The request that a step ends is the one it ran.
LEMMA ClosesFacts ==
    ASSUME TypeOK, NEW r \in Requests, Closes(r)
    PROVE  /\ req' \in [Requests -> Write \cup {Idle}]
           /\ \A q \in Requests : req[q] # Idle /\ req'[q] = Idle => q = r
BY DEF TypeOK, Closes

\* CreateUpstreamUser writes only a row that did not exist.
LEMMA CreateStep ==
    ASSUME Sound, NEW r \in Requests, CreateUpstreamUser(r)
    PROVE  Sound' /\ Sides
<1> DEFINE w == req[r]
           new == [NoAccount EXCEPT !.owner = w.conn, !.sourceActive = w.active, !.pending = TRUE,
                                    !.email = w.email]
<1>1. /\ w # Idle /\ Closes(r) /\ UNCHANGED <<conn, token, links, form, ops>>
      /\ acct' = IF Free(w.user, w.email) /\ ~Exists(w.user)
                 THEN [acct EXCEPT ![w.user] = ApplySourceState(new)] ELSE acct
  BY DEF CreateUpstreamUser
<1>2. w \in Write
  BY <1>1 DEF Sound, TypeOK
<1>3. w.conn \in Connectors /\ w.active \in BOOLEAN /\ w.email \in Emails /\ w.user \in Users
  BY <1>2 DEF Write
<1>4. new \in Account
  BY <1>3, NewRows
<1> HIDE DEF w, new
<1>5. CASE acct' = acct
  <2>1. TypeOK'
    BY <1>1, <1>5, ClosesFacts DEF Sound, TypeOK
  <2> QED  BY <1>1, <1>5, <2>1, RowsStay DEF Sound, LinksFitTheirAccount
<1>6. CASE ~Exists(w.user) /\ acct' = [acct EXCEPT ![w.user] = ApplySourceState(new)]
  <2>1. /\ acct' \in [Users -> Account] /\ Follows(acct'[w.user])
        /\ \A v \in Users : v # w.user => acct'[v] = acct[v]
    BY <1>3, <1>4, <1>6, ApplyFacts DEF Sound, TypeOK
  <2>2. TypeOK'
    BY <1>1, <2>1, ClosesFacts DEF Sound, TypeOK
  <2>3. StatusFollowsSource'
    BY <2>1 DEF Sound, StatusFollowsSource, Follows
  <2>4. acct[w.user].owner = Nobody /\ ~Owned(acct[w.user])
    BY <1>6, OwnerAssumption DEF Exists, Owned
  <2>5. HoldsDown
    BY <2>1, <2>4 DEF HoldsDown, Sound, StatusFollowsSource
  <2>6. KeepsSource /\ OwnerOnly
    BY <1>1, <2>1, <2>4 DEF KeepsSource, OwnerOnly
  <2> QED  BY <1>1, <2>2, <2>3, <2>5, <2>6 DEF Sound, LinksFitTheirAccount, Sides
<1> QED  BY <1>1, <1>5, <1>6

\* UpdateUpstreamUser writes only a row of its connector, and keeps the override.
LEMMA UpdateStep ==
    ASSUME Sound, NEW r \in Requests, UpdateUpstreamUser(r)
    PROVE  Sound' /\ Sides
<1> DEFINE w == req[r]
<1>1. /\ w # Idle /\ Closes(r) /\ UNCHANGED <<conn, token, form, ops>>
      /\ StoreUser(w.user, Fold(w, acct[w.user]), FALSE)
  BY DEF UpdateUpstreamUser
<1>2. w \in Write /\ w.user \in Users
  BY <1>1 DEF Sound, TypeOK, Write
<1> HIDE DEF w
<1>3. acct[w.user] \in Account /\ Follows(acct[w.user])
  BY <1>2, RowsFollow DEF Sound
<1>4. PICK b : b = Fold(w, acct[w.user])
  OBVIOUS
<1>5. /\ b \in Account /\ Follows(b) /\ b.owner = acct[w.user].owner
      /\ b.localOff = acct[w.user].localOff /\ (acct[w.user].owner # w.conn => b = acct[w.user])
  BY <1>2, <1>3, <1>4, FoldFacts
<1>6. StoreUser(w.user, b, FALSE)
  BY <1>1, <1>4
<1>7. /\ acct' \in [Users -> Account] /\ Stored(acct[w.user], b, acct'[w.user])
      /\ \A v \in Users : v # w.user => acct'[v] = acct[v]
      /\ links' \subseteq Link /\ LinksFitTheirAccount'
  BY <1>2, <1>5, <1>6, StoreFacts DEF Sound
<1>8. TypeOK'
  BY <1>1, <1>7, ClosesFacts DEF Sound, TypeOK
<1>9. Follows(acct'[w.user]) /\ acct'[w.user].localOff = acct[w.user].localOff
  BY <1>5, <1>7 DEF Stored, Follows, Owned
<1>10. StatusFollowsSource'
  BY <1>7, <1>9 DEF Sound, StatusFollowsSource, Follows
<1>11. Owned(acct'[w.user]) <=> Owned(acct[w.user])
  BY <1>5, <1>7 DEF Stored, Owned
<1>12. HoldsDown
  BY <1>7, <1>9, <1>11 DEF HoldsDown, Sound, StatusFollowsSource, Follows
<1>13. acct[w.user].owner # w.conn => acct'[w.user] = acct[w.user]
  BY <1>5, <1>7 DEF Stored
<1>14. KeepsSource
  BY <1>1 DEF KeepsSource
<1>15. OwnerOnly
  <2>1. \A q \in Requests : req[q] # Idle /\ req'[q] = Idle => q = r
    BY <1>1, ClosesFacts DEF Sound
  <2> QED  BY <1>7, <1>13, <2>1 DEF OwnerOnly, w
<1> QED  BY <1>7, <1>8, <1>10, <1>12, <1>14, <1>15 DEF Sound, Sides

\* A new local account.
LEMMA CreateUserStep ==
    ASSUME Sound, NEW u \in Users, NEW email \in Emails, NEW invited \in BOOLEAN,
           CreateUser(u, email, invited)
    PROVE  Sound' /\ Sides
<1>1. PICK s \in {"active", "disabled"} : s = IF invited THEN "disabled" ELSE "active"
  OBVIOUS
<1>2. PICK a : a = [NoAccount EXCEPT !.owner = Local, !.email = email, !.pending = invited,
                                     !.status = s]
  OBVIOUS
<1>3. a \in Account /\ ~Owned(a)
  BY <1>2, NewRows
<1>4. /\ ~Exists(u) /\ Op /\ acct' = [acct EXCEPT ![u] = a]
      /\ UNCHANGED <<conn, token, links, req, form>>
  BY <1>1, <1>2 DEF CreateUser
<1>5. /\ acct' \in [Users -> Account] /\ acct'[u] = a
      /\ \A v \in Users : v # u => acct'[v] = acct[v]
  BY <1>3, <1>4 DEF Sound, TypeOK
<1>6. TypeOK'
  BY <1>4, <1>5, OpType DEF Sound, TypeOK
<1>7. StatusFollowsSource'
  BY <1>3, <1>5 DEF Sound, StatusFollowsSource
<1>8. ~Owned(acct[u])
  BY <1>4, OwnerAssumption DEF Exists, Owned
<1>9. HoldsDown
  BY <1>5, <1>8 DEF HoldsDown, Sound, StatusFollowsSource
<1>10. KeepsSource /\ OwnerOnly
  BY <1>4 DEF KeepsSource, OwnerOnly
<1> QED  BY <1>4, <1>6, <1>7, <1>9, <1>10 DEF Sound, LinksFitTheirAccount, Sides

\* An administrator's request reads the row and waits for its transaction.
LEMMA ReadsStep ==
    ASSUME Sound, NEW f \in Forms, NEW u \in Users, NEW op \in {"edit"} \cup Kinds,
           NEW mailed \in BOOLEAN, Reads(f, u, op, mailed)
    PROVE  Sound' /\ Sides
<1>1. PICK x : x = [op |-> op, user |-> u, row |-> acct[u], mailed |-> mailed]
  OBVIOUS
<1>2. x \in Form
  BY <1>1 DEF Form, Sound, TypeOK
<1>3. /\ Op /\ form' = [form EXCEPT ![f] = x] /\ UNCHANGED <<conn, token, acct, links, req>>
  BY <1>1 DEF Reads
<1>4. TypeOK'
  BY <1>2, <1>3, OpType DEF Sound, TypeOK
<1> QED  BY <1>3, <1>4, RowsStay DEF Sound, LinksFitTheirAccount

\* An administrator's edit stores what the form fills in, over the upstream's fields.
LEMMA SaveStep ==
    ASSUME Sound, NEW f \in Forms, NEW given \in BOOLEAN, NEW password \in BOOLEAN,
           NEW status \in {"active", "disabled"}, NEW email \in Emails,
           SaveUser(f, given, status, email, password)
    PROVE  Sound' /\ Sides
<1> DEFINE seen == form[f].row
           u == form[f].user
           filled == IF given THEN Filled(seen, status, email, password)
                     ELSE [seen EXCEPT !.email = email, !.pending = @ /\ ~password]
           new == Merged(filled, acct[u])
           revoke == password \/ (seen.status = "active" /\ filled.status = "disabled")
<1>1. /\ form[f] # Idle /\ form' = [form EXCEPT ![f] = Idle] /\ UNCHANGED <<conn, token, req, ops>>
      /\ UNCHANGED <<acct, links>> \/ StoreUser(u, new, revoke)
  BY DEF SaveUser
<1>2. form[f] \in Form /\ seen \in Account /\ u \in Users
  BY <1>1 DEF Sound, TypeOK, Form
<1>3. filled \in Account
  BY <1>2, FilledType
<1>4. form' \in [Forms -> Form \cup {Idle}] /\ form' # form
  <2>1. form'[f] = Idle /\ form' \in [Forms -> Form \cup {Idle}]
    BY <1>1 DEF Sound, TypeOK
  <2> QED  BY <1>1, <2>1
<1>5. CASE UNCHANGED <<acct, links>>
  <2>1. TypeOK'
    BY <1>1, <1>4, <1>5 DEF Sound, TypeOK
  <2> QED  BY <1>5, <2>1, RowsStay DEF Sound, LinksFitTheirAccount
<1>6. CASE StoreUser(u, new, revoke)
  <2> HIDE DEF seen, u, filled, revoke
  <2>1. acct[u] \in Account
    BY <1>2 DEF Sound, TypeOK
  <2>2. /\ new \in Account /\ Follows(new) /\ new.owner = acct[u].owner
        /\ Owned(acct[u]) => new.email = acct[u].email /\ new.sourceActive = acct[u].sourceActive
    BY <1>3, <2>1, MergedFacts
  <2> HIDE DEF new
  <2>3. /\ acct' \in [Users -> Account] /\ Stored(acct[u], new, acct'[u])
        /\ \A v \in Users : v # u => acct'[v] = acct[v]
        /\ links' \subseteq Link /\ LinksFitTheirAccount'
    BY <1>2, <1>6, <2>2, StoreFacts DEF Sound
  <2>4. TypeOK'
    BY <1>1, <1>4, <2>3 DEF Sound, TypeOK
  <2>5. Follows(acct'[u])
    BY <2>2, <2>3 DEF Stored, Follows, Owned
  <2>6. StatusFollowsSource'
    BY <2>3, <2>5 DEF Sound, StatusFollowsSource, Follows
  <2>7. HoldsDown /\ OwnerOnly
    BY <1>1, <1>4 DEF HoldsDown, OwnerOnly
  <2>8. KeepsSource
    BY <2>2, <2>3 DEF KeepsSource, Stored
  <2> QED  BY <2>3, <2>4, <2>6, <2>7, <2>8 DEF Sound, Sides
<1> QED  BY <1>1, <1>5, <1>6

\* The rows stay and some links end; those that stay are not older than a change.
LEMMA LinksStep ==
    ASSUME Sound, UNCHANGED <<conn, token, acct, req>>, form' \in [Forms -> Form \cup {Idle}],
           ops' \in 0..MaxOps, links' \subseteq Link, LinksFitTheirAccount'
    PROVE  Sound' /\ Sides
<1>1. TypeOK'
  BY DEF Sound, TypeOK
<1> QED  BY <1>1, RowsStay DEF Sound

\* RevokeUserAccess, ChangePassword and the end of a link's lifetime.
LEMMA EndLinksStep ==
    ASSUME Sound,
           \/ \E u \in Users : RevokeUserAccess(u) \/ ChangePassword(u)
           \/ \E l \in links : LinkExpires(l)
    PROVE  Sound' /\ Sides
<1>1. UNCHANGED <<conn, token, acct, req, form>> /\ (Op \/ UNCHANGED ops)
  BY DEF RevokeUserAccess, ChangePassword, LinkExpires
<1>2. \/ \E u \in Users : links' = LinksAfter({u}, {}) \/ links' = LinksAfter({u}, {u})
      \/ links' \subseteq links
  BY DEF RevokeUserAccess, ChangePassword, LinkExpires
<1>3. links' \subseteq Link /\ LinksFitTheirAccount'
  BY <1>2, LinksFacts DEF Sound, TypeOK, LinksFitTheirAccount
<1>4. ops' \in 0..MaxOps /\ form' \in [Forms -> Form \cup {Idle}]
  BY <1>1, OpType DEF Sound, TypeOK
<1> QED  BY <1>1, <1>3, <1>4, LinksStep

\* A new link is fresh.
LEMMA IssueStep ==
    ASSUME Sound, NEW f \in Forms, IssueAccountToken(f)
    PROVE  Sound' /\ Sides
<1>1. /\ form[f] # Idle /\ form[f].op \in Kinds /\ form' = [form EXCEPT ![f] = Idle]
      /\ UNCHANGED <<conn, token, acct, req, ops>>
      /\ links' \subseteq links \cup {Issue(f)}
  BY DEF IssueAccountToken
<1>2. form[f] \in Form /\ form[f].row \in Account
  BY <1>1 DEF Sound, TypeOK, Form
<1>3. form[f].user \in Users /\ form[f].row.email \in Emails \cup {NoEmail}
  BY <1>2 DEF Form, Account
<1>4. Issue(f) \in Link /\ Issue(f).stale = FALSE
  BY <1>1, <1>3 DEF Issue, Link
<1>5. links' \subseteq Link /\ LinksFitTheirAccount'
  BY <1>1, <1>4 DEF Sound, TypeOK, LinksFitTheirAccount
<1>6. ops' \in 0..MaxOps /\ form' \in [Forms -> Form \cup {Idle}]
  BY <1>1 DEF Sound, TypeOK
<1> QED  BY <1>1, <1>5, <1>6, LinksStep

\* A link gives an account the status its source and its override leave it.
LEMMA RedeemStep ==
    ASSUME Sound, NEW l \in links, RedeemAccountToken(l)
    PROVE  Sound' /\ Sides
<1> DEFINE u == l.user
           a == acct[u]
           b == IF l.kind = "activation" THEN Activated(a) ELSE a
<1>1. /\ IF l.kind = "activation" THEN a.pending ELSE a.status = "active" /\ ~a.pending
      /\ Op /\ UNCHANGED <<conn, token, req, form>> /\ links' = LinksAfter({u}, {})
      /\ acct' = [acct EXCEPT ![u] =
                    [b EXCEPT !.proven = IF @ = NoEmail /\ l.to # ByHand THEN l.to ELSE @]]
  BY DEF RedeemAccountToken
<1>2. l \in Link /\ u \in Users /\ l.kind \in Kinds /\ l.to \in Emails \cup {NoEmail, ByHand}
  BY DEF Sound, TypeOK, Link
<1>3. a \in Account /\ Follows(a)
  BY <1>2, RowsFollow DEF Sound
<1>4. PICK c : c = [b EXCEPT !.proven = IF @ = NoEmail /\ l.to # ByHand THEN l.to ELSE @]
  OBVIOUS
<1>5. c \in Account /\ Follows(c) /\ c.owner = a.owner /\ c.localOff = a.localOff
  BY <1>1, <1>2, <1>3, <1>4, RedeemFacts
<1>6. acct' = [acct EXCEPT ![u] = c]
  BY <1>1, <1>4
<1> HIDE DEF b
<1>7. /\ acct' \in [Users -> Account] /\ acct'[u] = c
      /\ \A v \in Users : v # u => acct'[v] = acct[v]
  BY <1>2, <1>5, <1>6 DEF Sound, TypeOK
<1>8. links' \subseteq Link /\ LinksFitTheirAccount'
  BY <1>1, LinksFacts DEF Sound, TypeOK, LinksFitTheirAccount
<1>9. TypeOK'
  BY <1>1, <1>7, <1>8, OpType DEF Sound, TypeOK
<1>10. StatusFollowsSource'
  BY <1>5, <1>7 DEF Sound, StatusFollowsSource, Follows
<1>11. HoldsDown
  BY <1>5, <1>7 DEF HoldsDown, Sound, StatusFollowsSource, Follows, Owned
<1>12. KeepsSource /\ OwnerOnly
  BY <1>1 DEF KeepsSource, OwnerOnly
<1> QED  BY <1>8, <1>9, <1>10, <1>11, <1>12 DEF Sound, Sides

\* Every step keeps the rows, the links and the sides apart.
LEMMA NextSound == Sound /\ [Next]_vars => Sound' /\ Sides
<1> SUFFICES ASSUME Sound, [Next]_vars  PROVE Sound' /\ Sides
  OBVIOUS
<1>1. ASSUME NEW c \in Connectors, NEW users \in {"keep", "disable"}, AdminDelete(c, users)
      PROVE  Sound' /\ Sides
  BY <1>1, DisconnectStep DEF AdminDelete
<1>2. ASSUME NEW f \in Forms, NEW u \in Users,
             \/ ReadUser(f, u) \/ Forgot(f, u)
             \/ \E purpose \in Kinds, mailed \in BOOLEAN : AdminIssueLink(f, u, purpose, mailed)
      PROVE  Sound' /\ Sides
  <2>1. PICK op \in {"edit"} \cup Kinds, mailed \in BOOLEAN : Reads(f, u, op, mailed)
    BY <1>2 DEF ReadUser, Forgot, AdminIssueLink, Kinds
  <2> QED  BY <2>1, ReadsStep
<1>3. CASE UNCHANGED vars
  <2>1. Sound'
    BY <1>3 DEF vars, Sound, TypeOK, StatusFollowsSource, LinksFitTheirAccount
  <2> QED  BY <1>3, <2>1, RowsStay DEF vars
<1> QED  BY <1>1, <1>2, <1>3, ConnectorStep, ArrivesStep, CreateStep, UpdateStep, CreateUserStep,
            SaveStep, EndLinksStep, IssueStep, RedeemStep DEF Next

\* The initial rows are nobody's.
LEMMA InitSound == Init => Sound
<1> SUFFICES ASSUME Init  PROVE Sound
  OBVIOUS
<1>0. NoAccount \in Account /\ 0 \in 0..MaxOps
  <2>1. NoAccount \in Account
    BY NewRows, Zenon
  <2> QED  BY <2>1, BoundAssumption
<1>1. TypeOK
  BY <1>0 DEF Init, TypeOK
<1>2. StatusFollowsSource /\ LinksFitTheirAccount
  BY OwnerAssumption DEF Init, StatusFollowsSource, LinksFitTheirAccount, NoAccount, Owned
<1> QED  BY <1>1, <1>2 DEF Sound

-----------------------------------------------------------------------------
(* Theorems                                                                *)

\* Every row, link and request of the directory has the shape the schema and the handlers give it.
THEOREM TypeCorrect == Spec => []TypeOK
<1>1. Sound => TypeOK
  BY DEF Sound
<1> QED  BY <1>1, InitSound, NextSound, PTL DEF Spec

\* An account an upstream owns is active exactly while its upstream wants it, no administrator
\* holds it down and its password is set, whoever wrote the row last (ApplySourceState and
\* RedeemAccountToken).
THEOREM StatusFollowsSourceAlways == Spec => []StatusFollowsSource
<1>1. Sound => StatusFollowsSource
  BY DEF Sound
<1> QED  BY <1>1, InitSound, NextSound, PTL DEF Spec

\* No link that can still be redeemed is older than its account's last password, offboarding or
\* address (expireAccountTokensTx in every transaction that changes them).
THEOREM LinksFitTheirAccountAlways == Spec => []LinksFitTheirAccount
<1>1. Sound => LinksFitTheirAccount
  BY DEF Sound
<1> QED  BY <1>1, InitSound, NextSound, PTL DEF Spec

\* Upstream, administrator and owner write only what is their own, for any number of overlapping
\* requests that read the row before another wrote it (UpdateUpstreamUser, updateUser,
\* RedeemAccountToken and DeleteSCIMConnector).
THEOREM SidesKeepTheirOwnAlways == Spec => SidesKeepTheirOwn
<1>1. Spec => [][Sides]_vars
  BY InitSound, NextSound, PTL DEF Spec
<1>2. Sides => HoldsDown /\ KeepsSource /\ OwnerOnly
  BY DEF Sides
<1>3. Spec => [][HoldsDown]_vars /\ [][KeepsSource]_vars /\ [][OwnerOnly]_vars
  BY <1>1, <1>2, PTL
<1> QED  BY <1>3 DEF SidesKeepTheirOwn, LocalDisableHolds, SourceFieldsKept, OnlyTheOwnerWrites,
                     HoldsDown, KeepsSource, OwnerOnly

-----------------------------------------------------------------------------
(* Drift between the directory and a SCIM target                           *)

\* What ScimDrift assumes of its constants.
DriftConstants ==
    /\ {ReconcileLimit, DeliveryLimit} \subseteq Nat \ {0}
    /\ MaxUpsets \in Nat
    /\ None \notin Ids \cup Workers
    /\ Ids # {} /\ Ids \cap {"none", "started"} = {}

\* A delivery, which has an identifier where it saves, checks or writes one.
Sent == {x \in [at : Sends, id : Ids \cup {None}, started : BOOLEAN] :
           x.at \in {"save", "posted", "verify", "write"} => x.id \in Ids}

\* The types, and that a delivery under way has an event to deliver.
Typed ==
    /\ DriftConstants
    /\ kind \in ResourceKinds /\ want \in BOOLEAN /\ hold \in BOOLEAN /\ late \in BOOLEAN
    /\ row \in [exists : BOOLEAN, active : BOOLEAN, provisioned : BOOLEAN]
    /\ queue \in Seq(BOOLEAN) /\ Len(queue) \in 0 .. 2
    /\ sending.at # "idle" => queue # <<>>
    /\ link \in Links
    /\ job \in [status : {"queued", "running", "ended"},
                kind : {"preview", "repair"}, attempts : 0 .. ReconcileLimit,
                owner : Workers \cup {None}, leased : BOOLEAN]
    /\ job.owner # None => job.status = "running"
    /\ worker \in [Workers -> [at : {"idle", "claimed", "listed", "compared"},
                               repair : BOOLEAN, listing : Listings]]
    /\ sending \in Sent
    /\ tries \in 0 .. DeliveryLimit
    /\ remote \in [Ids -> Present \cup {Absent}]
    /\ budget \in 0 .. MaxUpsets

\* Whoever is about to create an account, or may still do so late, finds none.
CreatesOnce ==
    /\ sending.at \in {"create", "post"} => Held = {}
    /\ late => At("uncertain") /\ Held = {}
    /\ OneAccount

\* Under a hold nothing is being delivered, and no create may be under way.
HeldBack == hold => sending = Rest /\ ~late /\ link # "started"

\* The target is as wanted, cannot be, or work that makes it so is queued.
InHand == Matches \/ Stuck \/ (queue # <<>> /\ (want \/ row.provisioned))

\* A listing shows the account the target holds, or that it holds none.
Sees(l) == \/ l.id = None /\ Held = {} /\ l.is = Absent
           \/ Held = {l.id} /\ l.is = remote[l.id]

\* What a worker has: before the comparison a listing that is true, after a repair a target in hand.
Shows(x) ==
    x.listing.fresh /\ Complete(x.listing) =>
        /\ x.at = "listed" => Sees(x.listing)
        /\ x.at = "compared" /\ x.repair => InHand

\* The inductive invariant.
DriftInv ==
    /\ Typed
    /\ CreatesOnce
    /\ HeldBack
    /\ hold => \A w \in Workers : Shows(worker[w])

\* The shapes of the resource's row, of a worker and of a job.
Rowed == [exists : BOOLEAN, active : BOOLEAN, provisioned : BOOLEAN]
Working == [at : {"idle", "claimed", "listed", "compared"}, repair : BOOLEAN, listing : Listings]
Jobs == [status : {"queued", "running", "ended"}, kind : {"preview", "repair"},
         attempts : 0 .. ReconcileLimit, owner : Workers \cup {None}, leased : BOOLEAN]

\* What is queued keeps the fenced event and adds one, or nothing is left to say.
Requeued(r, a) ==
    /\ row' \in Rowed /\ queue' \in Seq(BOOLEAN) /\ Len(queue') \in 0 .. 2
    /\ Fenced => queue' # <<>>
    /\ \/ ~a /\ ~r.provisioned /\ ~Fenced /\ row' = NoRow /\ queue' = <<>>
       \/ queue' # <<>> /\ row'.provisioned = r.provisioned /\ row'.exists
            /\ row'.active = a /\ (a \/ r.provisioned \/ Fenced)

\* QueueDesiredState does that.
LEMMA QueueFacts ==
    ASSUME Typed, NEW r \in Rowed, NEW a \in BOOLEAN, QueueDesiredState(r, a)
    PROVE  Requeued(r, a)
<1>1. CASE ~a /\ ~r.provisioned /\ ~Fenced
  <2>1. row' = NoRow /\ queue' = <<>>
    BY <1>1 DEF QueueDesiredState
  <2>2. NoRow \in Rowed
    BY DEF NoRow, Rowed
  <2> QED  BY <1>1, <2>1, <2>2 DEF Requeued
<1>2. CASE ~(~a /\ ~r.provisioned /\ ~Fenced)
  <2>1. row' = [r EXCEPT !.exists = TRUE, !.active = a] /\ queue' = Append(Kept, a)
    BY <1>2 DEF QueueDesiredState
  <2>2. row' \in Rowed /\ row'.provisioned = r.provisioned /\ row'.exists
        /\ row'.active = a
    <3>1. \A b \in BOOLEAN : LET x == [r EXCEPT !.exists = b, !.active = a] IN
             x \in Rowed /\ x.provisioned = r.provisioned /\ x.exists = b /\ x.active = a
      BY DEF Rowed
    <3> QED  BY <2>1, <3>1
  <2>3. Kept \in Seq(BOOLEAN) /\ Len(Kept) \in 0 .. 1
    <3>1. CASE Fenced
      <4>1. queue \in Seq(BOOLEAN) /\ queue # <<>>
        BY <3>1 DEF Typed, Fenced
      <4>2. Head(queue) \in BOOLEAN
        BY <4>1
      <4> QED  BY <3>1, <4>2 DEF Kept
    <3>2. CASE ~Fenced
      BY <3>2 DEF Kept
    <3> QED  BY <3>1, <3>2
  <2>4. queue' \in Seq(BOOLEAN) /\ Len(queue') = Len(Kept) + 1
    BY <2>1, <2>3
  <2>5. Len(queue') \in 1 .. 2
    <3>1. \A n \in 0 .. 1 : n + 1 \in 1 .. 2
      OBVIOUS
    <3> QED  BY <2>3, <2>4, <3>1
  <2>6. queue' # <<>>
    BY <2>4, <2>5
  <2>7. Len(queue') \in 0 .. 2
    BY <2>5
  <2>8. a \/ r.provisioned \/ Fenced
    BY <1>2
  <2> QED  BY <2>2, <2>4, <2>6, <2>7, <2>8 DEF Requeued
<1> QED  BY <1>1, <1>2

\* The bound on upsets is kept.
LEMMA UpsetFacts ==
    ASSUME Typed, Upset
    PROVE  budget' \in 0 .. MaxUpsets
BY DEF Typed, DriftConstants, Upset

\* A delivery moves on to another step of a delivery.
LEMMA GoesFacts ==
    ASSUME Typed, NEW s \in Sends, Goes(s),
           s \in {"save", "posted", "verify", "write"} => sending.id \in Ids
    PROVE  sending' \in Sent /\ sending'.at = s /\ (sending'.id = sending.id \/ sending'.id = None)
<1>1. Rest \in Sent
  BY DEF Rest, Sent, Sends
<1>2. sending \in Sent
  BY DEF Typed, Sent
<1>3. CASE s \in {"ok", "error", "uncertain"}
  <2>1. sending' = [Rest EXCEPT !.at = s]
    BY <1>3 DEF Goes
  <2>2. sending' = [at |-> s, id |-> None, started |-> FALSE]
    BY <2>1 DEF Rest
  <2> QED  BY <1>3, <2>2 DEF Sent
<1>4. CASE s \notin {"ok", "error", "uncertain"}
  <2>1. sending' = [sending EXCEPT !.at = s]
    BY <1>4 DEF Goes
  <2> QED  BY <1>2, <2>1 DEF Sent
<1> QED  BY <1>3, <1>4

\* A step of a delivery that has not ended yet.
LEMMA DeliveryTyped ==
    ASSUME Typed, UNCHANGED Delivering, Fenced \/ queue # <<>>,
           sending' \in Sent, link' \in Links,
               remote' \in [Ids -> Present \cup {Absent}],
           late' \in BOOLEAN, budget' \in 0 .. MaxUpsets
    PROVE  Typed'
<1>1. queue # <<>>
  BY DEF Typed, Fenced
<1> QED  BY <1>1 DEF Typed, DriftConstants, Delivering

\* A delivery is only ever under way where there is no hold.
LEMMA NotHeld ==
    ASSUME DriftInv, Fenced
    PROVE  ~hold /\ queue # <<>>
BY DEF DriftInv, HeldBack, Fenced, Rest, Typed

\* Where there is no hold only types and single creation are at stake.
LEMMA DeliveryInv ==
    ASSUME DriftInv, ~hold, hold' = hold, Typed', CreatesOnce'
    PROVE  DriftInv'
BY DEF DriftInv, HeldBack

\* What is found at a target that does not change.
LEMMA SameRemote ==
    ASSUME remote' = remote
    PROVE  Held' = Held /\ (OneAccount => OneAccount')
           /\ (Unique' <=> Unique) /\ Found' = Found
BY DEF Held, OneAccount, Unique, Found

\* A step of the delivery that leaves the target alone.
LEMMA QuietDelivery ==
    ASSUME DriftInv, UNCHANGED Delivering, ~hold, queue # <<>>,
           sending' \in Sent, link' \in Links, remote' = remote, late' = late,
               budget' \in 0 .. MaxUpsets,
           ~late, sending'.at \in {"create", "post"} => Held = {}
    PROVE  DriftInv'
<1>1. Typed'
  BY DeliveryTyped DEF DriftInv, Typed
<1>2. CreatesOnce'
  BY SameRemote DEF DriftInv, CreatesOnce
<1>3. hold' = hold
  BY DEF Delivering
<1> QED  BY <1>1, <1>2, <1>3, DeliveryInv

\* Only a create without an answer can still be made late.
LEMMA NotLate ==
    ASSUME DriftInv, sending.at # "uncertain"
    PROVE  ~late
BY DEF DriftInv, CreatesOnce, At

\* A link is one of the markers or an identifier.
LEMMA LinkTypes ==
    ASSUME Typed
    PROVE  link \in Links /\ {"none", "started"} \cup Ids \subseteq Links
BY DEF Typed, Links

\* The invariant is kept by BeginSyncDelivery.
LEMMA BeginStep ==
    ASSUME DriftInv, BeginSyncDelivery
    PROVE  DriftInv'
<1>1. sending' \in Sent /\ sending'.at \in {"verify", "lookup"}
  BY DEF BeginSyncDelivery, Sent, Sends
<1>2. UNCHANGED Delivering /\ ~hold /\ queue # <<>>
      /\ UNCHANGED <<link, remote, late, budget>> /\ sending.at = "idle"
  BY DEF BeginSyncDelivery, Read, At
<1>3. ~late /\ link' \in Links /\ budget' \in 0 .. MaxUpsets
  BY <1>2, NotLate DEF DriftInv, Typed
<1> QED  BY <1>1, <1>2, <1>3, QuietDelivery

\* A unique match is an identifier.
LEMMA FoundFacts ==
    ASSUME DriftInv, Unique
    PROVE  Found \in Ids
BY DEF Unique, Found, Held

\* The invariant is kept by FindSCIMResource.
LEMMA FindStep ==
    ASSUME DriftInv, FindSCIMResource
    PROVE  DriftInv'
<1>1. UNCHANGED Delivering /\ UNCHANGED <<link, remote, late, budget>>
      /\ sending.at = "lookup"
  BY DEF FindSCIMResource, Read, At
<1>2. ~late /\ link' \in Links /\ budget' \in 0 .. MaxUpsets /\ ~hold /\ queue # <<>>
  BY <1>1, NotLate, NotHeld DEF DriftInv, Typed, Fenced
<1>3. sending' \in Sent /\ (sending'.at \in {"create", "post"} => Held = {})
  <2>1. CASE Unique
    <3>1. sending' = [sending EXCEPT !.at = "save", !.id = Found] /\ Found \in Ids
          /\ sending \in Sent
      BY <2>1, FoundFacts DEF FindSCIMResource, DriftInv, Typed, Sent
    <3>2. \A a \in Sends,
          i \in Ids : LET x == [sending EXCEPT !.at = a, !.id = i] IN x \in Sent /\ x.at = a
      BY <3>1 DEF Sent
    <3> QED  BY <3>1, <3>2 DEF Sends
  <2>2. CASE ~Unique
    <3>1. PICK s \in {"error", "ok", "create"} : Goes(s) /\ (s = "create" => Held = {})
      BY <2>2 DEF FindSCIMResource
    <3>2. s \in Sends
      BY DEF Sends
    <3> QED  BY <3>1, <3>2, GoesFacts DEF DriftInv
  <2> QED  BY <2>1, <2>2
<1> QED  BY <1>1, <1>2, <1>3, QuietDelivery

\* A step that fails, is refused or is read back: nothing is created.
LEMMA GoesQuietly ==
    ASSUME DriftInv, UNCHANGED Delivering, Fenced, ~At("uncertain"),
           UNCHANGED <<remote, late>>, link' \in Links,
           budget' \in 0 .. MaxUpsets, NEW s \in Sends, Goes(s),
               s \in {"create", "post"} => Held = {},
           s \in {"save", "posted", "verify", "write"} => sending.id \in Ids
    PROVE  DriftInv'
<1>1. ~late /\ ~hold /\ queue # <<>>
  BY NotLate, NotHeld DEF At
<1>2. sending' \in Sent /\ sending'.at = s
  BY GoesFacts DEF DriftInv
<1> QED  BY <1>1, <1>2, QuietDelivery

\* The invariant is kept by ReadFails.
LEMMA ReadFailsStep ==
    ASSUME DriftInv, ReadFails
    PROVE  DriftInv'
<1>1. /\ UNCHANGED Delivering /\ Fenced /\ ~At("uncertain")
           /\ UNCHANGED <<link, remote, late>>
      /\ Upset /\ Goes("error")
  BY DEF ReadFails, Read, Fails, Fenced, At
<1>2. budget' \in 0 .. MaxUpsets /\ link' \in Links /\ "error" \in Sends
  BY <1>1, UpsetFacts DEF DriftInv, Typed, Sends
<1> QED  BY <1>1, <1>2, GoesQuietly

\* The invariant is kept by SaveSCIMLink.
LEMMA SaveLinkStep ==
    ASSUME DriftInv, SaveSCIMLink
    PROVE  DriftInv'
<1>1. /\ UNCHANGED Delivering /\ Fenced /\ ~At("uncertain")
           /\ UNCHANGED <<remote, late, budget>>
  BY DEF SaveSCIMLink, Fenced, At
<1>2. budget' \in 0 .. MaxUpsets
  BY <1>1 DEF DriftInv, Typed
<1>3. CASE link \in {"none", "started", sending.id}
  <2>1. PICK s \in {"write", "ok"} : Goes(s) /\ link' = sending.id
    BY <1>3 DEF SaveSCIMLink
  <2>2. sending.id \in Ids
    BY DEF SaveSCIMLink, At, DriftInv, Typed, Sent
  <2> QED
    <3>1. link' \in Links /\ s \in Sends
      BY <2>1, <2>2 DEF Links, Sends
    <3> QED  BY <1>1, <1>2, <2>1, <2>2, <3>1, GoesQuietly
<1>4. CASE link \notin {"none", "started", sending.id}
  <2>1. Goes("error") /\ link' \in Links /\ "error" \in Sends
    BY <1>4 DEF SaveSCIMLink, DriftInv, Typed, Sends
  <2> QED  BY <1>1, <1>2, <2>1, GoesQuietly
<1> QED  BY <1>3, <1>4

\* The invariant is kept by StartSCIMCreate.
LEMMA StartStep ==
    ASSUME DriftInv, StartSCIMCreate
    PROVE  DriftInv'
<1>1. /\ UNCHANGED Delivering /\ Fenced /\ ~At("uncertain")
           /\ UNCHANGED <<remote, late, budget>>
      /\ Held = {}
  BY DEF StartSCIMCreate, Fenced, At, DriftInv, CreatesOnce
<1>2. budget' \in 0 .. MaxUpsets
  BY <1>1 DEF DriftInv, Typed
<1>3. PICK s \in {"post", "error"} : Goes(s) /\ link' \in {"started", link}
  BY DEF StartSCIMCreate
<1>4. link' \in Links /\ s \in Sends
  BY <1>3 DEF Links, Sends, DriftInv, Typed
<1> QED  BY <1>1, <1>2, <1>3, <1>4, GoesQuietly

\* A create where there is no account leaves one.
LEMMA CreateFacts ==
    ASSUME Typed, NEW i \in Ids, Creates(i), Held = {}
    PROVE  /\ remote' \in [Ids -> Present \cup {Absent}]
           /\ Held' = {i} /\ OneAccount'
<1>1. remote' = [remote EXCEPT ![i] = "active"]
      /\ remote \in [Ids -> Present \cup {Absent}]
  BY DEF Creates, Typed
<1>2. remote' \in [Ids -> Present \cup {Absent}]
  BY <1>1 DEF Present
<1>3. remote'[i] = "active" /\ \A j \in Ids \ {i} : remote'[j] = remote[j]
  BY <1>1
<1>4. Held' = {i}
  BY <1>3 DEF Held, Absent
<1> QED  BY <1>2, <1>4 DEF OneAccount

\* The invariant is kept by CreateSCIM.
LEMMA CreateAtTargetStep ==
    ASSUME DriftInv, CreateSCIM
    PROVE  DriftInv'
<1>1. /\ UNCHANGED Delivering /\ Fenced /\ ~At("uncertain")
           /\ UNCHANGED <<link, late>>
      /\ Held = {} /\ hold' = hold
  BY DEF CreateSCIM, Fenced, At, DriftInv, CreatesOnce, Delivering
<1>2. ~hold /\ queue # <<>> /\ ~late /\ sending \in Sent /\ link' \in Links
      /\ late' \in BOOLEAN
  BY <1>1, NotHeld, NotLate DEF DriftInv, Typed, At
<1>3. PICK i \in Ids : /\ Creates(i)
                       /\ \/ /\ sending' = [sending EXCEPT !.at = "posted", !.id = i]
                             /\ UNCHANGED budget
                          \/ Upset /\ Goes("uncertain")
  BY DEF CreateSCIM
<1>4. remote' \in [Ids -> Present \cup {Absent}] /\ Held' = {i}
      /\ OneAccount'
  BY <1>1, <1>3, CreateFacts DEF DriftInv
<1>5. sending' \in Sent /\ sending'.at \in {"posted", "uncertain"} /\ budget' \in 0 .. MaxUpsets
  <2>1. CASE sending' = [sending EXCEPT !.at = "posted", !.id = i] /\ UNCHANGED budget
    <3>1. \A a \in Sends : LET x == [sending EXCEPT !.at = a, !.id = i] IN x \in Sent
          /\ x.at = a
      BY <1>2 DEF Sent
    <3>2. budget' \in 0 .. MaxUpsets
      BY <2>1 DEF DriftInv, Typed
    <3> QED  BY <2>1, <3>1, <3>2 DEF Sends
  <2>2. CASE Upset /\ Goes("uncertain")
    <3>1. "uncertain" \in Sends
      BY DEF Sends
    <3> QED  BY <2>2, <3>1, GoesFacts, UpsetFacts DEF DriftInv
  <2> QED  BY <1>3, <2>1, <2>2
<1>6. Typed'
  BY <1>1, <1>2, <1>4, <1>5, DeliveryTyped DEF DriftInv
<1>7. CreatesOnce'
  BY <1>1, <1>2, <1>4, <1>5 DEF CreatesOnce
<1> QED  BY <1>1, <1>2, <1>6, <1>7, DeliveryInv

\* The invariant is kept by CreateUnanswered.
LEMMA UnansweredStep ==
    ASSUME DriftInv, CreateUnanswered
    PROVE  DriftInv'
<1>1. /\ UNCHANGED Delivering /\ Fenced /\ UNCHANGED <<link, remote>> /\ late' = TRUE
      /\ Held = {} /\ hold' = hold /\ Upset /\ Goes("uncertain")
  BY DEF CreateUnanswered, Fenced, At, DriftInv, CreatesOnce, Delivering
<1>2. "uncertain" \in Sends
  BY DEF Sends
<1>3. sending' \in Sent /\ sending'.at = "uncertain" /\ budget' \in 0 .. MaxUpsets
  BY <1>1, <1>2, GoesFacts, UpsetFacts DEF DriftInv
<1>4. Typed'
  BY <1>1, <1>3, DeliveryTyped DEF DriftInv, Typed
<1>5. CreatesOnce'
  BY <1>1, <1>3, SameRemote DEF CreatesOnce, DriftInv, At
<1> QED  BY <1>1, <1>4, <1>5, DeliveryInv, NotHeld

\* The marker of a create goes, an identifier stays.
LEMMA UnmarkFacts ==
    ASSUME Typed, Unmark
    PROVE  link' \in Links
BY DEF Typed, Unmark, Links

\* The invariant is kept by RejectSCIMCreate.
LEMMA RejectStep ==
    ASSUME DriftInv, RejectSCIMCreate
    PROVE  DriftInv'
<1>1. /\ UNCHANGED Delivering /\ Fenced /\ ~At("uncertain")
           /\ UNCHANGED <<remote, late>> /\ Upset /\ Unmark
  BY DEF RejectSCIMCreate, Fenced, At
<1>2. budget' \in 0 .. MaxUpsets /\ link' \in Links
  BY <1>1, UpsetFacts, UnmarkFacts DEF DriftInv
<1>3. PICK s \in {"error", "conflict"} : Goes(s)
  BY DEF RejectSCIMCreate
<1>4. s \in Sends
  BY DEF Sends
<1> QED  BY <1>1, <1>2, <1>3, <1>4, GoesQuietly

\* The invariant is kept by ResolveConflict.
LEMMA ConflictStep ==
    ASSUME DriftInv, ResolveConflict
    PROVE  DriftInv'
<1>1. UNCHANGED Delivering /\ UNCHANGED <<link, remote, late, budget>>
      /\ sending.at = "conflict"
  BY DEF ResolveConflict, Read, At
<1>2. ~late /\ link' \in Links /\ budget' \in 0 .. MaxUpsets /\ ~hold /\ queue # <<>>
  BY <1>1, NotLate, NotHeld DEF DriftInv, Typed, Fenced
<1>3. sending' \in Sent /\ sending'.at \in {"save", "error"}
  <2>1. CASE Unique
    <3>1. sending' = [sending EXCEPT !.at = "save", !.id = Found] /\ Found \in Ids
          /\ sending \in Sent
      BY <2>1, FoundFacts DEF ResolveConflict, DriftInv, Typed
    <3>2. \A a \in Sends,
          i \in Ids : LET x == [sending EXCEPT !.at = a, !.id = i] IN x \in Sent /\ x.at = a
      BY <3>1 DEF Sent
    <3> QED  BY <3>1, <3>2 DEF Sends
  <2>2. CASE ~Unique
    <3>1. Goes("error") /\ "error" \in Sends
      BY <2>2 DEF ResolveConflict, Sends
    <3> QED  BY <3>1, GoesFacts DEF DriftInv
  <2> QED  BY <2>1, <2>2
<1> QED  BY <1>1, <1>2, <1>3, QuietDelivery

\* The invariant is kept by VerifyMapping.
LEMMA VerifyStep ==
    ASSUME DriftInv, VerifyMapping
    PROVE  DriftInv'
<1>1. /\ UNCHANGED Delivering /\ Fenced /\ ~At("uncertain")
           /\ UNCHANGED <<link, remote, late, budget>>
      /\ sending.id \in Ids
  BY DEF VerifyMapping, Fenced, At, Read, DriftInv, Typed, Sent
<1>2. budget' \in 0 .. MaxUpsets /\ link' \in Links
  BY <1>1 DEF DriftInv, Typed
<1>3. PICK s \in {"write", "unlink", "ok", "error"} : Goes(s)
  BY DEF VerifyMapping, Gone
<1>4. s \in Sends
  BY DEF Sends
<1> QED  BY <1>1, <1>2, <1>3, <1>4, GoesQuietly

\* The invariant is kept by WriteFails.
LEMMA WriteFailsStep ==
    ASSUME DriftInv, WriteFails
    PROVE  DriftInv'
<1>1. /\ UNCHANGED Delivering /\ Fenced /\ ~At("uncertain")
           /\ UNCHANGED <<link, remote, late>> /\ Upset
  BY DEF WriteFails, Fenced, At, Read
<1>2. budget' \in 0 .. MaxUpsets /\ link' \in Links
  BY <1>1, UpsetFacts DEF DriftInv, Typed
<1>3. PICK s \in {"error", "uncertain"} : Goes(s)
  BY DEF WriteFails
<1>4. s \in Sends
  BY DEF Sends
<1> QED  BY <1>1, <1>2, <1>3, <1>4, GoesQuietly

\* The invariant is kept by DeleteSCIMLink.
LEMMA UnlinkStep ==
    ASSUME DriftInv, DeleteSCIMLink
    PROVE  DriftInv'
<1>1. /\ UNCHANGED Delivering /\ Fenced /\ ~At("uncertain")
           /\ UNCHANGED <<remote, late, budget>> /\ Goes("ok")
      /\ link' = "none"
  BY DEF DeleteSCIMLink, Fenced, At
<1>2. budget' \in 0 .. MaxUpsets /\ link' \in Links /\ "ok" \in Sends
  BY <1>1 DEF DriftInv, Typed, Links, Sends
<1> QED  BY <1>1, <1>2, GoesQuietly

\* An account that is there is changed or removed.
LEMMA EditFacts ==
    ASSUME Typed, OneAccount, NEW i \in Held,
           NEW s \in Present \cup {Absent},
           remote' = [remote EXCEPT ![i] = s]
    PROVE  remote' \in [Ids -> Present \cup {Absent}] /\ OneAccount'
<1>1. remote' \in [Ids -> Present \cup {Absent}] /\ i \in Ids
  BY DEF Typed, Held
<1>2. Held' \subseteq Held
  <2>1. \A j \in Ids \ {i} : remote'[j] = remote[j]
    BY DEF Typed, Held
  <2> QED  BY <2>1 DEF Held
<1> QED  BY <1>1, <1>2 DEF OneAccount

\* The invariant is kept by WriteSCIM.
LEMMA WriteStep ==
    ASSUME DriftInv, WriteSCIM
    PROVE  DriftInv'
<1>1. /\ UNCHANGED Delivering /\ Fenced /\ ~At("uncertain")
           /\ UNCHANGED <<link, late>>
      /\ hold' = hold
  BY DEF WriteSCIM, Fenced, At, Delivering
<1>2. ~hold /\ queue # <<>> /\ ~late /\ link' \in Links /\ late' \in BOOLEAN
  BY <1>1, NotHeld, NotLate DEF DriftInv, Typed, At
<1>3. remote' \in [Ids -> Present \cup {Absent}] /\ OneAccount'
  <2>1. CASE sending.id \in Held
    <3>1. PICK s \in Present \cup {Absent} : remote' = [remote EXCEPT ![sending.id] = s]
      BY <2>1 DEF WriteSCIM, Written, Present
    <3> QED  BY <2>1, <3>1, EditFacts DEF DriftInv, CreatesOnce
  <2>2. CASE sending.id \notin Held
    BY <2>2, SameRemote DEF WriteSCIM, DriftInv, Typed, CreatesOnce
  <2> QED  BY <2>1, <2>2
<1>4. PICK s \in {"unlink", "ok", "error", "uncertain"} : Goes(s)
      /\ (budget' = budget \/ Upset)
  BY DEF WriteSCIM, Gone
<1>5. s \in Sends
  BY DEF Sends
<1>6. sending' \in Sent /\ sending'.at = s
  BY <1>4, <1>5, GoesFacts DEF DriftInv
<1>7. budget' \in 0 .. MaxUpsets
  BY <1>4, UpsetFacts DEF DriftInv, Typed
<1>8. Typed'
  BY <1>1, <1>2, <1>3, <1>6, <1>7, DeliveryTyped DEF DriftInv
<1>9. CreatesOnce'
  BY <1>1, <1>2, <1>3, <1>6 DEF CreatesOnce
<1> QED  BY <1>1, <1>2, <1>8, <1>9, DeliveryInv

\* What is left of the queue after a delivery.
LEMMA TailFacts ==
    ASSUME NEW q \in Seq(BOOLEAN), Len(q) \in 0 .. 2, q # <<>>
    PROVE  Tail(q) \in Seq(BOOLEAN) /\ Len(Tail(q)) \in 0 .. 2
<1>1. Tail(q) \in Seq(BOOLEAN) /\ Len(Tail(q)) = Len(q) - 1 /\ Len(q) # 0
  OBVIOUS
<1>2. \A n \in 0 .. 2 : n # 0 => n - 1 \in 0 .. 2
  OBVIOUS
<1> QED  BY <1>1, <1>2

\* The invariant is kept by FinishSyncDelivery.
LEMMA FinishStep ==
    ASSUME DriftInv, FinishSyncDelivery
    PROVE  DriftInv'
<1>1. /\ Fenced /\ ~At("uncertain") /\ sending' = Rest
           /\ queue' \in {queue, Tail(queue)}
      /\ UNCHANGED <<kind, want, link, hold, job, worker, remote, late, budget>>
  BY DEF FinishSyncDelivery, Fenced, At
<1>2. ~hold /\ queue # <<>> /\ ~late
  BY <1>1, NotHeld, NotLate DEF At
<1>3. queue' \in Seq(BOOLEAN) /\ Len(queue') \in 0 .. 2
  BY <1>1, <1>2, TailFacts DEF DriftInv, Typed
<1>4. row' \in Rowed
  <2>1. row \in Rowed /\ NoRow \in Rowed
    BY DEF DriftInv, Typed, Rowed, NoRow
  <2>2. \A b \in BOOLEAN : [row EXCEPT !.provisioned = b] \in Rowed
    BY <2>1 DEF Rowed
  <2>3. row.exists \in BOOLEAN
    BY <2>1 DEF Rowed
  <2> QED  BY <2>1, <2>2, <2>3 DEF FinishSyncDelivery
<1>5. tries' \in 0 .. DeliveryLimit
  <2>1. tries \in 0 .. DeliveryLimit /\ DeliveryLimit \in Nat
    BY DEF DriftInv, Typed, DriftConstants
  <2>2. tries' = 0 \/ (tries + 1 < DeliveryLimit /\ tries' = tries + 1)
    BY DEF FinishSyncDelivery
  <2> QED  BY <2>1, <2>2
<1>6. Rest \in Sent /\ Rest.at = "idle"
  BY DEF Rest, Sent, Sends
<1>7. Typed'
  BY <1>1, <1>3, <1>4, <1>5, <1>6 DEF DriftInv, Typed, DriftConstants, Rowed
<1>8. CreatesOnce'
  BY <1>1, <1>2, <1>6, SameRemote DEF DriftInv, CreatesOnce
<1> QED  BY <1>1, <1>2, <1>7, <1>8, DeliveryInv

\* The invariant is kept by ResumeSyncDelivery.
LEMMA ResumeStep ==
    ASSUME DriftInv, NEW b \in BOOLEAN, ResumeSyncDelivery(b)
    PROVE  DriftInv'
<1>1. /\ Fenced /\ sending' = Rest /\ ~late /\ tries' = 0
      /\ UNCHANGED <<kind, want, row, queue, hold, job, worker, remote, late, budget>>
  BY DEF ResumeSyncDelivery, Fenced, At
<1>2. ~hold /\ queue # <<>>
  BY <1>1, NotHeld
<1>3. link' \in Links
  BY UnmarkFacts DEF ResumeSyncDelivery, DriftInv, Typed
<1>4. Rest \in Sent /\ Rest.at = "idle"
  BY DEF Rest, Sent, Sends
<1>5. tries' \in 0 .. DeliveryLimit
  BY <1>1 DEF DriftInv, Typed, DriftConstants
<1>6. Typed'
  BY <1>1, <1>3, <1>4, <1>5 DEF DriftInv, Typed, DriftConstants
<1>7. CreatesOnce'
  BY <1>1, <1>4, SameRemote DEF DriftInv, CreatesOnce
<1> QED  BY <1>1, <1>2, <1>6, <1>7, DeliveryInv

\* A listing that the target has outlived.
LEMMA AgedFacts ==
    ASSUME NEW x \in Working
    PROVE  Aged(x) \in Working /\ Aged(x).listing.fresh = FALSE
           /\ Aged(x).at = x.at
BY DEF Aged, Working, Listings

\* The target's own operators change an account that is there, or restore it.
LEMMA ForeignInv ==
    ASSUME DriftInv, ForeignChange, remote' \in [Ids -> Present \cup {Absent}],
           OneAccount',
           sending.at \notin {"create", "post"}
    PROVE  DriftInv'
<1>1. /\ UNCHANGED <<kind, want, row, queue, link, hold, job, sending, tries, late>>
      /\ ~late /\ Upset /\ worker' = [w \in Workers |-> Aged(worker[w])]
  BY DEF ForeignChange, local
<1>2. budget' \in 0 .. MaxUpsets
  BY <1>1, UpsetFacts DEF DriftInv
<1>3. \A w \in Workers : worker'[w] \in Working /\ worker'[w].listing.fresh = FALSE
  <2>1. \A w \in Workers : worker[w] \in Working
    BY DEF DriftInv, Typed, Working
  <2> QED  BY <1>1, <2>1, AgedFacts
<1>4. worker' \in [Workers -> Working]
  BY <1>1, <1>3
<1>5. Typed'
  BY <1>1, <1>2, <1>4 DEF DriftInv, Typed, DriftConstants, Working
<1>6. CreatesOnce' /\ HeldBack'
  BY <1>1 DEF DriftInv, CreatesOnce, HeldBack
<1>7. \A w \in Workers : Shows(worker[w])'
  BY <1>3 DEF Shows
<1> QED  BY <1>5, <1>6, <1>7 DEF DriftInv

\* The invariant is kept by Foreign.
LEMMA ForeignStep ==
    ASSUME DriftInv, Foreign
    PROVE  DriftInv'
<1>1. ASSUME NEW i \in Ids, NEW s \in Present \cup {Absent},
             TargetEdits(i, s) PROVE DriftInv'
  <2>1. i \in Held /\ remote' = [remote EXCEPT ![i] = s] /\ ForeignChange
    BY <1>1 DEF TargetEdits
  <2>2. remote' \in [Ids -> Present \cup {Absent}] /\ OneAccount'
    BY <2>1, EditFacts DEF DriftInv, CreatesOnce
  <2>3. sending.at \notin {"create", "post"}
    BY <2>1 DEF DriftInv, CreatesOnce
  <2> QED  BY <2>1, <2>2, <2>3, ForeignInv
<1>2. ASSUME NEW i \in Ids, TargetRestored(i) PROVE DriftInv'
  <2>1. /\ sending.at \notin {"create", "post"} /\ ForeignChange
        /\ remote' = [j \in Ids |-> IF j = i THEN "active" ELSE Absent]
    BY <1>2 DEF TargetRestored
  <2>2. remote' \in [Ids -> Present \cup {Absent}]
    BY <2>1 DEF Present
  <2>3. OneAccount'
    BY <2>1 DEF OneAccount, Held
  <2> QED  BY <2>1, <2>2, <2>3, ForeignInv
<1>3. ASSUME late, late' = FALSE,
             UNCHANGED <<local, job, worker, sending, tries, budget>>,
             remote' \in [Ids -> Present \cup {Absent}], OneAccount'
      PROVE  DriftInv'
  <2>1. At("uncertain") /\ ~hold
    BY <1>3 DEF DriftInv, CreatesOnce, HeldBack
  <2>2. UNCHANGED <<kind, want, row, queue, link, hold, job, worker, sending, tries, budget>>
    BY <1>3 DEF local
  <2>3. Typed'
    BY <1>3, <2>2 DEF DriftInv, Typed, DriftConstants
  <2>4. CreatesOnce'
    BY <1>3, <2>1, <2>2 DEF CreatesOnce, At
  <2> QED  BY <2>1, <2>2, <2>3, <2>4, DeliveryInv
<1>4. ASSUME NEW i \in Ids, LateCreate(i) PROVE DriftInv'
  <2>1. remote' \in [Ids -> Present \cup {Absent}] /\ OneAccount'
    BY <1>4, CreateFacts DEF LateCreate, DriftInv, CreatesOnce
  <2> QED  BY <1>3, <1>4, <2>1 DEF LateCreate
<1>5. ASSUME LateCreateDies PROVE DriftInv'
  <2>1. remote' \in [Ids -> Present \cup {Absent}] /\ OneAccount'
    BY <1>5, SameRemote DEF LateCreateDies, DriftInv, CreatesOnce, Typed
  <2> QED  BY <1>3, <1>5, <2>1 DEF LateCreateDies
<1> QED  BY <1>1, <1>2, <1>4, <1>5 DEF Foreign

\* A step that leaves deliveries and the target alone need only keep what the workers were shown.
LEMMA Calm ==
    ASSUME DriftInv, Typed', UNCHANGED <<sending, remote, late>>, hold' => hold,
           hold => link' # "started", hold' => \A w \in Workers : Shows(worker[w])'
    PROVE  DriftInv'
<1>1. CreatesOnce'
  BY SameRemote DEF DriftInv, CreatesOnce, At
<1>2. HeldBack'
  BY DEF DriftInv, HeldBack
<1> QED  BY <1>1, <1>2 DEF DriftInv

\* What a hold says of the delivery.
LEMMA HeldLink ==
    ASSUME DriftInv, hold
    PROVE  link # "started" /\ sending = Rest /\ ~Fenced /\ ~late
BY DEF DriftInv, HeldBack, Fenced, Rest

\* Queueing the wanted state again leaves the target in hand.
LEMMA RequeueSettles ==
    ASSUME ~Fenced, UNCHANGED <<kind, want, remote, sending, link>>,
           Requeued(row, want), InHand
    PROVE  InHand'
<1>1. Matches' = Matches
  BY DEF Matches, Active
<1>2. CASE queue' # <<>> /\ row'.provisioned = row.provisioned
      /\ (want \/ row.provisioned \/ Fenced)
  BY <1>2 DEF InHand
<1>3. CASE ~want /\ ~row.provisioned /\ row' = NoRow
  <2>1. CASE Matches
    BY <1>1, <2>1 DEF InHand
  <2>2. CASE Stuck
    <3>1. Managed' => Managed
      BY <1>3 DEF Managed, NoRow
    <3>2. Stuck'
      BY <2>2, <3>1, SameRemote DEF Stuck, At
    <3> QED  BY <3>2 DEF InHand
  <2> QED  BY <1>3, <2>1, <2>2 DEF InHand
<1> QED  BY <1>2, <1>3 DEF Requeued

\* What a worker was shown stays true with the target.
LEMMA SameShows ==
    ASSUME NEW x, Shows(x), remote' = remote, InHand => InHand'
    PROVE  Shows(x)'
BY SameRemote DEF Shows, Sees, Complete

\* The invariant is kept when provisioning is reconciled or retried.
LEMMA RetryStep ==
    ASSUME DriftInv, ReconcileProvisioning \/ RetryProvisioning
    PROVE  DriftInv'
<1>1. /\ QueueDesiredState(row, want) /\ budget' \in 0 .. MaxUpsets
      /\ UNCHANGED <<kind, want, link, hold, job, worker, sending, tries, remote, late>>
  BY UpsetFacts DEF ReconcileProvisioning, RetryProvisioning, Reconcile,
       DriftInv, Typed
<1>2. Requeued(row, want)
  BY <1>1, QueueFacts DEF DriftInv, Typed, Rowed
<1>3. Typed'
  BY <1>1, <1>2 DEF DriftInv, Typed, DriftConstants, Requeued, Rowed, Fenced
<1>4. ASSUME hold PROVE link' # "started" /\ \A w \in Workers : Shows(worker[w])'
  <2>1. InHand => InHand'
    BY <1>1, <1>2, <1>4, RequeueSettles, HeldLink
  <2>2. \A w \in Workers : Shows(worker[w]) /\ worker'[w] = worker[w]
    BY <1>1, <1>4 DEF DriftInv
  <2>3. ASSUME NEW w \in Workers PROVE Shows(worker[w])'
    <3>1. PICK x : x = worker[w]  OBVIOUS
    <3>2. Shows(x) /\ worker'[w] = x
      BY <2>2, <3>1
    <3>3. Shows(x)'
      BY <1>1, <2>1, <3>2, SameShows
    <3> QED  BY <3>2, <3>3 DEF Shows, Sees, Complete
  <2> QED  BY <1>1, <1>4, <2>3, HeldLink
<1> QED  BY <1>1, <1>3, <1>4, Calm

\* Access changes, and what was compared before says nothing of it.
LEMMA AccessStep ==
    ASSUME DriftInv, ChangeAccess \/ AccessLapses
    PROVE  DriftInv'
<1>1. /\ Upset /\ want' \in BOOLEAN
      /\ UNCHANGED <<kind, link, hold, job, sending, tries, remote, late>>
      /\ worker' = [w \in Workers |-> IF worker[w].at = "compared" THEN Aged(worker[w]) ELSE worker[w]]
  BY DEF ChangeAccess, AccessLapses
<1>2. row' \in Rowed /\ queue' \in Seq(BOOLEAN) /\ Len(queue') \in 0 .. 2
      /\ (Fenced => queue' # <<>>)
  <2>1. CASE UNCHANGED <<row, queue>>
    BY <2>1 DEF DriftInv, Typed, Rowed, Fenced
  <2>2. CASE QueueDesiredState(row, want')
    BY <1>1, <2>2, QueueFacts DEF DriftInv, Typed, Rowed, Requeued
  <2> QED  BY <2>1, <2>2 DEF ChangeAccess, AccessLapses, Reconcile
<1>3. budget' \in 0 .. MaxUpsets
  BY <1>1, UpsetFacts DEF DriftInv
<1>4. \A w \in Workers : /\ worker[w] \in Working /\ worker'[w] \in Working
                         /\ \/ ~worker'[w].listing.fresh
                            \/ worker[w].at # "compared" /\ worker'[w] = worker[w]
  <2>1. \A w \in Workers : worker[w] \in Working
    BY DEF DriftInv, Typed, Working
  <2> QED  BY <1>1, <2>1, AgedFacts
<1>5. worker' \in [Workers -> Working]
  BY <1>1, <1>4
<1>6. Typed'
  BY <1>1, <1>2, <1>3, <1>5 DEF DriftInv, Typed, DriftConstants, Rowed, Fenced, Working
<1>7. ASSUME hold, NEW w \in Workers PROVE Shows(worker[w])'
  <2>1. CASE ~worker'[w].listing.fresh
    BY <2>1 DEF Shows
  <2>2. CASE worker[w].at # "compared" /\ worker'[w] = worker[w]
    BY <1>1, <1>7, <2>2, SameRemote DEF Shows, Sees, Complete, DriftInv
  <2> QED  BY <1>4, <2>1, <2>2
<1>8. hold => link' # "started"
  BY <1>1, HeldLink
<1> QED  BY <1>1, <1>6, <1>7, <1>8, Calm

\* A step that leaves what a worker was shown, the resource and the target alone.
LEMMA WorkerKept ==
    ASSUME DriftInv, UNCHANGED <<kind, want, row, queue, link, remote, sending>>,
           NEW w \in Workers, hold, worker'[w] = worker[w]
    PROVE  Shows(worker[w])'
<1>1. InHand' = InHand
  BY SameRemote DEF InHand, Matches, Active, Stuck, Managed, At
<1>2. Shows(worker[w])
  BY DEF DriftInv
<1> QED  BY <1>1, <1>2, SameRemote DEF Shows, Sees, Complete

\* A worker that rests was shown nothing.
LEMMA IdleFacts == Resting \in Working /\ ~Resting.listing.fresh /\ Resting.at = "idle"
<1>1. NoListing \in Listings /\ NoListing.fresh = FALSE
  BY DEF NoListing, Listings, Absent
<1> QED  BY <1>1 DEF Resting, Working

\* The invariant is kept by a step of the jobs whose workers keep, drop or truly read a listing.
LEMMA JobStepInv ==
    ASSUME DriftInv, UNCHANGED <<local, sending, tries, remote, late>>,
           job' \in Jobs, job'.owner # None => job'.status = "running",
           worker' \in [Workers -> Working], budget' \in 0 .. MaxUpsets,
           \A w \in Workers : \/ worker'[w] = worker[w] \/ ~worker'[w].listing.fresh
                              \/ worker'[w].at = "listed" /\ Sees(worker[w].listing)'
    PROVE  DriftInv'
<1>1. UNCHANGED <<kind, want, row, queue, link, hold>>
  BY DEF local
<1>2. Typed'
  BY <1>1 DEF DriftInv, Typed, DriftConstants, Jobs, Working
<1>3. ASSUME hold, NEW w \in Workers PROVE Shows(worker[w])'
  <2>1. CASE worker'[w] = worker[w]
    BY <1>1, <1>3, <2>1, WorkerKept
  <2>2. CASE ~worker'[w].listing.fresh
    BY <2>2 DEF Shows
  <2>3. CASE worker'[w].at = "listed" /\ Sees(worker[w].listing)'
    BY <2>3 DEF Shows
  <2> QED  BY <2>1, <2>2, <2>3
<1>4. hold => link' # "started"
  BY <1>1, HeldLink
<1> QED  BY <1>1, <1>2, <1>3, <1>4, Calm

\* The invariant is kept by CreateReconcileJob.
LEMMA CreateJobStep ==
    ASSUME DriftInv, NEW what \in {"preview", "repair"}, CreateReconcileJob(what),
           budget' \in 0 .. MaxUpsets
    PROVE  DriftInv'
<1>1. ReconcileLimit \in Nat
  BY DEF DriftInv, Typed, DriftConstants
<1>2. job' = [NoJob EXCEPT !.status = "queued", !.kind = what]
  BY DEF CreateReconcileJob
<1>3. job' = [status |-> "queued", kind |-> what, attempts |-> 0, owner |-> None, leased |-> FALSE]
  BY <1>2 DEF NoJob
<1>4. job' \in Jobs /\ job'.owner = None
  BY <1>1, <1>3 DEF Jobs
<1>5. worker' = worker /\ worker \in [Workers -> Working]
      /\ UNCHANGED <<local, sending, tries, remote, late>>
  BY DEF CreateReconcileJob, DriftInv, Typed, Working
<1> QED  BY <1>4, <1>5, JobStepInv

\* The invariant is kept by ClaimReconcileJob.
LEMMA ClaimStep ==
    ASSUME DriftInv, NEW w \in Workers, ClaimReconcileJob(w)
    PROVE  DriftInv'
<1>1. ReconcileLimit \in Nat /\ job \in Jobs /\ worker \in [Workers -> Working]
      /\ budget \in 0 .. MaxUpsets
  BY DEF DriftInv, Typed, DriftConstants, Jobs, Working
<1>2. UNCHANGED <<local, sending, tries, remote, late, budget>>
  BY DEF ClaimReconcileJob
<1>3. CASE job.attempts < ReconcileLimit
  <2>1. job' = [job EXCEPT !.status = "running", !.owner = w, !.leased = TRUE, !.attempts = @ + 1]
    BY <1>3 DEF ClaimReconcileJob
  <2>2. PICK n \in 0 .. ReconcileLimit : n = job.attempts + 1
    <3>1. job.attempts \in 0 .. ReconcileLimit
      BY <1>1 DEF Jobs
    <3> QED  BY <1>1, <1>3, <3>1
  <2>3. job' \in Jobs /\ job'.status = "running"
    <3>1. \A s \in {"running"}, b \in BOOLEAN :
            LET j == [job EXCEPT !.status = s, !.owner = w, !.leased = b, !.attempts = n]
            IN  j \in Jobs /\ j.status = s
      BY <1>1 DEF Jobs
    <3> QED  BY <2>1, <2>2, <3>1
  <2>4. PICK b \in BOOLEAN : worker' = [worker EXCEPT ![w] = [Resting EXCEPT !.at = "claimed", !.repair = b]]
    <3>1. (job.kind = "repair") \in BOOLEAN
      OBVIOUS
    <3> QED  BY <1>3, <3>1 DEF ClaimReconcileJob
  <2>5. PICK x \in Working : x = [Resting EXCEPT !.at = "claimed", !.repair = b]
        /\ ~x.listing.fresh
    <3>1. \A y \in Working : LET x == [y EXCEPT !.at = "claimed", !.repair = b] IN
             x \in Working /\ x.listing = y.listing
      BY DEF Working
    <3> QED  BY <3>1, IdleFacts
  <2>6. worker' = [worker EXCEPT ![w] = x]
    BY <2>4, <2>5
  <2>7. worker' \in [Workers -> Working]
        /\ \A v \in Workers : worker'[v] = worker[v] \/ ~worker'[v].listing.fresh
    BY <1>1, <2>5, <2>6
  <2> QED  BY <1>1, <1>2, <2>3, <2>7, JobStepInv
<1>4. CASE ~(job.attempts < ReconcileLimit)
  <2>1. job' = NoJob /\ worker' = worker
    BY <1>4 DEF ClaimReconcileJob
  <2>2. NoJob \in Jobs /\ NoJob.owner = None
    BY <1>1 DEF NoJob, Jobs
  <2> QED  BY <1>1, <1>2, <2>1, <2>2, JobStepInv
<1> QED  BY <1>3, <1>4

\* The invariant is kept by LeaseLapses.
LEMMA LeaseStep ==
    ASSUME DriftInv, LeaseLapses
    PROVE  DriftInv'
<1>1. job \in Jobs /\ worker \in [Workers -> Working]
  BY DEF DriftInv, Typed, Jobs, Working
<1>2. job' = [job EXCEPT !.leased = FALSE] /\ worker' = worker
      /\ UNCHANGED <<local, sending, tries, remote, late>>
      /\ job.status = "running"
  BY DEF LeaseLapses
<1>3. job' \in Jobs /\ job'.status = "running"
  BY <1>1, <1>2 DEF Jobs
<1>4. budget' \in 0 .. MaxUpsets
  BY UpsetFacts DEF LeaseLapses, DriftInv, Typed
<1> QED  BY <1>1, <1>2, <1>3, <1>4, JobStepInv

\* What a worker has after it read the target.
LEMMA ReadsFacts ==
    ASSUME DriftInv, NEW w \in Workers, NEW how \in {"complete", "partial", "unsupported"},
           NEW i \in Ids \cup {None}, ReadsTarget(w, how, i)
    PROVE  /\ worker' \in [Workers -> Working]
           /\ \A v \in Workers \ {w} : worker'[v] = worker[v]
           /\ worker'[w].at = "listed" /\ worker'[w].listing.kind = how
                /\ worker'[w].listing.id = i
           /\ worker'[w].listing.is = IF i = None THEN Absent ELSE remote[i]
<1> DEFINE l == [kind |-> how, id |-> i, fresh |-> TRUE, is |-> IF i = None THEN Absent ELSE remote[i]]
<1>1. worker \in [Workers -> Working] /\ remote \in [Ids -> Present \cup {Absent}]
  BY DEF DriftInv, Typed, Working
<1>2. (IF i = None THEN Absent ELSE remote[i]) \in Present \cup {Absent}
  BY <1>1
<1>3. l \in Listings /\ l.kind = how /\ l.id = i
      /\ l.is = IF i = None THEN Absent ELSE remote[i]
  BY <1>2 DEF Listings
<1>4. worker' = [worker EXCEPT ![w].at = "listed", ![w].listing = l]
  BY DEF ReadsTarget
<1> HIDE DEF l
<1>5. \A a \in {"listed"} : LET x == [worker EXCEPT ![w].at = a, ![w].listing = l] IN
         /\ x \in [Workers -> Working] /\ \A v \in Workers \ {w} : x[v] = worker[v]
         /\ x[w].at = a /\ x[w].listing = l
  BY <1>1, <1>3 DEF Working
<1> QED  BY <1>3, <1>4, <1>5

\* The invariant is kept by ListRemote.
LEMMA ListStep ==
    ASSUME DriftInv, NEW w \in Workers, ListRemote(w)
    PROVE  DriftInv'
<1>1. UNCHANGED <<local, job, sending, tries, remote, late>>
  BY DEF ListRemote
<1>2. job \in Jobs /\ (job.owner # None => job.status = "running") /\ job' = job
  BY <1>1 DEF DriftInv, Typed, Jobs
<1>3. CASE ReadsTarget(w, "complete", IF Held = {} THEN None ELSE Found)
      /\ UNCHANGED budget
  <2>1. Held # {} => Found \in Ids /\ Held = {Found}
    <3> SUFFICES ASSUME Held # {} PROVE Found \in Ids /\ Held = {Found}
      OBVIOUS
    <3>1. Found \in Held
      BY DEF Found
    <3>2. \A i, j \in Held : i = j
      BY DEF DriftInv, CreatesOnce, OneAccount
    <3> QED  BY <3>1, <3>2 DEF Held
  <2>2. PICK i \in Ids \cup {None} : i = (IF Held = {} THEN None ELSE Found)
        /\ ReadsTarget(w, "complete", i)
    BY <1>3, <2>1
  <2>3. /\ worker' \in [Workers -> Working]
        /\ \A v \in Workers \ {w} : worker'[v] = worker[v]
        /\ worker'[w].at = "listed" /\ worker'[w].listing.id = i
        /\ worker'[w].listing.is = IF i = None THEN Absent ELSE remote[i]
    BY <2>2, ReadsFacts
  <2>4. None \notin Ids
    BY DEF DriftInv, Typed, DriftConstants
  <2>5. Sees(worker[w].listing)'
    <3>1. Held' = Held
      BY <1>1, SameRemote
    <3> QED  BY <1>1, <2>1, <2>2, <2>3, <2>4, <3>1 DEF Sees
  <2>6. budget' \in 0 .. MaxUpsets
    BY <1>3 DEF DriftInv, Typed
  <2> QED  BY <1>1, <1>2, <2>3, <2>5, <2>6, JobStepInv
<1>4. ASSUME Upset, NEW how \in {"partial", "unsupported"},
             NEW i \in Held \cup {None}, ReadsTarget(w, how, i)
      PROVE  DriftInv'
  <2>1. i \in Ids \cup {None}
    BY DEF Held
  <2>2. /\ worker' \in [Workers -> Working]
        /\ \A v \in Workers \ {w} : worker'[v] = worker[v]
        /\ worker'[w].listing.kind = how
    BY <1>4, <2>1, ReadsFacts
  <2>3. budget' \in 0 .. MaxUpsets
    BY <1>4, UpsetFacts DEF DriftInv
  <2>4. UNCHANGED <<kind, want, row, queue, link, hold>>
    BY <1>1 DEF local
  <2>5. Typed'
    BY <1>1, <2>2, <2>3, <2>4 DEF DriftInv, Typed, DriftConstants, Working
  <2>6. ASSUME hold, NEW v \in Workers PROVE Shows(worker[v])'
    <3>1. CASE v = w
      BY <2>2, <3>1 DEF Shows, Complete
    <3>2. CASE v # w
      BY <1>1, <2>2, <2>4, <2>6, <3>2, WorkerKept
    <3> QED  BY <3>1, <3>2
  <2>7. hold => link' # "started"
    BY <2>4, HeldLink
  <2> QED  BY <1>1, <2>4, <2>5, <2>6, <2>7, Calm
<1> QED  BY <1>3, <1>4 DEF ListRemote

\* The row of a resource under a hold counts as provisioned.
LEMMA HoldRowFacts ==
    ASSUME Typed
    PROVE  HoldRow \in Rowed /\ HoldRow.provisioned = TRUE
<1>1. CASE row.exists
  <2>1. row \in Rowed
    BY DEF Typed, Rowed
  <2>2. \A b \in BOOLEAN : [row EXCEPT !.provisioned = b] \in Rowed
        /\ [row EXCEPT !.provisioned = b].provisioned = b
    BY <2>1 DEF Rowed
  <2> QED  BY <1>1, <2>2 DEF HoldRow
<1>2. CASE ~row.exists
  BY <1>2 DEF HoldRow, Rowed
<1> QED  BY <1>1, <1>2

\* What a repair leaves: work that is queued, everything as it was, or a mapping.
Queues == /\ queue' # <<>> /\ (want \/ row'.provisioned)
          /\ row' \in Rowed /\ queue' \in Seq(BOOLEAN) /\ Len(queue') \in 0 .. 2
Maps(l) == Keeps /\ l.id # None /\ Managed /\ Linked(l) /\ link' = l.id
Repaired(l) ==
    /\ link' \in Links /\ link' \in {link, "none"} \cup Ids
    /\ Queues \/ (Keeps /\ link' = link) \/ Maps(l)

\* A repair that queues anything leaves work to do.
LEMMA RepairQueues ==
    ASSUME Typed,
           \/ want /\ QueueDesiredState(row, TRUE)
           \/ QueueDesiredState(HoldRow, FALSE)
    PROVE  Queues
<1>1. CASE want /\ QueueDesiredState(row, TRUE)
  BY <1>1, QueueFacts DEF Typed, Rowed, Requeued, Queues
<1>2. CASE QueueDesiredState(HoldRow, FALSE)
  BY <1>2, QueueFacts, HoldRowFacts DEF Requeued, Queues
<1> QED  BY <1>1, <1>2

\* Every branch of a repair is one of these.
LEMMA RepairOutcome ==
    ASSUME Typed, NEW l \in Listings, Repair(l)
    PROVE  Repaired(l)
<1>0. link \in Links /\ l.id \in Ids \cup {None}
  BY DEF Typed, Listings
<1>1. CASE UNCHANGED link /\ Keeps
  BY <1>0, <1>1 DEF Repaired
<1>2. CASE l.id # None /\ RepairListed(l)
  <2>1. link' = link \/ (Managed /\ Linked(l) /\ link' = l.id)
    BY <1>2 DEF RepairListed
  <2>2. Keeps \/ Queues
    BY <1>2, RepairQueues DEF RepairListed
  <2>3. link' \in Links
    BY <1>0, <1>2, <2>1 DEF Links
  <2>4. link' \in {link, "none"} \cup Ids
    BY <1>0, <1>2, <2>1
  <2> QED  BY <1>2, <2>1, <2>2, <2>3, <2>4 DEF Repaired, Maps
<1>3. CASE RepairMissing
  <2>1. CASE want
    <3>1. link' \in {link, "none"} /\ Queues
      BY <1>3, <2>1, RepairQueues DEF RepairMissing
    <3> QED  BY <1>0, <3>1 DEF Repaired, Links
  <2>2. CASE ~want
    BY <1>0, <1>3, <2>2 DEF RepairMissing, Repaired
  <2> QED  BY <2>1, <2>2
<1> QED  BY <1>1, <1>2, <1>3 DEF Repair

\* A repair settles nothing that was settled anew.
LEMMA RepairKeepsSettled ==
    ASSUME Typed, NEW l, Repaired(l), link # "started", UNCHANGED <<kind, want, remote, sending>>,
           InHand
    PROVE  InHand'
<1>1. CASE Queues
  BY <1>1 DEF Queues, InHand
<1>2. ASSUME Keeps, link' = link PROVE InHand'
  BY <1>2, SameRemote DEF Keeps, InHand, Matches, Active, Stuck,
       Managed, At
<1>3. CASE Maps(l)
  <2>1. CASE Matches \/ (queue # <<>> /\ (want \/ row.provisioned))
    BY <1>3, <2>1 DEF Maps, Keeps, InHand, Matches, Active
  <2>2. CASE At("uncertain")
    BY <2>2 DEF At, InHand, Stuck
  <2>3. CASE link \in Ids
    <3>1. link' = link
      BY <1>3, <2>3 DEF Maps, Linked, Typed, DriftConstants
    <3> QED  BY <1>2, <1>3, <3>1 DEF Maps
  <2> QED  BY <1>3, <2>1, <2>2, <2>3 DEF Maps, InHand, Stuck
<1> QED  BY <1>1, <1>2, <1>3 DEF Repaired

\* A repair that saw the target settles it.
LEMMA RepairSettles ==
    ASSUME Typed, NEW l \in Listings, Repair(l), Sees(l), Complete(l),
           link # "started",
           UNCHANGED <<kind, want, remote, sending>>
    PROVE  InHand'
<1>1. l.kind # "unsupported" /\ None \notin Ids /\ want \in BOOLEAN /\ kind \in {"user", "group"}
      /\ link \in {"none"} \cup Ids /\ "none" \notin Ids
  BY DEF Complete, Typed, DriftConstants, ResourceKinds, Links
<1>2. Held' = Held /\ Held \subseteq Ids
  BY SameRemote DEF Held
<1>3. Queues => InHand'
  BY DEF Queues, InHand
<1>4. CASE l.id = None
  <2>1. Held = {} /\ RepairMissing
    BY <1>1, <1>2, <1>4 DEF Sees, Repair
  <2>2. CASE want
    BY <1>3, <2>1, <2>2, RepairQueues DEF RepairMissing
  <2>3. CASE ~want
    <3>1. \A i \in Ids : remote[i] = Absent
      BY <2>1 DEF Held
    <3>2. Matches'
      BY <2>3, <3>1 DEF Matches, Active, Absent
    <3> QED  BY <3>2 DEF InHand
  <2> QED  BY <2>2, <2>3
<1>5. CASE l.id # None
  <2>1. Held = {l.id} /\ l.is = remote[l.id] /\ RepairListed(l) /\ l.id \in Ids
    BY <1>1, <1>2, <1>5 DEF Sees, Repair
  <2>2. \A i \in Ids \ {l.id} : remote[i] = Absent
    BY <2>1 DEF Held
  <2>3. CASE ~(Managed /\ Linked(l)) /\ ~(kind = "group" /\ want)
    <3>1. Keeps /\ link' = link
      BY <2>1, <2>3 DEF RepairListed
    <3>2. CASE ~Managed
      <4>1. ~Managed'
        BY <3>1, <3>2 DEF Keeps, Managed
      <4> QED  BY <4>1 DEF InHand, Stuck
    <3>3. CASE ~Linked(l)
      <4>1. link' \in Ids /\ link' \notin Held' /\ Held' # {}
        BY <1>1, <1>2, <2>1, <3>1, <3>3 DEF Linked
      <4> QED  BY <4>1 DEF InHand, Stuck
    <3> QED  BY <2>3, <3>2, <3>3
  <2>4. CASE (Managed /\ Linked(l)) \/ (kind = "group" /\ want)
    <3>1. CASE want /\ (kind = "group" \/ l.is # "active")
      BY <1>3, <2>1, <2>4, <3>1, RepairQueues DEF RepairListed
    <3>2. CASE ~want /\ Active(l.is)
      <4>1. ~(~(Managed /\ Linked(l)) /\ ~(kind = "group" /\ want))
        BY <2>4
      <4>2. QueueDesiredState(HoldRow, FALSE)
        BY <2>1, <3>2, <4>1 DEF RepairListed
      <4> QED  BY <1>3, <4>2, RepairQueues
    <3>3. CASE want /\ l.is = "active"
      BY <2>1, <3>3 DEF Matches, InHand
    <3>4. CASE ~want /\ ~Active(l.is)
      <4>1. \A i \in Ids : ~Active(remote[i])
        BY <2>1, <2>2, <3>4 DEF Active, Absent
      <4> QED  BY <3>4, <4>1 DEF Matches, InHand, Active
    <3> QED  BY <1>1, <3>1, <3>2, <3>3, <3>4
  <2> QED  BY <2>3, <2>4
<1> QED  BY <1>4, <1>5

\* The invariant is kept by ReconcileDrift, which compares and repairs.
LEMMA DriftStep ==
    ASSUME DriftInv, NEW w \in Workers, ReconcileDrift(w)
    PROVE  DriftInv'
<1>1. /\ worker[w].at = "listed" /\ worker' = [worker EXCEPT ![w].at = "compared"]
      /\ UNCHANGED <<kind, want, hold, job, sending, tries, remote, late, budget>>
  BY DEF ReconcileDrift
<1>2. Typed /\ worker \in [Workers -> Working] /\ worker[w].listing \in Listings
  BY DEF DriftInv, Typed, Working
<1>3. /\ worker' \in [Workers -> Working]
           /\ \A v \in Workers \ {w} : worker'[v] = worker[v]
      /\ worker'[w].at = "compared" /\ worker'[w].listing = worker[w].listing
           /\ worker'[w].repair = worker[w].repair
  <2>1. \A a \in {"compared"} : LET x == [worker EXCEPT ![w].at = a] IN
          /\ x \in [Workers -> Working] /\ \A v \in Workers \ {w} : x[v] = worker[v]
          /\ x[w].at = a /\ x[w].listing = worker[w].listing
               /\ x[w].repair = worker[w].repair
    BY <1>2 DEF Working
  <2> QED  BY <1>1, <2>1
<1>4. PICK l \in Listings : l = worker[w].listing
  BY <1>2
<1>5. (worker[w].repair /\ Repair(l)) \/ (~worker[w].repair /\ link' = link /\ Keeps)
  BY <1>4 DEF ReconcileDrift
<1>6. Repaired(l)
  BY <1>2, <1>5, RepairOutcome DEF Repaired, Typed
<1>7. Typed'
  <2>1. row' \in Rowed /\ queue' \in Seq(BOOLEAN) /\ Len(queue') \in 0 .. 2
    BY <1>6 DEF Repaired, Queues, Maps, Keeps, DriftInv, Typed, Rowed
  <2>2. sending'.at # "idle" => queue' # <<>>
    BY <1>1, <1>6 DEF Repaired, Queues, Maps, Keeps, DriftInv, Typed
  <2>3. link' \in Links
    BY <1>6 DEF Repaired
  <2> QED  BY <1>1, <1>3, <2>1, <2>2, <2>3 DEF DriftInv, Typed, DriftConstants, Rowed, Working
<1>8. ASSUME hold PROVE link' # "started" /\ \A v \in Workers : Shows(worker[v])'
  <2>1. link # "started"
    BY <1>8, HeldLink
  <2>2. link' # "started"
    <3>1. "started" \notin Ids
      BY DEF DriftInv, Typed, DriftConstants
    <3> QED  BY <1>6, <2>1, <3>1 DEF Repaired
  <2>3. InHand => InHand'
    BY <1>1, <1>2, <1>6, <2>1, RepairKeepsSettled
  <2>4. ASSUME NEW v \in Workers, v # w PROVE Shows(worker[v])'
    <3>1. Shows(worker[v]) /\ worker'[v] = worker[v]
      BY <1>3, <1>8, <2>4 DEF DriftInv
    <3> QED  BY <1>1, <2>3, <3>1, SameRemote DEF Shows, Sees, Complete
  <2>5. Shows(worker[w])'
    <3>1. SUFFICES ASSUME worker[w].listing.fresh, Complete(worker[w].listing),
          worker[w].repair
                   PROVE  InHand'
      BY <1>3 DEF Shows, Complete
    <3>2. Sees(l) /\ Complete(l) /\ Repair(l)
      BY <1>1, <1>4, <1>5, <1>8, <3>1 DEF DriftInv, Shows
    <3> QED  BY <1>1, <1>2, <2>1, <3>2, RepairSettles
  <2> QED  BY <2>2, <2>4, <2>5
<1> QED  BY <1>1, <1>7, <1>8, Calm

\* One worker rests, the others go on.
LEMMA IdleWorker ==
    ASSUME DriftInv, NEW w \in Workers, worker' = [worker EXCEPT ![w] = Resting]
    PROVE  /\ worker' \in [Workers -> Working] /\ worker'[w] = Resting
           /\ \A v \in Workers \ {w} : worker'[v] = worker[v]
<1>1. worker \in [Workers -> Working]
  BY DEF DriftInv, Typed, Working
<1> QED  BY <1>1, IdleFacts

\* The invariant is kept by FinishReconcileJob.
LEMMA FinishJobStep ==
    ASSUME DriftInv, NEW w \in Workers, FinishReconcileJob(w)
    PROVE  DriftInv'
<1>1. /\ worker' = [worker EXCEPT ![w] = Resting]
      /\ UNCHANGED <<kind, want, row, queue, link, sending, tries, remote, late, budget>>
  BY DEF FinishReconcileJob
<1>2. hold' \in BOOLEAN /\ (hold' => hold)
  BY DEF FinishReconcileJob, DriftInv, Typed
<1>3. job' \in Jobs /\ (job'.owner # None => job'.status = "running")
  <2>1. NoJob \in Jobs /\ NoJob.owner = None
    BY DEF DriftInv, Typed, DriftConstants, NoJob, Jobs
  <2> QED  BY <2>1 DEF FinishReconcileJob, DriftInv, Typed, Jobs
<1>4. Typed'
  BY <1>1, <1>2, <1>3, IdleWorker DEF DriftInv, Typed, DriftConstants, Working, Jobs
<1>5. ASSUME hold, NEW v \in Workers PROVE Shows(worker[v])'
  <2>1. CASE v = w
    BY <1>1, <2>1, IdleWorker, IdleFacts DEF Shows
  <2>2. CASE v # w
    BY <1>1, <1>5, <2>2, IdleWorker, WorkerKept
  <2> QED  BY <2>1, <2>2
<1>6. hold => link' # "started"
  BY <1>1, HeldLink
<1> QED  BY <1>1, <1>2, <1>4, <1>5, <1>6, Calm

\* The invariant is kept when an operator resumes provisioning.
LEMMA LiftStep ==
    ASSUME DriftInv, ResumeProvisioning
    PROVE  DriftInv'
<1>1. /\ hold' = FALSE
      /\ UNCHANGED <<kind, want, row, queue, link, job, worker, sending, tries, remote, late, budget>>
  BY DEF ResumeProvisioning
<1>2. Typed'
  <2>1. DriftConstants'
    BY DEF DriftInv, Typed, DriftConstants
  <2>2. hold' \in BOOLEAN
    BY <1>1
  <2> QED  BY <1>1, <2>1, <2>2 DEF DriftInv, Typed
<1>3. hold => link' # "started"
  BY <1>1, HeldLink
<1> QED  BY <1>1, <1>2, <1>3, Calm

\* The invariant is kept by Restart.
LEMMA RestartStep ==
    ASSUME DriftInv, Restart
    PROVE  DriftInv'
<1>1. /\ worker' = [w \in Workers |-> Resting] /\ Upset
      /\ UNCHANGED <<kind, want, row, queue, link, hold, job, tries, remote, late>>
      /\ sending' = IF Fenced THEN [Rest EXCEPT !.at = "uncertain"] ELSE sending
  BY DEF Restart, local
<1>2. worker' \in [Workers -> Working] /\ \A w \in Workers : ~worker'[w].listing.fresh
  BY <1>1, IdleFacts
<1>3. budget' \in 0 .. MaxUpsets
  BY <1>1, UpsetFacts DEF DriftInv
<1>4. /\ Fenced => sending' = [at |-> "uncertain", id |-> None, started |-> FALSE]
      /\ ~Fenced => sending' = sending
  BY <1>1 DEF Rest
<1>5. sending' \in Sent /\ (Fenced => sending'.at = "uncertain")
  <2>1. CASE Fenced
    <3>1. [at |-> "uncertain", id |-> None, started |-> FALSE] \in Sent
      BY DEF Sent, Sends
    <3>2. sending'.at = "uncertain"
      BY <1>4, <2>1
    <3> QED  BY <1>4, <2>1, <3>1, <3>2
  <2>2. CASE ~Fenced
    BY <1>4, <2>2 DEF DriftInv, Typed
  <2> QED  BY <2>1, <2>2
<1>6. Typed'
  BY <1>1, <1>2, <1>3, <1>4, <1>5 DEF DriftInv, Typed, DriftConstants, Working, Fenced
<1>7. CreatesOnce'
  <2>1. late => Fenced
    BY DEF DriftInv, CreatesOnce, At, Fenced
  <2> QED  BY <1>1, <1>4, <1>5, <2>1, SameRemote DEF DriftInv, CreatesOnce, At
<1>8. HeldBack'
  BY <1>1, <1>4, HeldLink DEF HeldBack
<1>9. \A w \in Workers : Shows(worker[w])'
  BY <1>2 DEF Shows
<1> QED  BY <1>6, <1>7, <1>8, <1>9 DEF DriftInv

\* The constants are what ScimDrift assumes.
LEMMA DriftConstantsHold == DriftConstants
BY LimitsArePositive, NoneIsNothing, IdsAreNotMarkers
   DEF DriftConstants, LimitsArePositive, NoneIsNothing, IdsAreNotMarkers

\* The invariant holds at the start.
LEMMA DriftInvInit ==
    ASSUME DriftInit, DriftConstants
    PROVE  DriftInv
<1>1. FirstId \in Ids
  BY DEF DriftConstants, FirstId
<1>2. Rest \in Sent /\ Rest.at = "idle"
  BY DEF Rest, Sent, Sends
<1>3. row \in Rowed
  <2>1. NoRow \in Rowed /\ \A a,
        p \in BOOLEAN : [exists |-> TRUE, active |-> a, provisioned |-> p] \in Rowed
    BY DEF NoRow, Rowed
  <2>2. row = NoRow \/ \E p \in BOOLEAN : row = [exists |-> TRUE, active |-> want, provisioned |-> p]
    BY DEF DriftInit
  <2>3. want \in BOOLEAN
    BY DEF DriftInit
  <2> QED  BY <2>1, <2>2, <2>3
<1>4. queue = <<>> /\ queue \in Seq(BOOLEAN) /\ Len(queue) \in 0 .. 2
  BY DEF DriftInit
<1>5. link \in Links
  BY <1>1 DEF DriftInit, Links
<1>6. job \in Jobs /\ job.owner = None
  BY DEF DriftInit, NoJob, Jobs, DriftConstants
<1>7. worker \in [Workers -> Working] /\ \A w \in Workers : ~worker[w].listing.fresh
  BY IdleFacts DEF DriftInit
<1>8. remote \in [Ids -> Present \cup {Absent}] /\ OneAccount
  BY DEF DriftInit, Present, OneAccount, Held
<1>9. Typed
  <2>1. tries \in 0 .. DeliveryLimit /\ budget \in 0 .. MaxUpsets /\ sending = Rest
        /\ late = FALSE
    BY DEF DriftInit, DriftConstants
  <2> QED  BY <1>2, <1>3, <1>4, <1>5, <1>6, <1>7, <1>8, <2>1 DEF DriftInit, Typed, Rowed, Jobs,
      Working, DriftConstants
<1>10. CreatesOnce
  BY <1>2, <1>8 DEF DriftInit, CreatesOnce
<1>11. HeldBack
  BY <1>1 DEF DriftInit, HeldBack, DriftConstants
<1>12. \A w \in Workers : Shows(worker[w])
  BY <1>7 DEF Shows
<1> QED  BY <1>9, <1>10, <1>11, <1>12 DEF DriftInv

\* Every step keeps the invariant.
LEMMA DriftInvNext ==
    ASSUME DriftInv, [DriftNext]_driftVars
    PROVE  DriftInv'
<1>1. CASE DeliveryStep
  BY <1>1, BeginStep, FindStep, SaveLinkStep, StartStep, CreateAtTargetStep, ConflictStep,
       VerifyStep,
       WriteStep,
     UnlinkStep, FinishStep DEF DeliveryStep
<1>2. CASE DeliveryFault
  BY <1>2, ReadFailsStep, UnansweredStep, RejectStep, WriteFailsStep DEF DeliveryFault
<1>3. CASE Operator
  <2>1. CASE Upset /\ CreateReconcileJob("preview")
    BY <2>1, UpsetFacts, CreateJobStep DEF DriftInv
  <2> QED  BY <1>3, <2>1, AccessStep, RetryStep, LiftStep, ResumeStep DEF Operator
<1>4. CASE ScheduleReconcileJobs
  <2>1. budget' \in 0 .. MaxUpsets
    BY <1>4 DEF ScheduleReconcileJobs, DriftInv, Typed
  <2> QED  BY <1>4, <2>1, CreateJobStep DEF ScheduleReconcileJobs
<1>5. ASSUME NEW w \in Workers, JobStep(w) PROVE DriftInv'
  BY <1>5, ClaimStep, ListStep, DriftStep, FinishJobStep DEF JobStep
<1>6. CASE UNCHANGED driftVars
  <2>1. UNCHANGED <<local, sending, tries, remote, late, job, worker, budget>>
    BY <1>6 DEF driftVars, local
  <2>2. job \in Jobs /\ worker \in [Workers -> Working]
    BY DEF DriftInv, Typed, Jobs, Working
  <2> QED  BY <2>1, <2>2, JobStepInv DEF DriftInv, Typed
<1> QED
  BY <1>1, <1>2, <1>3, <1>4, <1>5, <1>6, ForeignStep, AccessStep, RetryStep, LeaseStep,
       RestartStep DEF DriftNext

\* A queue of at most two events.
LEMMA QueueTyped ==
    ASSUME NEW q \in Seq(BOOLEAN), Len(q) \in 0 .. 2
    PROVE  q \in {<<>>} \cup [{1} -> BOOLEAN] \cup [1 .. 2 -> BOOLEAN]
<1>1. q \in [1 .. Len(q) -> BOOLEAN]
  OBVIOUS
<1>2. CASE Len(q) = 0
  BY <1>2
<1>3. CASE Len(q) = 1
  <2>1. 1 .. 1 = {1}
    OBVIOUS
  <2> QED  BY <1>1, <1>3, <2>1
<1>4. CASE Len(q) = 2
  BY <1>1, <1>4
<1> QED  BY <1>2, <1>3, <1>4

\* The invariant implies the type invariant.
LEMMA DriftTyped ==
    ASSUME DriftInv
    PROVE  DriftTypeOK
<1>1. queue \in {<<>>} \cup [{1} -> BOOLEAN] \cup [1 .. 2 -> BOOLEAN]
  BY QueueTyped DEF DriftInv, Typed
<1>2. sending \in [at : Sends, id : Ids \cup {None}, started : BOOLEAN]
  BY DEF DriftInv, Typed, Sent
<1> QED  BY <1>1, <1>2 DEF DriftInv, Typed, DriftTypeOK

\* Links, queue, job, workers and target keep their types through lost answers and restarts.
THEOREM DriftTypeCorrect == DriftSpec => []DriftTypeOK
<1>1. DriftInit => DriftInv
  BY DriftInvInit, DriftConstantsHold
<1>2. DriftInv /\ [DriftNext]_driftVars => DriftInv'
  BY DriftInvNext
<1>3. DriftInv => DriftTypeOK
  BY DriftTyped
<1> QED  BY <1>1, <1>2, <1>3, PTL DEF DriftSpec

\* However deliveries, late creates, foreign changes, repairs and restarts fall, the target never
\* holds two accounts of one user (StartSCIMCreate, ResolveConflict and RejectSCIMCreate).
THEOREM NeverTwoAccounts == DriftSpec => []OneAccount
<1>1. DriftInit => DriftInv
  BY DriftInvInit, DriftConstantsHold
<1>2. DriftInv /\ [DriftNext]_driftVars => DriftInv'
  BY DriftInvNext
<1>3. DriftInv => OneAccount
  BY DEF DriftInv, CreatesOnce
<1> QED  BY <1>1, <1>2, <1>3, PTL DEF DriftSpec

\* Whoever lifts a hold: the worker that ends its job, and no worker with an operator.
LEMMA HoldLifted ==
    ASSUME DriftInv, [DriftNext]_driftVars, hold, ~hold', NEW w \in Workers,
           worker[w].at = "compared", worker'[w].at = "idle"
    PROVE  FinishReconcileJob(w) /\ job.owner = w /\ Evidence(w)
<1>1. hold' # hold /\ worker'[w] # worker[w]
  OBVIOUS
<1>2. ~DeliveryStep /\ ~DeliveryFault
  BY <1>1 DEF DeliveryStep, DeliveryFault, BeginSyncDelivery,
       FindSCIMResource, SaveSCIMLink, StartSCIMCreate,
     CreateSCIM, ResolveConflict, VerifyMapping, WriteSCIM,
         DeleteSCIMLink, FinishSyncDelivery, ReadFails,
     CreateUnanswered, RejectSCIMCreate, WriteFails, Delivering
<1>3. ~Foreign
  BY <1>1 DEF Foreign, TargetRestored, LateCreate, TargetEdits,
       LateCreateDies, ForeignChange, local
<1>4. ~Operator
  BY <1>1 DEF Operator, ChangeAccess, RetryProvisioning,
       ResumeProvisioning, ResumeSyncDelivery, CreateReconcileJob, local
<1>5. ~ScheduleReconcileJobs /\ ~AccessLapses /\ ~ReconcileProvisioning
      /\ ~LeaseLapses /\ ~Restart /\ ~UNCHANGED driftVars
  BY <1>1 DEF ScheduleReconcileJobs, CreateReconcileJob, AccessLapses,
       ReconcileProvisioning, LeaseLapses, Restart, driftVars, local
<1>6. PICK v \in Workers : JobStep(v)
  BY <1>2, <1>3, <1>4, <1>5 DEF DriftNext
<1>7. FinishReconcileJob(v)
  BY <1>1, <1>6 DEF JobStep, ClaimReconcileJob, ListRemote,
       ReconcileDrift, local
<1>8. v = w
  BY <1>1, <1>7, IdleWorker DEF FinishReconcileJob
<1> QED  BY <1>1, <1>7, <1>8 DEF FinishReconcileJob

\* A repair that listed the target completely, and since whose listing nothing foreign changed,
\* lifts the hold only where the target already holds what the directory wants, is in a state
\* only an operator can leave, or has what brings it there in the queue (FinishReconcileJob).
THEOREM HoldsLiftOnEvidence == DriftSpec => ReleaseIsEvidence
<1> DEFINE A == \A w \in Workers :
         (hold /\ ~hold' /\ worker[w].at = "compared" /\ worker'[w].at = "idle"
            /\ worker[w].listing.fresh)
           => Matches \/ Stuck \/ queue # <<>>
<1>1. DriftInit => DriftInv
  BY DriftInvInit, DriftConstantsHold
<1>2. DriftInv /\ [DriftNext]_driftVars => DriftInv'
  BY DriftInvNext
<1>3. ASSUME DriftInv, [DriftNext]_driftVars, NEW w \in Workers, hold, ~hold',
             worker[w].at = "compared",
             worker'[w].at = "idle", worker[w].listing.fresh
      PROVE  Matches \/ Stuck \/ queue # <<>>
  <2>1. Evidence(w)
    BY <1>3, HoldLifted
  <2>2. InHand
    BY <1>3, <2>1 DEF DriftInv, Shows, Evidence
  <2> QED  BY <2>2 DEF InHand
<1>4. DriftInv /\ [DriftNext]_driftVars => A
  BY <1>3
<1> QED  BY <1>1, <1>2, <1>4, PTL DEF DriftSpec, ReleaseIsEvidence
=============================================================================
