-------------------------- MODULE DirectoryProofs ---------------------------
(***************************************************************************)
(* What AccountLifecycle guarantees for any number of accounts, edits in   *)
(* progress and instants, and what InboundGroups guarantees for any number *)
(* of groups, names, factors, grace periods and overlapping requests.      *)
(***************************************************************************)
EXTENDS AccountLifecycle, InboundGroups, FiniteSetTheorems, TLAPS

-----------------------------------------------------------------------------
(* Rows                                                                    *)

\* scanUser gives a row.
LEMMA ScanRow ==
    ASSUME NEW a \in Account
    PROVE  Scan(a) \in Account /\ Scan(a).exists = a.exists
  BY DEF Scan, Account

\* A deleted row, whose columns stay.
LEMMA DepartedRow == ASSUME NEW a \in Account PROVE [a EXCEPT !.exists = FALSE] \in Account
  <1>1. ASSUME NEW b \in BOOLEAN PROVE [a EXCEPT !.exists = b] \in Account
    BY DEF Account
  <1> QED
    BY <1>1

\* A row that the disconnection made local.
LEMMA LocalRow ==
    ASSUME NEW a \in Account, NEW st \in {"active", "disabled"}
    PROVE  LET l == [a EXCEPT !.owned = FALSE, !.sourceActive = TRUE, !.localOff = FALSE,
                              !.status = st]
           IN  l \in Account /\ l.exists = a.exists
  <1>1. ASSUME NEW b \in BOOLEAN, NEW c \in BOOLEAN, NEW d \in BOOLEAN
        PROVE  LET l == [a EXCEPT !.owned = b, !.sourceActive = c, !.localOff = d, !.status = st]
               IN  l \in Account /\ l.exists = a.exists
    BY DEF Account
  <1> QED
    BY <1>1

\* ApplySourceState gives a row.
LEMMA SourceRow ==
    ASSUME NEW a \in Account
    PROVE  ApplySourceState(a) \in Account /\ ApplySourceState(a).exists = a.exists
  <1>1. ASSUME NEW st \in {"active", "disabled"}
        PROVE  [a EXCEPT !.status = st] \in Account /\ [a EXCEPT !.status = st].exists = a.exists
    BY DEF Account
  <1>2. \/ ApplySourceState(a) = a
        \/ ApplySourceState(a) = [a EXCEPT !.status = "active"]
        \/ ApplySourceState(a) = [a EXCEPT !.status = "disabled"]
    BY DEF ApplySourceState
  <1> QED
    BY <1>1, <1>2

\* So does UpdateUser's form.
LEMMA FilledRow ==
    ASSUME NEW a \in Account, NEW role \in {"admin", "user"}, NEW st \in {"active", "disabled"},
           NEW e \in Instants \cup {Never}
    PROVE  Filled(a, role, st, e) \in Account /\ Filled(a, role, st, e).exists = a.exists
  <1> DEFINE f == [a EXCEPT !.role = role, !.status = st, !.end = e]
  <1>1. f \in Account /\ f.exists = a.exists
    BY DEF Account
  <1> HIDE DEF f
  <1>2. ASSUME NEW b \in BOOLEAN
        PROVE  /\ ApplySourceState([f EXCEPT !.localOff = b]) \in Account
               /\ ApplySourceState([f EXCEPT !.localOff = b]).exists = a.exists
    <2> DEFINE g == [f EXCEPT !.localOff = b]
    <2>1. g \in Account /\ g.exists = a.exists
      BY <1>1 DEF Account
    <2> HIDE DEF g
    <2>2. ApplySourceState(g) \in Account /\ ApplySourceState(g).exists = a.exists
      BY <2>1, SourceRow
    <2> QED
      BY <2>2 DEF g
  <1>3. Filled(a, role, st, e) =
          IF a.owned THEN ApplySourceState([f EXCEPT !.localOff = (st = "disabled")]) ELSE f
    BY DEF Filled, f
  <1> QED
    BY <1>1, <1>2, <1>3

\* And updateUser's merge with the row of the transaction.
LEMMA MergedRow ==
    ASSUME NEW f \in Account, NEW a \in Account
    PROVE  Merged(f, a) \in Account /\ Merged(f, a).exists = f.exists
  <1> DEFINE g == [f EXCEPT !.owned = a.owned, !.sourceActive = a.sourceActive]
  <1>1. a.owned \in BOOLEAN /\ a.sourceActive \in BOOLEAN
    BY DEF Account
  <1>2. ASSUME NEW b \in BOOLEAN, NEW c \in BOOLEAN
        PROVE  LET h == [f EXCEPT !.owned = b, !.sourceActive = c] IN
               h \in Account /\ h.exists = f.exists
    BY DEF Account
  <1>4. g \in Account /\ g.exists = f.exists
    BY <1>1, <1>2
  <1> HIDE DEF g
  <1>3. ApplySourceState(g) \in Account /\ ApplySourceState(g).exists = f.exists
    BY <1>4, SourceRow
  <1> QED
    BY <1>3 DEF Merged, g

-----------------------------------------------------------------------------
(* Types                                                                   *)

\* A form is only opened over an account that is there.
FormsExist == \A r \in Requests : edit[r].open => edit[r].row.exists

\* TypeOK, strengthened to be inductive.
Typed == TypeOK /\ FormsExist

\* An open edit has its row.
LEMMA OpenEdit ==
    ASSUME Typed, NEW r \in Requests, edit[r].open
    PROVE  edit[r].user \in Users /\ edit[r].row \in Account /\ edit[r].row.exists
  <1>1. edit[r] \in Edit \cup {NoEdit}
    BY DEF Typed, TypeOK
  <1>2. edit[r] # NoEdit
    BY DEF NoEdit
  <1>3. edit[r] \in Edit
    BY <1>1, <1>2
  <1> QED
    BY <1>3 DEF Edit, Typed, FormsExist

\* The counter of writes stays within its bound.
LEMMA CountedWrite == ASSUME writes \in 0..MaxWrites, MayWrite PROVE writes' \in 0..MaxWrites
  BY TimeAssumption DEF MayWrite

\* Everything but the rows and their sessions, for the steps of the writers.
LEMMA TypedFrame ==
    ASSUME Typed, MayWrite, clock' = clock, pass' = pass, edit' = edit,
           acct' \in [Users -> Account], sessions' \subseteq {v \in Users : acct'[v].exists}
    PROVE  Typed'
  BY CountedWrite DEF Typed, TypeOK, FormsExist

\* What SaveUser is about to write is a row of an account that is there.
LEMMA SavedRow ==
    ASSUME Typed, NEW r \in Requests, edit[r].open, NEW role \in {"admin", "user"},
           NEW st \in {"active", "disabled"}, NEW e \in Instants \cup {Never}, NEW given \in BOOLEAN
    PROVE  LET form == IF given THEN Filled(edit[r].row, role, st, e)
                       ELSE [edit[r].row EXCEPT !.role = role, !.end = e]
               new == Merged(form, acct[edit[r].user])
           IN  new \in Account /\ new.exists
  <1> DEFINE seen == edit[r].row
             u == edit[r].user
             form == IF given THEN Filled(seen, role, st, e) ELSE [seen EXCEPT !.role = role, !.end = e]
  <1>1. u \in Users /\ seen \in Account /\ seen.exists
    BY OpenEdit
  <1>2. acct[u] \in Account
    BY <1>1 DEF Typed, TypeOK
  <1> HIDE DEF seen, u
  <1>3. Filled(seen, role, st, e) \in Account /\ Filled(seen, role, st, e).exists
    BY <1>1, FilledRow
  <1>4. [seen EXCEPT !.role = role, !.end = e] \in Account
        /\ [seen EXCEPT !.role = role, !.end = e].exists
    BY <1>1 DEF Account
  <1>5. form \in Account /\ form.exists
    BY <1>3, <1>4
  <1> HIDE DEF form
  <1>6. Merged(form, acct[u]) \in Account /\ Merged(form, acct[u]).exists
    BY <1>2, <1>5, MergedRow
  <1> QED
    BY <1>6 DEF form, seen, u

\* UpdateUser's second half keeps the types.
LEMMA TypedSave ==
    ASSUME Typed, NEW r \in Requests, NEW role \in {"admin", "user"},
           NEW st \in {"active", "disabled"}, NEW e \in Instants \cup {Never},
           NEW given \in BOOLEAN, NEW password \in BOOLEAN,
           SaveUser(r, role, st, e, given, password)
    PROVE  Typed'
  <1> DEFINE u == edit[r].user
             form == IF given THEN Filled(edit[r].row, role, st, e)
                     ELSE [edit[r].row EXCEPT !.role = role, !.end = e]
             new == Merged(form, acct[u])
  <1>1. edit[r].open /\ MayWrite /\ edit' = [edit EXCEPT ![r] = NoEdit]
        /\ clock' = clock /\ pass' = pass
    BY DEF SaveUser
  <1>2. u \in Users /\ new \in Account /\ new.exists
    BY <1>1, OpenEdit, SavedRow
  <1>3. \/ UNCHANGED <<acct, sessions>>
        \/ acct' = [acct EXCEPT ![u] = new] /\ sessions' \in {sessions \ {u}, sessions}
    BY DEF SaveUser, Write
  <1> HIDE DEF u, form, new
  <1>4. acct' \in [Users -> Account] /\ sessions' \subseteq {v \in Users : acct'[v].exists}
    BY <1>2, <1>3 DEF Typed, TypeOK
  <1>5. edit' \in [Requests -> Edit \cup {NoEdit}] /\ FormsExist'
    BY <1>1 DEF Typed, TypeOK, FormsExist, NoEdit
  <1> QED
    BY <1>1, <1>4, <1>5, CountedWrite DEF Typed, TypeOK

\* A write of one row by the upstream keeps the types.
LEMMA TypedUpstream ==
    ASSUME Typed, NEW u \in Users, NEW active \in BOOLEAN, UpdateUpstreamUser(u, active)
    PROVE  Typed'
  <1> DEFINE g == [acct[u] EXCEPT !.sourceActive = active]
             new == ApplySourceState(g)
  <1>1. acct[u] \in Account /\ acct[u].exists
    BY DEF Typed, TypeOK, UpdateUpstreamUser, Accepts
  <1>2. g \in Account /\ g.exists
    BY <1>1 DEF Account
  <1> HIDE DEF g
  <1>3. new \in Account /\ new.exists
    BY <1>2, SourceRow
  <1>4. MayWrite /\ clock' = clock /\ edit' = edit /\ pass' = pass
        /\ acct' = [acct EXCEPT ![u] = new] /\ sessions' \in {sessions \ {u}, sessions}
    BY DEF UpdateUpstreamUser, Write, g
  <1> HIDE DEF new
  <1>5. acct' \in [Users -> Account] /\ sessions' \subseteq {v \in Users : acct'[v].exists}
    BY <1>3, <1>4 DEF Typed, TypeOK
  <1> QED
    BY <1>4, <1>5, TypedFrame

\* A deletion takes the sessions along.
LEMMA TypedDelete == ASSUME Typed, NEW u \in Users, DeleteUser(u) PROVE Typed'
  <1>1. MayWrite /\ clock' = clock /\ edit' = edit /\ pass' = pass
        /\ acct' = [acct EXCEPT ![u].exists = FALSE] /\ sessions' = sessions \ {u}
    BY DEF DeleteUser
  <1>2. [acct[u] EXCEPT !.exists = FALSE] \in Account
    BY DepartedRow DEF Typed, TypeOK
  <1>3. acct' \in [Users -> Account] /\ \A v \in Users \ {u} : acct'[v] = acct[v]
    BY <1>1, <1>2 DEF Typed, TypeOK
  <1>4. sessions' \subseteq {v \in Users : acct'[v].exists}
    BY <1>1, <1>3 DEF Typed, TypeOK
  <1> QED
    BY <1>1, <1>3, <1>4, TypedFrame

\* A disconnection turns upstream accounts into local ones.
LEMMA TypedDisconnect == ASSUME Typed, NEW off \in BOOLEAN, DeleteSCIMConnector(off) PROVE Typed'
  <1> DEFINE own == {u \in Users : acct[u].exists /\ acct[u].owned}
             next(u, st) == [acct[u] EXCEPT !.owned = FALSE, !.sourceActive = TRUE,
                                            !.localOff = FALSE, !.status = st]
  <1>1. MayWrite /\ clock' = clock /\ edit' = edit /\ pass' = pass
        /\ acct' = [u \in Users |-> IF u \notin own THEN acct[u]
                       ELSE next(u, IF off THEN "disabled" ELSE Scan(acct[u]).status)]
        /\ sessions' \subseteq sessions
    BY DEF DeleteSCIMConnector
  <1>2. ASSUME NEW u \in Users, NEW st \in {"active", "disabled"}
        PROVE  next(u, st) \in Account /\ next(u, st).exists = acct[u].exists
    BY LocalRow DEF Typed, TypeOK
  <1>3. ASSUME NEW u \in Users
        PROVE  (IF off THEN "disabled" ELSE Scan(acct[u]).status) \in {"active", "disabled"}
    BY ScanRow DEF Typed, TypeOK, Account
  <1> HIDE DEF next, own
  <1>4. acct' \in [Users -> Account] /\ \A u \in Users : acct'[u].exists = acct[u].exists
    BY <1>1, <1>2, <1>3 DEF Typed, TypeOK
  <1> QED
    BY <1>1, <1>4, TypedFrame DEF Typed, TypeOK

\* The follow-up writes one good row.
LEMMA TypedEnd == ASSUME Typed, NEW x \in Due, EndAccount(x) PROVE Typed'
  <1> DEFINE u == x.user
  <1>1. u \in Users /\ acct[u] \in Account
    BY DEF Due, Typed, TypeOK
  <1>2. [acct[u] EXCEPT !.end = Never] \in Account
        /\ [acct[u] EXCEPT !.end = Never].exists = acct[u].exists
    BY <1>1 DEF Account
  <1>3. [acct[u] EXCEPT !.status = "disabled", !.localOff = TRUE] \in Account
        /\ [acct[u] EXCEPT !.status = "disabled", !.localOff = TRUE].exists = acct[u].exists
    BY <1>1 DEF Account
  <1>4. /\ pass' \subseteq pass /\ clock' = clock /\ edit' = edit /\ writes' = writes
        /\ sessions' \subseteq sessions
        /\ \/ acct' = [acct EXCEPT ![u] = [acct[u] EXCEPT !.end = Never]]
           \/ acct' = [acct EXCEPT ![u] = [acct[u] EXCEPT !.status = "disabled", !.localOff = TRUE]]
    BY <1>1 DEF EndAccount, Typed, TypeOK
  <1>5. acct' \in [Users -> Account] /\ \A v \in Users : acct'[v].exists = acct[v].exists
    BY <1>1, <1>2, <1>3, <1>4 DEF Typed, TypeOK
  <1> QED
    BY <1>4, <1>5 DEF Typed, TypeOK, FormsExist

\* Every step keeps the types.
LEMMA TypedStep == ASSUME Typed, [Next]_vars PROVE Typed'
  <1>1. ASSUME NEW r \in Requests, NEW u \in Users, ReadUser(r, u) PROVE Typed'
    <2>1. Scan(acct[u]) \in Account /\ Scan(acct[u]).exists
      BY <1>1, ScanRow DEF ReadUser, Typed, TypeOK
    <2>2. [open |-> TRUE, user |-> u, row |-> Scan(acct[u])] \in Edit
      BY <2>1 DEF Edit
    <2>3. edit' \in [Requests -> Edit \cup {NoEdit}] /\ FormsExist'
      BY <1>1, <2>1, <2>2 DEF ReadUser, Typed, TypeOK, FormsExist
    <2> QED
      BY <1>1, <2>3 DEF ReadUser, Typed, TypeOK
  <1>2. ASSUME ReadEnded PROVE Typed'
    <2>1. pass' \subseteq Due
      BY <1>2 DEF ReadEnded, Due, Typed, TypeOK, Account
    <2> QED
      BY <1>2, <2>1 DEF ReadEnded, Typed, TypeOK, FormsExist
  <1>3. ASSUME NEW u \in Users, SignIn(u) \/ SessionEnds(u) PROVE Typed'
    BY <1>3 DEF SignIn, SessionEnds, Typed, TypeOK, FormsExist
  <1>4. ASSUME TimePasses PROVE Typed'
    BY <1>4, TimeAssumption DEF TimePasses, Typed, TypeOK, FormsExist, Instants
  <1>5. CASE UNCHANGED vars
    BY <1>5 DEF vars, Typed, TypeOK, FormsExist
  <1> QED
    BY <1>1, <1>2, <1>3, <1>4, <1>5, TypedSave, TypedUpstream, TypedDelete, TypedDisconnect,
       TypedEnd DEF Next

\* The initial rows.
LEMMA TypedInit == ASSUME Init PROVE Typed
  <1>1. ASSUME NEW role \in {"admin", "user"}, NEW b \in BOOLEAN, NEW c \in BOOLEAN,
               NEW d \in BOOLEAN, NEW e \in BOOLEAN
        PROVE  [exists |-> b, role |-> role, status |-> "active", end |-> Never, owned |-> c,
                sourceActive |-> d, localOff |-> e] \in Account
    BY DEF Account
  <1>2. acct \in [Users -> Account]
    <2>1. ASSUME NEW u \in Users
          PROVE  [exists |-> TRUE, role |-> IF u \in Admins THEN "admin" ELSE "user",
                  status |-> "active", end |-> Never, owned |-> u \in Upstream,
                  sourceActive |-> TRUE, localOff |-> FALSE] \in Account
      <3>1. (IF u \in Admins THEN "admin" ELSE "user") \in {"admin", "user"}
            /\ (u \in Upstream) \in BOOLEAN /\ TRUE \in BOOLEAN /\ FALSE \in BOOLEAN
        OBVIOUS
      <3> QED
        BY <1>1, <3>1
    <2> QED
      BY <2>1 DEF Init
  <1>3. clock \in Instants /\ writes \in 0..MaxWrites
    BY TimeAssumption DEF Init, Instants
  <1>4. edit \in [Requests -> Edit \cup {NoEdit}] /\ FormsExist
    BY DEF Init, FormsExist, NoEdit
  <1> QED
    BY <1>2, <1>3, <1>4 DEF Init, Typed, TypeOK

\* Rows, forms and the follow-up's list keep their shape and no session outlives its
\* account: DeleteUserWithSyncEvents and the whole-row write of updateUser included.
THEOREM TypeCorrect == Spec => []TypeOK
  <1>1. Spec => []Typed
    BY TypedInit, TypedStep, PTL DEF Spec
  <1> QED
    BY <1>1, PTL DEF Typed

-----------------------------------------------------------------------------
(* The last administrator                                                  *)

\* More than one administrator who can act: another one besides u.
LEMMA AnotherOne ==
    ASSUME NEW u, Cardinality(ActiveAdmins(acct)) > 1
    PROVE  \E v \in ActiveAdmins(acct) : v # u
  <1>1. Cardinality({}) = 0 /\ Cardinality({u}) = 1
    BY FS_EmptySet, FS_Singleton
  <1> DEFINE A == ActiveAdmins(acct)
  <1>2. Cardinality(A) > 1
    OBVIOUS
  <1> HIDE DEF A
  <1>3. A # {} /\ A # {u}
    BY <1>1, <1>2
  <1>4. \E v \in A : v # u
    BY <1>3
  <1> QED
    BY <1>4 DEF A

\* A row that passes updateUser's guards, in the place of the one it was compared with.
LEMMA AcceptedKeepsAdmin ==
    ASSUME Typed, ActiveAdmins(acct) # {}, NEW u \in Users, NEW new \in Account, new.exists,
           Accepts(acct[u], new), acct' = [acct EXCEPT ![u] = new]
    PROVE  ActiveAdmins(acct') # {}
  <1>1. \A v \in Users \ {u} : acct'[v] = acct[v]
    BY DEF Typed, TypeOK
  <1>2. acct'[u] = new
    BY DEF Typed, TypeOK
  <1>3. ASSUME NEW v \in ActiveAdmins(acct), v # u PROVE ActiveAdmins(acct') # {}
    BY <1>1, <1>3 DEF ActiveAdmins
  <1>4. CASE u \notin ActiveAdmins(acct)
    BY <1>3, <1>4
  <1>5. CASE u \in ActiveAdmins(acct)
    <2>1. acct[u].role = "admin" /\ Scan(acct[u]).status = "active" /\ ~Past(acct[u])
      BY <1>5 DEF ActiveAdmins, Scan
    <2>2. CASE Cardinality(ActiveAdmins(acct)) > 1
      BY <2>2, <1>3, AnotherOne
    <2>3. CASE ~(Cardinality(ActiveAdmins(acct)) > 1)
      <3>1. new.role = "admin" /\ new.status = "active" /\ ~SchedulingEnd(acct[u], new)
        BY <2>1, <2>3 DEF Accepts, KeepsAnAdmin
      <3>2. ~Past(new)
        BY <2>1, <3>1 DEF SchedulingEnd, Past
      <3>3. u \in ActiveAdmins(acct')
        BY <1>2, <3>1, <3>2 DEF ActiveAdmins
      <3> QED
        BY <3>3
    <2> QED
      BY <2>2, <2>3
  <1> QED
    BY <1>4, <1>5

\* A deletion leaves the others.
LEMMA DeleteKeepsAdmin ==
    ASSUME Typed, ActiveAdmins(acct) # {}, NEW u \in Users, DeleteUser(u)
    PROVE  ActiveAdmins(acct') # {}
  <1>1. \A v \in Users \ {u} : acct'[v] = acct[v]
    BY DEF Typed, TypeOK, DeleteUser
  <1>2. ASSUME NEW v \in ActiveAdmins(acct), v # u PROVE ActiveAdmins(acct') # {}
    BY <1>1, <1>2 DEF ActiveAdmins
  <1>3. u \in ActiveAdmins(acct) => Cardinality(ActiveAdmins(acct)) > 1
    BY DEF DeleteUser, ActiveAdmins, Scan
  <1> QED
    BY <1>2, <1>3, AnotherOne

\* A disconnection that disables leaves a local administrator, one that does not leaves all.
LEMMA DisconnectKeepsAdmin ==
    ASSUME Typed, ActiveAdmins(acct) # {}, NEW off \in BOOLEAN, DeleteSCIMConnector(off)
    PROVE  ActiveAdmins(acct') # {}
  <1> DEFINE own == {u \in Users : acct[u].exists /\ acct[u].owned}
  <1>1. ASSUME NEW v \in ActiveAdmins(acct), v \notin own PROVE ActiveAdmins(acct') # {}
    <2>1. v \in Users /\ acct'[v] = acct[v]
      BY <1>1 DEF DeleteSCIMConnector, ActiveAdmins
    <2> QED
      BY <2>1 DEF ActiveAdmins
  <1>2. CASE off
    BY <1>1, <1>2 DEF DeleteSCIMConnector
  <1>3. CASE ~off
    <2>1. PICK v \in ActiveAdmins(acct) : TRUE
      OBVIOUS
    <2>2. CASE v \in own
      <3>1. v \in Users /\ acct[v] \in Account /\ ~Past(acct[v]) /\ Scan(acct[v]) = acct[v]
            /\ acct[v].status = "active"
        BY DEF ActiveAdmins, Scan, Typed, TypeOK
      <3>2. acct'[v] = [acct[v] EXCEPT !.owned = FALSE, !.sourceActive = TRUE,
                                       !.localOff = FALSE, !.status = "active"]
        BY <1>3, <2>2, <3>1 DEF DeleteSCIMConnector
      <3>3. /\ acct'[v].exists = acct[v].exists /\ acct'[v].role = acct[v].role
            /\ acct'[v].end = acct[v].end /\ acct'[v].status = "active"
        BY <3>1, <3>2 DEF Account
      <3>4. ~Past(acct'[v])
        BY <3>1, <3>3 DEF Past
      <3>5. v \in ActiveAdmins(acct')
        BY <3>1, <3>3, <3>4 DEF ActiveAdmins
      <3> QED
        BY <3>5
    <2> QED
      BY <1>1, <2>1, <2>2
  <1> QED
    BY <1>2, <1>3

\* No edit, however old the row it was filled in from, no upstream write, deletion or
\* disconnection takes the last administrator who can act, for any number of accounts and
\* edits in progress: updateUser compares inside its transaction.
THEOREM AdminsOutliveWritesAlways == Spec => AdminsOutliveWrites
  <1> DEFINE A == ActiveAdmins(acct) # {} /\ writes' # writes => ActiveAdmins(acct') # {}
  <1>1. ASSUME Typed, [Next]_vars PROVE [A]_vars
    <2> SUFFICES ASSUME Next, ActiveAdmins(acct) # {}, writes' # writes
                 PROVE  ActiveAdmins(acct') # {}
      BY <1>1
    <2>1. ASSUME NEW r \in Requests, NEW role \in {"admin", "user"},
                 NEW st \in {"active", "disabled"}, NEW e \in Instants \cup {Never},
                 NEW given \in BOOLEAN, NEW password \in BOOLEAN,
                 SaveUser(r, role, st, e, given, password)
          PROVE  ActiveAdmins(acct') # {}
      <3> DEFINE u == edit[r].user
                 form == IF given THEN Filled(edit[r].row, role, st, e)
                         ELSE [edit[r].row EXCEPT !.role = role, !.end = e]
                 new == Merged(form, acct[u])
      <3>1. edit[r].open
        BY <2>1 DEF SaveUser
      <3>2. u \in Users /\ new \in Account /\ new.exists
        BY <1>1, <3>1, OpenEdit, SavedRow
      <3>3. acct' = acct \/ (Accepts(acct[u], new) /\ acct' = [acct EXCEPT ![u] = new])
        BY <2>1 DEF SaveUser, Write
      <3> HIDE DEF u, form, new
      <3> QED
        BY <1>1, <3>2, <3>3, AcceptedKeepsAdmin
    <2>2. ASSUME NEW u \in Users, NEW active \in BOOLEAN, UpdateUpstreamUser(u, active)
          PROVE  ActiveAdmins(acct') # {}
      <3> DEFINE g == [acct[u] EXCEPT !.sourceActive = active]
                 new == ApplySourceState(g)
      <3>1. acct[u] \in Account /\ acct[u].exists
        BY <1>1, <2>2 DEF Typed, TypeOK, UpdateUpstreamUser, Accepts
      <3>2. g \in Account /\ g.exists
        BY <3>1 DEF Account
      <3>3. Accepts(acct[u], new) /\ acct' = [acct EXCEPT ![u] = new]
        BY <2>2 DEF UpdateUpstreamUser, Write
      <3> HIDE DEF g
      <3>4. new \in Account /\ new.exists
        BY <3>2, SourceRow
      <3> HIDE DEF new
      <3> QED
        BY <1>1, <3>3, <3>4, AcceptedKeepsAdmin
    <2> QED
      BY <1>1, <2>1, <2>2, DeleteKeepsAdmin, DisconnectKeepsAdmin, ZenonT(30)
      DEF Next, ReadUser, SignIn, SessionEnds, ReadEnded, EndAccount, TimePasses
  <1>2. Spec => []Typed
    BY TypedInit, TypedStep, PTL DEF Spec
  <1> QED
    BY <1>1, <1>2, PTL DEF Spec, AdminsOutliveWrites

-----------------------------------------------------------------------------
(* Groups owned by an upstream, and the policies that require a factor     *)

\* What InboundGroups assumes of its constants.
GroupConstants ==
    /\ Root \in Accounts
    /\ {Local, Nobody} \cap Connectors = {} /\ Local # Nobody /\ Nobody \notin Accounts
    /\ Graces \subseteq Nat /\ None \notin Nat
    /\ MaxInstant \in Nat /\ MaxOps \in Nat

\* A group that was never created is not there and carries no policy.
UnusedGroup(g) == group[g].ver = 0 => ~There(g) /\ policy[g] = NotRequired

\* The types, an administrator who is there, and members who are.
GroupsBase ==
    /\ GroupConstants /\ GroupsTypeOK
    /\ admins # {}
    /\ \A g \in Groups : group[g].members \subseteq Here /\ UnusedGroup(g)

\* Some factor satisfies every policy that reaches an account, and each has its deadline.
Met(u) == Satisfiable(u) /\ \A s \in Applicable(u) : due[u][s] # None

\* What a request read: an older version of the group, or the same name and upstream members.
Seen(q) ==
    q # Free =>
        /\ q.op = "create" => ~q.conditional
        /\ q.seen.ver <= group[q.group].ver
        /\ q.seen.ver = group[q.group].ver =>
              q.seen.name = group[q.group].name /\ q.seen.upstream = group[q.group].upstream

\* The inductive invariant.
GroupsInv == GroupsBase /\ (\A u \in Here : Met(u))
    /\ \A r \in Writes : Seen(req[r])

\* The type of the deadlines.
Dues == [Accounts -> [Scopes -> Nat \cup {None}]]

\* Every deadline there is stays.
DuesStay == \A u \in Accounts, s \in Scopes : due[u][s] # None => due'[u][s] = due[u][s]

\* The triggers keep every deadline and start those of the policies that reach an account now.
LEMMA StartsFacts ==
    ASSUME GroupsBase, NEW us, NEW ss, Starts(us, ss),
           policy' \in [Scopes -> Required \cup {NotRequired}]
    PROVE  /\ due' \in Dues /\ DuesStay
           /\ \A u \in us \cap Accounts, s \in ss : s \in Applicable(u)' => due'[u][s] # None
<1>1. due \in Dues /\ now \in Nat /\ Graces \subseteq Nat /\ None \notin Nat
  BY DEF GroupsBase, GroupsTypeOK, Dues, GroupConstants
<1>2. \A u \in Accounts, s \in Scopes : s \in Applicable(u)' =>
      policy'[s].grace \in Nat
  <2>1. \A u \in Accounts, s \in Scopes : s \in Applicable(u)' =>
        policy'[s] \in Required
    BY DEF Applicable
  <2> QED  BY <1>1, <2>1 DEF Required
<1>3. ASSUME NEW u \in Accounts, NEW s \in Scopes
      PROVE  /\ due'[u][s] = IF u \in us /\ s \in ss /\ s \in Applicable(u)'
                  /\ due[u][s] = None
                             THEN now + policy'[s].grace ELSE due[u][s]
             /\ due[u][s] \in Nat \cup {None}
  BY <1>1 DEF Starts, Dues
<1>4. ASSUME NEW u \in Accounts, NEW s \in Scopes
      PROVE  /\ due'[u][s] \in Nat \cup {None}
             /\ due[u][s] # None => due'[u][s] = due[u][s]
             /\ u \in us /\ s \in ss /\ s \in Applicable(u)' => due'[u][s] # None
  <2>1. s \in Applicable(u)' => now + policy'[s].grace \in Nat
    BY <1>1, <1>2
  <2> QED  BY <1>1, <1>3, <2>1
<1>5. due' \in Dues
  <2>1. due' = [u \in Accounts |-> [s \in Scopes |-> due'[u][s]]]
    BY DEF Starts
  <2> QED  BY <1>4, <2>1 DEF Dues
<1>6. \A u \in Accounts : Applicable(u)' \subseteq Scopes
  BY DEF Applicable
<1> QED  BY <1>4, <1>5, <1>6 DEF DuesStay

\* Fewer policies, each as it was, are met by what met more.
LEMMA FewerPolicies ==
    ASSUME NEW u, NEW v, Satisfiable(v),
           Applicable(u)' \subseteq Applicable(v),
           \A s \in Applicable(u)' : policy'[s] = policy[s]
    PROVE  Satisfiable(u)'
<1>1. CASE Applicable(v) = {}
  BY <1>1 DEF Satisfiable
<1>2. CASE \E f \in Factors : \A s \in Applicable(v) : f \in policy[s].mask
  BY <1>2 DEF Satisfiable
<1> QED  BY <1>1, <1>2 DEF Satisfiable

\* An account that was there is met after a step that reaches it with no more policies, or
\* with one that has started.
LEMMA StaysMet ==
    ASSUME NEW u \in Accounts, Met(u), DuesStay, Satisfiable(u)',
           \A s \in Applicable(u)' : s \in Applicable(u) \/ due'[u][s] # None
    PROVE  Met(u)'
<1>1. Applicable(u) \subseteq Scopes
  BY DEF Applicable
<1> QED  BY <1>1 DEF Met, DuesStay

\* An account that is reached by no more policies than before stays met.
LEMMA SameMet ==
    ASSUME NEW u \in Accounts, Met(u), DuesStay,
           Applicable(u)' \subseteq Applicable(u),
           \A s \in Applicable(u)' : policy'[s] = policy[s]
    PROVE  Met(u)'
<1>1. Satisfiable(u)'
  BY FewerPolicies DEF Met
<1> QED  BY <1>1, StaysMet

\* A group row never changes its name or upstream members under its version.
Advances(g) ==
    /\ group[g].ver <= group'[g].ver
    /\ group[g].ver = group'[g].ver =>
          group'[g].name = group[g].name /\ group'[g].upstream = group[g].upstream

\* What a request read stays older, or the same, while the groups advance.
LEMMA SeenStays ==
    ASSUME GroupsTypeOK, GroupsTypeOK', NEW q \in Request \cup {Free},
           Seen(q), \A g \in Groups : Advances(g)
    PROVE  Seen(q)'
<1>1. CASE q = Free
  BY <1>1 DEF Seen
<1>2. CASE q # Free
  <2>1. q \in Request /\ q.group \in Groups /\ q.seen.ver \in Nat
    BY <1>2 DEF Request, Group
  <2>2. group[q.group].ver \in Nat /\ group'[q.group].ver \in Nat /\ Advances(q.group)
    BY <2>1 DEF GroupsTypeOK, Group
  <2> QED  BY <1>2, <2>1, <2>2 DEF Seen, Advances
<1> QED  BY <1>1, <1>2

\* So it does for every request under way.
LEMMA SeenAll ==
    ASSUME GroupsInv, GroupsTypeOK', \A g \in Groups : Advances(g),
           \A r \in Writes : req'[r] = req[r] \/ req'[r] = Free
    PROVE  \A r \in Writes : Seen(req[r])'
<1> SUFFICES ASSUME NEW r \in Writes PROVE Seen(req[r])'
  OBVIOUS
<1>1. PICK q \in Request \cup {Free} : q = req[r] /\ Seen(q)
  BY DEF GroupsInv, GroupsBase, GroupsTypeOK
<1>2. Seen(q)'
  BY <1>1, SeenStays DEF GroupsInv, GroupsBase
<1> QED  BY <1>1, <1>2 DEF Seen

\* Groups that do not change advance.
LEMMA SameGroups ==
    ASSUME GroupsTypeOK, group' = group
    PROVE  \A g \in Groups : Advances(g)
BY DEF GroupsTypeOK, Group, Advances

\* One row of the groups.
LEMMA RowFacts ==
    ASSUME GroupsTypeOK, NEW g \in Groups, NEW x \in Group,
           group' = [group EXCEPT ![g] = x]
    PROVE  /\ group' \in [Groups -> Group] /\ group'[g] = x
           /\ \A h \in Groups \ {g} : group'[h] = group[h]
BY DEF GroupsTypeOK

\* All groups advance if the one that changes does.
LEMMA RowAdvances ==
    ASSUME GroupsTypeOK, NEW g \in Groups, group'[g] \in Group, Advances(g),
           \A h \in Groups \ {g} : group'[h] = group[h]
    PROVE  \A h \in Groups : Advances(h)
BY DEF GroupsTypeOK, Group, Advances

\* The bound on operations is kept.
LEMMA OpFacts ==
    ASSUME GroupsBase, Op
    PROVE  ops' \in 0..MaxOps
BY DEF GroupsBase, GroupConstants, GroupsTypeOK, Op

\* The earlier of two deadlines.
LEMMA EarlierFacts ==
    ASSUME NEW a \in Nat \cup {None}, NEW b \in Nat, None \notin Nat
    PROVE  Earlier(a, b) \in Nat /\ (a # None => Earlier(a, b) <= a)
BY DEF Earlier

\* A policy edit gives a deadline to everyone it reaches, and moves none later.
LEMMA PolicyDues ==
    ASSUME GroupsBase, NEW s, NEW p, NEW admin, NEW recent,
           SetEnrollmentPolicy(s, p, admin, recent),
           policy' \in [Scopes -> Required \cup {NotRequired}]
    PROVE  /\ due' \in Dues
           /\ \A u \in Here : \A t \in Applicable(u)' : due'[u][t] # None
           /\ \A u \in Accounts, t \in Scopes : due[u][t] # None => due'[u][t] # None
                /\ due'[u][t] <= due[u][t]
<1>1. due \in Dues /\ now \in Nat /\ Graces \subseteq Nat /\ None \notin Nat
  BY DEF GroupsBase, GroupsTypeOK, Dues, GroupConstants
<1>2. \A u \in Accounts, t \in Scopes : t \in Applicable(u)' =>
      now + policy'[t].grace \in Nat
  <2>1. \A u \in Accounts, t \in Scopes : t \in Applicable(u)' =>
        policy'[t] \in Required
    BY DEF Applicable
  <2>2. \A u \in Accounts, t \in Scopes : t \in Applicable(u)' =>
        policy'[t].grace \in Nat
    BY <1>1, <2>1 DEF Required
  <2> QED  BY <1>1, <2>2
<1>3. ASSUME NEW u \in Accounts, NEW t \in Scopes
      PROVE  /\ due'[u][t] \in Nat \cup {None}
             /\ due[u][t] # None => due'[u][t] # None /\ due'[u][t] <= due[u][t]
             /\ t \in Applicable(u)' /\ u \in Here => due'[u][t] # None
  <2>1. due'[u][t] = IF t \in Applicable(u)'
        /\ u \in Here THEN Earlier(due[u][t], now + policy'[t].grace)
                     ELSE due[u][t]
    BY DEF SetEnrollmentPolicy
  <2>2. due[u][t] \in Nat \cup {None}
    BY <1>1 DEF Dues
  <2>3. CASE t \in Applicable(u)' /\ u \in Here
    BY <1>1, <1>2, <2>1, <2>2, <2>3, EarlierFacts
  <2>4. CASE ~(t \in Applicable(u)' /\ u \in Here)
    BY <1>1, <2>1, <2>2, <2>4
  <2> QED  BY <2>3, <2>4
<1>4. due' \in Dues
  <2>1. due' = [u \in Accounts |-> [t \in Scopes |-> due'[u][t]]]
    BY DEF SetEnrollmentPolicy
  <2> QED  BY <1>3, <2>1 DEF Dues
<1>5. \A u \in Accounts : Applicable(u)' \subseteq Scopes
  BY DEF Applicable
<1>6. Here \subseteq Accounts
  BY DEF Here
<1> QED  BY <1>3, <1>4, <1>5, <1>6

\* A policy edit leaves policies.
LEMMA PolicyTyped ==
    ASSUME GroupsBase, NEW s \in Scopes, NEW p \in Required \cup {NotRequired},
           NEW admin, NEW recent, SetEnrollmentPolicy(s, p, admin, recent)
    PROVE  policy' \in [Scopes -> Required \cup {NotRequired}]
BY DEF GroupsBase, GroupsTypeOK, SetEnrollmentPolicy

\* The invariant is kept by SetEnrollmentPolicy.
LEMMA PolicyStep ==
    ASSUME GroupsInv, NEW s \in Scopes, NEW p \in Required \cup {NotRequired},
           NEW admin, NEW recent, SetEnrollmentPolicy(s, p, admin, recent)
    PROVE  GroupsInv'
<1>0. GroupsBase
  BY DEF GroupsInv
<1>1. policy' \in [Scopes -> Required \cup {NotRequired}]
      /\ policy' = [policy EXCEPT ![s] = p]
  BY <1>0, PolicyTyped DEF SetEnrollmentPolicy
<1>2. UNCHANGED <<owner, admins, delegates, removed, group, req, now>>
      /\ ops' \in 0..MaxOps
  BY <1>0, OpFacts DEF SetEnrollmentPolicy, directory
<1>3. due' \in Dues /\ \A u \in Here : \A t \in Applicable(u)' : due'[u][t] # None
  BY <1>0, <1>1, PolicyDues
<1>4. Here' = Here
  BY <1>2 DEF Here
<1>5. GroupsTypeOK'
  BY <1>0, <1>1, <1>2, <1>3, <1>4 DEF GroupsBase, GroupsTypeOK, Dues
<1>6. GroupsBase'
  <2>1. ASSUME NEW g \in Groups PROVE UnusedGroup(g)'
    <3>1. g = s => There(g)
      BY DEF SetEnrollmentPolicy
    <3>2. g # s => policy'[g] = policy[g]
      BY <1>1, <1>0 DEF GroupsBase, GroupsTypeOK
    <3>3. UnusedGroup(g)
      BY <1>0 DEF GroupsBase
    <3> QED  BY <1>2, <3>1, <3>2, <3>3 DEF UnusedGroup, There
  <2> QED  BY <1>0, <1>2, <1>4, <1>5, <2>1 DEF GroupsBase, GroupConstants
<1>7. \A u \in Here' : Met(u)'
  BY <1>3, <1>4 DEF SetEnrollmentPolicy, Met
<1>8. \A r \in Writes : Seen(req[r])'
  BY <1>0, <1>2, <1>5, SameGroups, SeenAll DEF GroupsBase
<1> QED  BY <1>6, <1>7, <1>8 DEF GroupsInv

\* The invariant is kept when an account is created: its policies reach an administrator too.
LEMMA NewUserStep ==
    ASSUME GroupsInv, NEW u \in Accounts, NEW o \in Connectors \cup {Local}, NEW admin \in BOOLEAN,
           CreateUser(u, o, admin)
    PROVE  GroupsInv'
<1>0. GroupsBase /\ o # Nobody
  BY DEF GroupsInv, GroupsBase, GroupConstants
<1>1. /\ UNCHANGED <<delegates, removed, group, policy, req, now>> /\ ops' \in 0..MaxOps
      /\ u \notin Here /\ owner' = [owner EXCEPT ![u] = o]
      /\ admins' = IF admin THEN admins \cup {u} ELSE admins
      /\ Starts({u}, Scopes)
  BY <1>0, OpFacts DEF CreateUser
<1>2. Here' = Here \cup {u}
  BY <1>0, <1>1 DEF Here, GroupsBase, GroupsTypeOK
<1>3. due' \in Dues /\ DuesStay /\ \A s \in Scopes : s \in Applicable(u)' =>
      due'[u][s] # None
  BY <1>0, <1>1, StartsFacts DEF GroupsBase, GroupsTypeOK
<1>4. GroupsTypeOK'
  <2>1. owner' \in [Accounts -> Connectors \cup {Local, Nobody}]
    BY <1>0, <1>1 DEF GroupsBase, GroupsTypeOK
  <2> QED  BY <1>0, <1>1, <1>2, <1>3, <2>1 DEF GroupsBase, GroupsTypeOK, Dues
<1>5. GroupsBase'
  BY <1>0, <1>1, <1>2, <1>4 DEF GroupsBase, GroupConstants, UnusedGroup, There
<1>6. ASSUME NEW v \in Here, v # u PROVE Met(v)'
  <2>1. Applicable(v)' = Applicable(v)
    BY <1>1, <1>6 DEF Applicable
  <2> QED  BY <1>1, <1>3, <2>1, SameMet DEF GroupsInv, Here
<1>7. Met(u)'
  <2>1. PICK a \in admins : a \in Here
    BY <1>0 DEF GroupsBase, GroupsTypeOK
  <2>2. \A g \in Groups : u \notin group[g].members
    BY <1>0, <1>1 DEF GroupsBase
  <2>3. Applicable(u)' \subseteq Applicable(a)
    BY <1>0, <1>1, <2>1, <2>2 DEF Applicable, GroupsBase, GroupsTypeOK
  <2>4. Satisfiable(u)'
    BY <1>1, <2>1, <2>3, FewerPolicies DEF GroupsInv, Met
  <2>5. Applicable(u)' \subseteq Scopes
    BY DEF Applicable
  <2> QED  BY <1>3, <2>4, <2>5 DEF Met
<1>8. \A r \in Writes : Seen(req[r])'
  BY <1>0, <1>1, <1>4, SameGroups, SeenAll DEF GroupsBase
<1> QED  BY <1>2, <1>5, <1>6, <1>7, <1>8 DEF GroupsInv

\* The invariant is kept when a role is given or taken: the trigger refuses what no factor meets.
LEMMA RoleStep ==
    ASSUME GroupsInv, NEW u \in Accounts, NEW admin \in BOOLEAN, SetRole(u, admin)
    PROVE  GroupsInv'
<1>0. GroupsBase
  BY DEF GroupsInv
<1>1. /\ UNCHANGED <<owner, delegates, removed, group, policy, req, now>>
           /\ ops' \in 0..MaxOps
      /\ u \in Here /\ admins' = IF admin THEN admins \cup {u} ELSE admins \ {u}
      /\ admins' # {} /\ Satisfiable(u)' /\ Starts({u}, Scopes)
  BY <1>0, OpFacts DEF SetRole
<1>2. Here' = Here
  BY <1>1 DEF Here
<1>3. due' \in Dues /\ DuesStay /\ \A s \in Scopes : s \in Applicable(u)' =>
      due'[u][s] # None
  BY <1>0, <1>1, StartsFacts DEF GroupsBase, GroupsTypeOK
<1>4. GroupsTypeOK'
  BY <1>0, <1>1, <1>2, <1>3 DEF GroupsBase, GroupsTypeOK, Dues
<1>5. GroupsBase'
  BY <1>0, <1>1, <1>2, <1>4 DEF GroupsBase, GroupConstants, UnusedGroup, There
<1>6. ASSUME NEW v \in Here, v # u PROVE Met(v)'
  <2>1. Applicable(v)' = Applicable(v)
    BY <1>1, <1>6 DEF Applicable
  <2> QED  BY <1>1, <1>3, <2>1, SameMet DEF GroupsInv, Here
<1>7. Met(u)'
  <2>1. Applicable(u)' \subseteq Scopes
    BY DEF Applicable
  <2> QED  BY <1>1, <1>3, <2>1 DEF Met
<1>8. \A r \in Writes : Seen(req[r])'
  BY <1>0, <1>1, <1>4, SameGroups, SeenAll DEF GroupsBase
<1> QED  BY <1>2, <1>5, <1>6, <1>7, <1>8 DEF GroupsInv

\* The invariant is kept when delegations are given or taken.
LEMMA DelegationStep ==
    ASSUME GroupsInv, NEW u \in Accounts, NEW on \in BOOLEAN, SetDelegations(u, on)
    PROVE  GroupsInv'
<1>0. GroupsBase
  BY DEF GroupsInv
<1>1. /\ UNCHANGED <<owner, admins, removed, group, policy, req, now>>
           /\ ops' \in 0..MaxOps
      /\ u \in Here /\ delegates' = IF on THEN delegates \cup {u} ELSE delegates \ {u}
      /\ on => Satisfiable(u)'
      /\ Starts(IF on THEN {u} ELSE {}, {"administrators"})
  BY <1>0, OpFacts DEF SetDelegations
<1>2. Here' = Here
  BY <1>1 DEF Here
<1>3. due' \in Dues /\ DuesStay
  BY <1>0, <1>1, StartsFacts DEF GroupsBase, GroupsTypeOK
<1>4. GroupsTypeOK'
  BY <1>0, <1>1, <1>2, <1>3 DEF GroupsBase, GroupsTypeOK, Dues
<1>5. GroupsBase'
  BY <1>0, <1>1, <1>2, <1>4 DEF GroupsBase, GroupConstants, UnusedGroup, There
<1>6. ASSUME NEW v \in Here, v # u \/ ~on PROVE Met(v)'
  <2>1. Applicable(v)' \subseteq Applicable(v)
    BY <1>1, <1>6 DEF Applicable
  <2> QED  BY <1>1, <1>3, <2>1, SameMet DEF GroupsInv, Here
<1>7. ASSUME on PROVE Met(u)'
  <2>1. Starts({u}, {"administrators"})
    BY <1>1, <1>7
  <2>2. "administrators" \in Applicable(u)' => due'[u]["administrators"] # None
    BY <1>0, <1>1, <2>1, StartsFacts DEF GroupsBase, GroupsTypeOK
  <2>3. \A s \in Applicable(u)' : s \in Applicable(u) \/ s = "administrators"
    BY <1>1 DEF Applicable
  <2> QED  BY <1>1, <1>3, <1>7, <2>2, <2>3, StaysMet DEF GroupsInv
<1>8. \A r \in Writes : Seen(req[r])'
  BY <1>0, <1>1, <1>4, SameGroups, SeenAll DEF GroupsBase
<1> QED  BY <1>2, <1>5, <1>6, <1>7, <1>8 DEF GroupsInv

\* A step that writes one group, at a later version where the name or the upstream members
\* change, and starts the deadline of whoever the group's policy reaches now.
LEMMA GroupStep ==
    ASSUME GroupsInv, NEW g \in Groups, NEW x \in Group, group' = [group EXCEPT ![g] = x],
           UNCHANGED <<owner, admins, delegates, removed, policy, now>>, ops' \in 0..MaxOps,
           req' \in [Writes -> Request \cup {Free}],
           \A r \in Writes : req'[r] = req[r] \/ req'[r] = Free,
           due' \in Dues, DuesStay, x.members \subseteq Here, x.ver # 0,
           \/ group[g].ver < x.ver
           \/ x.ver = group[g].ver /\ x.name = group[g].name /\ x.upstream = group[g].upstream,
           \A u \in Here : u \in x.members \ group[g].members /\ policy[g] # NotRequired =>
              Satisfiable(u)' /\ due'[u][g] # None
    PROVE  GroupsInv'
<1>0. GroupsBase /\ GroupsTypeOK
  BY DEF GroupsInv, GroupsBase
<1>1. group' \in [Groups -> Group] /\ group'[g] = x
      /\ \A h \in Groups \ {g} : group'[h] = group[h]
  BY <1>0, RowFacts
<1>2. Here' = Here
  BY DEF Here
<1>3. GroupsTypeOK'
  BY <1>0, <1>1, <1>2 DEF GroupsTypeOK, Dues
<1>4. \A h \in Groups : Advances(h)
  <2>1. group[g].ver \in Nat /\ x.ver \in Nat
    BY <1>0 DEF GroupsTypeOK, Group
  <2>2. Advances(g)
    BY <1>1, <2>1 DEF Advances
  <2> QED  BY <1>0, <1>1, <2>2, RowAdvances
<1>5. GroupsBase'
  <2>1. ASSUME NEW h \in Groups PROVE (group[h].members \subseteq Here)' /\ UnusedGroup(h)'
    <3>1. CASE h = g
      BY <1>1, <1>2, <3>1 DEF UnusedGroup
    <3>2. CASE h # g
      BY <1>0, <1>1, <1>2, <3>2 DEF GroupsBase, UnusedGroup, There
    <3> QED  BY <3>1, <3>2
  <2> QED  BY <1>0, <1>3, <2>1 DEF GroupsBase, GroupConstants
<1>6. ASSUME NEW u \in Here PROVE Met(u)'
  <2>0. u \in Accounts /\ Met(u)
    BY DEF Here, GroupsInv
  <2>1. \A s \in Applicable(u)' :
          \/ s \in Applicable(u)
          \/ s = g /\ u \in x.members \ group[g].members /\ policy[g] # NotRequired
    BY <1>1 DEF Applicable
  <2>2. CASE u \in x.members \ group[g].members /\ policy[g] # NotRequired
    BY <2>0, <2>1, <2>2, StaysMet
  <2>3. CASE ~(u \in x.members \ group[g].members /\ policy[g] # NotRequired)
    <3>1. Applicable(u)' \subseteq Applicable(u)
      BY <2>1, <2>3
    <3> QED  BY <2>0, <3>1, SameMet
  <2> QED  BY <2>2, <2>3
<1>7. \A r \in Writes : Seen(req[r])'
  BY <1>3, <1>4, SeenAll
<1> QED  BY <1>2, <1>5, <1>6, <1>7 DEF GroupsInv

\* Deadlines that do not change stay.
LEMMA Unstarted ==
    ASSUME GroupsBase, due' = due
    PROVE  due' \in Dues /\ DuesStay
BY DEF GroupsBase, GroupsTypeOK, Dues, DuesStay

\* The group rows the writes make of a row.
Created(a, n) == [a EXCEPT !.owner = Local, !.name = n, !.ver = 1]
Renamed(a, n) == [a EXCEPT !.name = n, !.ver = @ + 1]
WithMembers(a, ms) == [a EXCEPT !.members = ms]
MadeLocal(a) == [a EXCEPT !.owner = Local, !.ver = @ + 1]
Replaced(a, n, ms) == [a EXCEPT !.name = n, !.ver = @ + 1, !.members = ms, !.upstream = ms]
Deleted(a) == [a EXCEPT !.owner = Nobody, !.members = {}, !.upstream = {}, !.ver = @ + 1]

\* Each of them is a group row.
LEMMA CreatedRow ==
    ASSUME NEW a \in Group, NEW n \in Names
    PROVE  /\ Created(a, n) \in Group
           /\ Created(a, n).ver = 1 /\ Created(a, n).members = a.members
BY DEF Group, Created

\* Another name is another version.
LEMMA RenamedRow ==
    ASSUME NEW a \in Group, NEW n \in Names
    PROVE  /\ Renamed(a, n) \in Group
           /\ Renamed(a, n).ver = a.ver + 1 /\ Renamed(a, n).members = a.members
<1>1. \A v \in Nat : LET x == [a EXCEPT !.name = n, !.ver = v] IN
                     x \in Group /\ x.ver = v /\ x.members = a.members
  BY DEF Group
<1>2. a.ver + 1 \in Nat
  BY DEF Group
<1> QED  BY <1>1, <1>2 DEF Renamed

\* Other members are the same version.
LEMMA WithMembersRow ==
    ASSUME NEW a \in Group, NEW ms \in SUBSET Accounts
    PROVE  LET x == WithMembers(a, ms) IN
           /\ x \in Group /\ x.members = ms /\ x.ver = a.ver
           /\ x.name = a.name /\ x.upstream = a.upstream
BY DEF Group, WithMembers

\* A group whose connector goes is another version.
LEMMA MadeLocalRow ==
    ASSUME NEW a \in Group
    PROVE  /\ MadeLocal(a) \in Group
           /\ MadeLocal(a).ver = a.ver + 1 /\ MadeLocal(a).members = a.members
<1>1. \A v \in Nat : LET x == [a EXCEPT !.owner = Local, !.ver = v] IN
                     x \in Group /\ x.ver = v /\ x.members = a.members
  BY DEF Group
<1>2. a.ver + 1 \in Nat
  BY DEF Group
<1> QED  BY <1>1, <1>2 DEF MadeLocal

\* A SCIM write is another version under the same owner.
LEMMA ReplacedRow ==
    ASSUME NEW a \in Group, NEW n \in Names \cup {None}, NEW ms \in SUBSET Accounts
    PROVE  LET x == Replaced(a, n, ms) IN
           /\ x \in Group /\ x.ver = a.ver + 1 /\ x.members = ms
           /\ x.owner = a.owner /\ x.name = n
<1>1. \A v \in Nat : LET x == [a EXCEPT !.name = n, !.ver = v, !.members = ms, !.upstream = ms] IN
                     /\ x \in Group /\ x.ver = v /\ x.members = ms
                     /\ x.owner = a.owner /\ x.name = n
  BY DEF Group
<1>2. a.ver + 1 \in Nat
  BY DEF Group
<1> QED  BY <1>1, <1>2 DEF Replaced

\* A deleted group has no owner and no members.
LEMMA DeletedRow ==
    ASSUME NEW a \in Group
    PROVE  LET x == Deleted(a) IN
           x \in Group /\ x.ver = a.ver + 1 /\ x.members = {} /\ x.owner = Nobody
<1>1. \A v \in Nat : LET x == [a EXCEPT !.owner = Nobody, !.members = {}, !.upstream = {}, !.ver = v] IN
                     x \in Group /\ x.ver = v /\ x.members = {} /\ x.owner = Nobody
  BY DEF Group
<1>2. a.ver + 1 \in Nat
  BY DEF Group
<1> QED  BY <1>1, <1>2 DEF Deleted

\* The invariant is kept by CreateGroup.
LEMMA CreateGroupStep ==
    ASSUME GroupsInv, NEW g \in Groups, NEW n \in Names, CreateGroup(g, n)
    PROVE  GroupsInv'
<1>0. GroupsBase /\ group[g] \in Group /\ group[g].members \subseteq Here
      /\ req \in [Writes -> Request \cup {Free}]
  BY DEF GroupsInv, GroupsBase, GroupsTypeOK
<1>1. /\ UNCHANGED <<owner, admins, delegates, removed, policy, due, req, now>>
           /\ ops' \in 0..MaxOps
      /\ group[g].ver = 0
      /\ group' = [group EXCEPT ![g] = Created(group[g], n)]
  BY <1>0, OpFacts DEF CreateGroup, directory, Created
<1>2. PICK x \in Group : /\ x = Created(group[g], n)
                         /\ x.members = group[g].members /\ x.ver = 1
  BY <1>0, CreatedRow
<1>3. due' \in Dues /\ DuesStay
  BY <1>0, <1>1, Unstarted
<1>4. group' = [group EXCEPT ![g] = x] /\ x.ver # 0 /\ group[g].ver < x.ver
      /\ x.members \subseteq Here
      /\ x.members \ group[g].members = {}
  BY <1>0, <1>1, <1>2
<1> QED  BY <1>0, <1>1, <1>3, <1>4, GroupStep

\* The invariant is kept by UpdateGroup.
LEMMA UpdateGroupStep ==
    ASSUME GroupsInv, NEW g \in Groups, NEW n \in Names, UpdateGroup(g, n)
    PROVE  GroupsInv'
<1>0. GroupsBase /\ group[g] \in Group /\ group[g].members \subseteq Here
      /\ req \in [Writes -> Request \cup {Free}]
  BY DEF GroupsInv, GroupsBase, GroupsTypeOK
<1>1. /\ UNCHANGED <<owner, admins, delegates, removed, policy, due, req, now>>
           /\ ops' \in 0..MaxOps
      /\ group' = [group EXCEPT ![g] = Renamed(group[g], n)]
  <2>1. UNCHANGED <<owner, admins, delegates, removed, policy, due, req, now>>
        /\ ops' \in 0..MaxOps
    BY <1>0, OpFacts DEF UpdateGroup, directory
  <2>2. group' = [group EXCEPT ![g] = Renamed(group[g], n)]
    BY DEF UpdateGroup, Renamed
  <2> QED  BY <2>1, <2>2
<1>2. PICK x \in Group : /\ x = Renamed(group[g], n)
                         /\ x.members = group[g].members /\ x.ver = group[g].ver + 1
  BY <1>0, RenamedRow
<1>4. group[g].ver \in Nat
  BY <1>0 DEF Group
<1>3. due' \in Dues /\ DuesStay
  BY <1>0, <1>1, Unstarted
<1>5. group' = [group EXCEPT ![g] = x] /\ x.ver # 0 /\ group[g].ver < x.ver
      /\ x.members \subseteq Here
      /\ x.members \ group[g].members = {}
  BY <1>0, <1>1, <1>2, <1>4
<1> QED  BY <1>0, <1>1, <1>3, <1>5, GroupStep

\* The invariant is kept by SetGroupMembership, which checks the policies of whoever changes.
LEMMA MemberStep ==
    ASSUME GroupsInv, NEW g \in Groups, NEW u \in Accounts, NEW on \in BOOLEAN, NEW admin,
           NEW recent,
           SetGroupMembership(g, u, on, admin, recent)
    PROVE  GroupsInv'
<1>0. /\ GroupsBase /\ group[g] \in Group /\ group[g].members \subseteq Here
           /\ UnusedGroup(g)
      /\ req \in [Writes -> Request \cup {Free}]
           /\ group \in [Groups -> Group]
  BY DEF GroupsInv, GroupsBase, GroupsTypeOK
<1>1. /\ UNCHANGED <<owner, admins, delegates, removed, policy, req, now>>
           /\ ops' \in 0..MaxOps
      /\ There(g) /\ u \in Here
      /\ group' = [group EXCEPT ![g].members = IF on THEN @ \cup {u} ELSE @ \ {u}]
      /\ Changes(g, {u}, admin, recent)
      /\ Starts(IF on THEN {u} ELSE {}, {g})
  BY <1>0, OpFacts DEF SetGroupMembership, directory
<1>2. PICK ms \in SUBSET Accounts : ms = IF on THEN group[g].members \cup {u} ELSE group[g].members \ {u}
  BY <1>0 DEF Group
<1>3. PICK x \in Group : /\ x = WithMembers(group[g], ms)
                         /\ x.members = ms /\ x.ver = group[g].ver /\ x.name = group[g].name
                         /\ x.upstream = group[g].upstream
  BY <1>0, WithMembersRow
<1>4. group' = [group EXCEPT ![g] = x]
  BY <1>0, <1>1, <1>2, <1>3 DEF WithMembers
<1>5. due' \in Dues /\ DuesStay
  BY <1>0, <1>1, StartsFacts DEF GroupsBase, GroupsTypeOK
<1>6. x.ver # 0 /\ x.members \subseteq Here
  BY <1>0, <1>1, <1>2, <1>3 DEF UnusedGroup
<1>7. ASSUME NEW v \in Here, v \in x.members \ group[g].members, policy[g] # NotRequired
      PROVE  Satisfiable(v)' /\ due'[v][g] # None
  <2>1. on /\ v = u
    BY <1>2, <1>3, <1>7
  <2>2. Starts({u}, {g})
    BY <1>1, <2>1
  <2>3. g \in Applicable(u)'
    BY <1>0, <1>1, <1>3, <1>4, <1>7, <2>1 DEF Applicable, Scopes
  <2>4. due'[u][g] # None
    BY <1>0, <1>1, <2>2, <2>3, StartsFacts DEF GroupsBase, GroupsTypeOK
  <2> QED  BY <1>1, <1>7, <2>1, <2>4 DEF Changes
<1>8. \A v \in Here : v \in x.members \ group[g].members /\ policy[g] # NotRequired =>
          Satisfiable(v)' /\ due'[v][g] # None
  BY <1>7
<1>9. UNCHANGED <<owner, admins, delegates, removed, policy, now>> /\ req' = req
  BY <1>1
<1> QED  BY <1>0, <1>1, <1>3, <1>4, <1>5, <1>6, <1>8, <1>9, GroupStep

\* No session is behind an upstream's write, so none is an administrator's.
LEMMA NobodyActs ==
    ASSUME GroupsBase
    PROVE  Nobody \notin admins
BY DEF GroupsBase, GroupConstants, GroupsTypeOK, Here

\* The invariant is kept when a connector is disconnected: members and policies stay.
LEMMA ConnectorGoesStep ==
    ASSUME GroupsInv, NEW c \in Connectors, DisconnectSCIM(c)
    PROVE  GroupsInv'
<1>0. GroupsBase /\ GroupsTypeOK /\ c # Nobody /\ Local # Nobody
  BY DEF GroupsInv, GroupsBase, GroupConstants
<1>1. /\ UNCHANGED <<admins, delegates, policy, due, req, now>> /\ ops' \in 0..MaxOps
      /\ removed' = removed \cup {c}
      /\ owner' = [u \in Accounts |-> IF owner[u] = c THEN Local ELSE owner[u]]
      /\ group' = [g \in Groups |-> IF group[g].owner # c THEN group[g]
                                    ELSE MadeLocal(group[g])]
  BY <1>0, OpFacts DEF DisconnectSCIM, MadeLocal
<1>2. Here' = Here
  BY <1>0, <1>1 DEF Here, GroupsTypeOK
<1>3. ASSUME NEW g \in Groups
      PROVE  /\ group'[g] \in Group /\ group'[g].members = group[g].members /\ Advances(g)
             /\ group'[g] = group[g] \/ group'[g].ver # 0
  <2>1. group[g] \in Group /\ group[g].ver \in Nat
    BY <1>0 DEF GroupsTypeOK, Group
  <2>2. PICK x \in Group : /\ x = MadeLocal(group[g])
                           /\ x.members = group[g].members /\ x.ver = group[g].ver + 1
    BY <2>1, MadeLocalRow
  <2>3. group'[g] = group[g] \/ group'[g] = x
    BY <1>1, <2>2
  <2> QED  BY <2>1, <2>2, <2>3 DEF Advances
<1>4. GroupsTypeOK'
  <2>1. group' \in [Groups -> Group]
    BY <1>1, <1>3
  <2>2. owner' \in [Accounts -> Connectors \cup {Local, Nobody}]
    BY <1>0, <1>1 DEF GroupsTypeOK
  <2> QED  BY <1>0, <1>1, <1>2, <2>1, <2>2 DEF GroupsTypeOK
<1>5. GroupsBase'
  <2>1. ASSUME NEW g \in Groups PROVE (group[g].members \subseteq Here)' /\ UnusedGroup(g)'
    BY <1>0, <1>1, <1>2, <1>3 DEF GroupsBase, UnusedGroup, There
  <2> QED  BY <1>0, <1>1, <1>4, <2>1 DEF GroupsBase, GroupConstants
<1>6. ASSUME NEW u \in Here PROVE Met(u)'
  <2>1. Applicable(u)' = Applicable(u)
    BY <1>1, <1>3 DEF Applicable
  <2> QED  BY <1>0, <1>1, <2>1, SameMet, Unstarted DEF GroupsInv, Here
<1>7. \A r \in Writes : Seen(req[r])'
  BY <1>1, <1>3, <1>4, SeenAll
<1> QED  BY <1>2, <1>5, <1>6, <1>7 DEF GroupsInv

\* A group that is gone takes its policy and that policy's deadlines with it.
LEMMA CascadeStep ==
    ASSUME GroupsInv, NEW g \in Groups, Cascade(g),
           UNCHANGED <<owner, admins, delegates, removed, now>>, ops' \in 0..MaxOps,
           req' \in [Writes -> Request \cup {Free}],
           \A r \in Writes : req'[r] = req[r] \/ req'[r] = Free
    PROVE  GroupsInv'
<1>0. GroupsBase /\ GroupsTypeOK /\ group[g] \in Group /\ group[g].ver \in Nat
      /\ g \in Scopes
  BY DEF GroupsInv, GroupsBase, GroupsTypeOK, Group, Scopes
<1>1. PICK x \in Group : /\ x = Deleted(group[g]) /\ x.ver = group[g].ver + 1
                         /\ x.members = {} /\ x.owner = Nobody
  BY <1>0, DeletedRow
<1>2. group' = [group EXCEPT ![g] = x]
  BY <1>1 DEF Cascade, Deleted
<1>3. /\ policy' = [policy EXCEPT ![g] = NotRequired]
      /\ due' = [u \in Accounts |-> [due[u] EXCEPT ![g] = None]]
  BY DEF Cascade
<1>4. group' \in [Groups -> Group] /\ group'[g] = x
      /\ \A h \in Groups \ {g} : group'[h] = group[h]
  BY <1>0, <1>2, RowFacts
<1>5. Here' = Here
  BY DEF Here
<1>6. /\ policy' \in [Scopes -> Required \cup {NotRequired}]
           /\ policy'[g] = NotRequired
      /\ \A s \in Scopes \ {g} : policy'[s] = policy[s]
  BY <1>0, <1>3 DEF GroupsTypeOK
<1>7. /\ due' \in Dues
      /\ \A u \in Accounts, s \in Scopes \ {g} : due'[u][s] = due[u][s]
  BY <1>0, <1>3 DEF GroupsTypeOK, Dues
<1>8. GroupsTypeOK'
  BY <1>0, <1>4, <1>5, <1>6, <1>7 DEF GroupsTypeOK, Dues
<1>9. GroupsBase'
  <2>1. ASSUME NEW h \in Groups PROVE (group[h].members \subseteq Here)' /\ UnusedGroup(h)'
    <3>1. CASE h = g
      BY <1>1, <1>4, <1>6, <3>1 DEF UnusedGroup, There
    <3>2. CASE h # g
      BY <1>0, <1>4, <1>5, <1>6, <3>2 DEF GroupsBase, UnusedGroup, There, Scopes
    <3> QED  BY <3>1, <3>2
  <2> QED  BY <1>0, <1>8, <2>1 DEF GroupsBase, GroupConstants
<1>10. ASSUME NEW u \in Here PROVE Met(u)'
  <2>0. u \in Accounts /\ Met(u)
    BY DEF Here, GroupsInv
  <2>1. Applicable(u)' \subseteq Applicable(u) \ {g}
    BY <1>4, <1>6 DEF Applicable
  <2>2. Applicable(u) \subseteq Scopes
    BY DEF Applicable
  <2>3. Satisfiable(u)'
    BY <1>6, <2>0, <2>1, <2>2, FewerPolicies DEF Met
  <2> QED  BY <1>7, <2>0, <2>1, <2>2, <2>3 DEF Met
<1>11. \A r \in Writes : Seen(req[r])'
  <2>1. Advances(g)
    BY <1>0, <1>1, <1>4 DEF Advances
  <2>2. \A h \in Groups : Advances(h)
    BY <1>0, <1>4, <2>1, RowAdvances
  <2> QED  BY <1>8, <2>2, SeenAll
<1> QED  BY <1>5, <1>9, <1>10, <1>11 DEF GroupsInv

\* The invariant is kept by DeleteGroup.
LEMMA DeleteGroupStep ==
    ASSUME GroupsInv, NEW g \in Groups, NEW admin, NEW recent,
           DeleteGroup(g, admin, recent)
    PROVE  GroupsInv'
<1>0. GroupsBase /\ req \in [Writes -> Request \cup {Free}]
  BY DEF GroupsInv, GroupsBase, GroupsTypeOK
<1>1. UNCHANGED <<owner, admins, delegates, removed, now, req>>
      /\ ops' \in 0..MaxOps /\ Cascade(g)
  BY <1>0, OpFacts DEF DeleteGroup, DeletesGroup, directory
<1> QED  BY <1>0, <1>1, CascadeStep

\* A step that only records what a request read.
LEMMA ArriveStep ==
    ASSUME GroupsInv, NEW r \in Writes, NEW q \in Request \cup {Free}, Seen(q),
           req' = [req EXCEPT ![r] = q], ops' \in 0..MaxOps,
           UNCHANGED <<owner, admins, delegates, removed, group, policy, due, now>>
    PROVE  GroupsInv'
<1>0. GroupsBase /\ GroupsTypeOK
  BY DEF GroupsInv, GroupsBase
<1>1. Here' = Here
  BY DEF Here
<1>2. GroupsTypeOK'
  BY <1>0, <1>1 DEF GroupsTypeOK
<1>3. GroupsBase'
  BY <1>0, <1>1, <1>2 DEF GroupsBase, GroupConstants, UnusedGroup, There
<1>4. \A u \in Here : Met(u)'
  BY DEF GroupsInv, Met, Satisfiable, Applicable
<1>5. ASSUME NEW t \in Writes PROVE Seen(req[t])'
  <2>1. Seen(req[t]) /\ (req'[t] = req[t] \/ req'[t] = q)
    BY <1>0 DEF GroupsInv, GroupsTypeOK
  <2> QED  BY <2>1 DEF Seen
<1> QED  BY <1>1, <1>3, <1>4, <1>5 DEF GroupsInv

\* The invariant is kept by CreateArrives.
LEMMA CreateArrivesStep ==
    ASSUME GroupsInv, NEW r \in Writes, NEW c \in Connectors, NEW g \in Groups, NEW n \in Names,
           NEW members \in SUBSET Accounts, CreateArrives(r, c, g, n, members)
    PROVE  GroupsInv'
<1>0. GroupsBase /\ group[g] \in Group
  BY DEF GroupsInv, GroupsBase, GroupsTypeOK
<1>1. UNCHANGED <<owner, admins, delegates, removed, group, policy, due, now>>
      /\ ops' \in 0..MaxOps
  BY <1>0, OpFacts DEF CreateArrives, directory
<1> DEFINE q == [op |-> "create", conn |-> c, group |-> g, name |-> n,
                 members |-> members, conditional |-> FALSE, seen |-> group[g]]
<1>2. q \in Request /\ ~q.conditional /\ q.seen = group[g] /\ q.group = g
  BY <1>0 DEF Request
<1>4. req' = [req EXCEPT ![r] = q]
  BY DEF CreateArrives
<1> HIDE DEF q
<1>3. Seen(q)
  BY <1>0, <1>2 DEF Seen, Group
<1> QED  BY <1>1, <1>2, <1>3, <1>4, ArriveStep

\* The invariant is kept by GroupArrives.
LEMMA GroupArrivesStep ==
    ASSUME GroupsInv, NEW r \in Writes, NEW op \in {"replace", "delete"}, NEW c \in Connectors,
           NEW g \in Groups, NEW n \in Names \cup {None}, NEW members \in SUBSET Accounts,
           NEW conditional \in BOOLEAN, GroupArrives(r, op, c, g, n, members, conditional)
    PROVE  GroupsInv'
<1>0. GroupsBase /\ group[g] \in Group
  BY DEF GroupsInv, GroupsBase, GroupsTypeOK
<1>1. UNCHANGED <<owner, admins, delegates, removed, group, policy, due, now>>
      /\ ops' \in 0..MaxOps
  BY <1>0, OpFacts DEF GroupArrives, directory
<1> DEFINE q == [op |-> op, conn |-> c, group |-> g, name |-> n,
                 members |-> members, conditional |-> conditional, seen |-> group[g]]
<1>2. q \in Request /\ q.op # "create" /\ q.seen = group[g] /\ q.group = g
  BY <1>0 DEF Request
<1>4. req' = [req EXCEPT ![r] = q]
  BY DEF GroupArrives
<1> HIDE DEF q
<1>3. Seen(q)
  BY <1>0, <1>2 DEF Seen, Group
<1> QED  BY <1>1, <1>2, <1>3, <1>4, ArriveStep

\* A request whose transaction is over.
LEMMA Finished ==
    ASSUME GroupsTypeOK, NEW r \in Writes, req' = [req EXCEPT ![r] = Free]
    PROVE  /\ req' \in [Writes -> Request \cup {Free}]
           /\ \A t \in Writes : req'[t] = req[t] \/ req'[t] = Free
BY DEF GroupsTypeOK

\* What a request under way holds, and that the members it may write are accounts.
LEMMA RequestFacts ==
    ASSUME GroupsBase, NEW r \in Writes, req[r] # Free
    PROVE  /\ req[r] \in Request /\ req[r].group \in Groups
                /\ req[r].conn \in Connectors
           /\ req[r].name \in Names \cup {None} /\ req[r].members \in SUBSET Accounts
           /\ MembersOwned(req[r]) => req[r].members \subseteq Here
           /\ group[req[r].group] \in Group /\ UnusedGroup(req[r].group)
<1>1. req[r] \in Request
  BY DEF GroupsBase, GroupsTypeOK
<1>2. /\ req[r].group \in Groups /\ req[r].conn \in Connectors
      /\ req[r].name \in Names \cup {None} /\ req[r].members \in SUBSET Accounts
  BY <1>1 DEF Request
<1>3. MembersOwned(req[r]) => req[r].members \subseteq Here
  BY <1>2 DEF MembersOwned, Here, GroupsBase, GroupConstants
<1> QED  BY <1>1, <1>2, <1>3 DEF GroupsBase, GroupsTypeOK

\* The invariant is kept by an upstream's create: a new group carries no policy.
LEMMA CreateUpstreamStep ==
    ASSUME GroupsInv, NEW r \in Writes, CreateUpstreamGroup(r)
    PROVE  GroupsInv' /\ policy[req[r].group] = NotRequired /\ DuesStay
<1> DEFINE q == req[r]
           g == q.group
           x == [owner |-> q.conn, name |-> q.name, ver |-> 1, members |-> q.members, upstream |-> q.members]
<1>0. GroupsBase /\ GroupsTypeOK
  BY DEF GroupsInv, GroupsBase
<1>1. /\ q # Free /\ MembersOwned(q) /\ group[g].ver = 0
      /\ UNCHANGED <<owner, admins, delegates, removed, policy, now>> /\ ops' = ops
      /\ req' = [req EXCEPT ![r] = Free] /\ Starts(q.members, {g})
      /\ group' = [group EXCEPT ![g] = x]
  BY DEF CreateUpstreamGroup, directory
<1>2. /\ g \in Groups /\ q.conn \in Connectors /\ q.name \in Names \cup {None}
           /\ q.members \in SUBSET Accounts
      /\ q.members \subseteq Here /\ policy[g] = NotRequired
  BY <1>0, <1>1, RequestFacts DEF UnusedGroup
<1>3. x \in Group /\ x.ver = 1 /\ x.members = q.members
  BY <1>2 DEF Group
<1>4. due' \in Dues /\ DuesStay
  BY <1>0, <1>1, StartsFacts DEF GroupsTypeOK
<1>5. req' \in [Writes -> Request \cup {Free}]
      /\ \A t \in Writes : req'[t] = req[t] \/ req'[t] = Free
  BY <1>0, <1>1, Finished
<1>6. ops' \in 0..MaxOps
  BY <1>0, <1>1 DEF GroupsTypeOK
<1> HIDE DEF g, x, q
<1>7. group[g].ver < x.ver /\ x.ver # 0 /\ x.members \subseteq Here
  BY <1>1, <1>2, <1>3
<1>8. GroupsInv'
  BY <1>1, <1>2, <1>3, <1>4, <1>5, <1>6, <1>7, GroupStep
<1> QED  BY <1>2, <1>4, <1>8 DEF g, q

\* No session is behind an upstream's write: the members of a group with a required policy stay.
LEMMA UpstreamChanges ==
    ASSUME GroupsBase, NEW g, NEW us, Changes(g, us, Nobody, FALSE), admins' = admins,
           policy[g] # NotRequired
    PROVE  us = {}
BY NobodyActs DEF Changes, CanActivate

\* The invariant is kept by an upstream's write, which leaves a group with a required policy.
LEMMA ReplaceUpstreamStep ==
    ASSUME GroupsInv, NEW r \in Writes, ReplaceUpstreamGroup(r)
    PROVE  /\ GroupsInv' /\ DuesStay
           /\ LET g == req[r].group IN
              policy[g] # NotRequired => /\ group'[g].owner = group[g].owner
                                         /\ group'[g].name = group[g].name
                                         /\ group'[g].members = group[g].members
<1> DEFINE q == req[r]
           g == q.group
           have == group[g].members
           x == Replaced(group[g], q.name, q.members)
<1>0. GroupsBase /\ GroupsTypeOK
  BY DEF GroupsInv, GroupsBase
<1>1. /\ q # Free /\ MembersOwned(q) /\ MayRename(q)
           /\ Current(q)
      /\ UNCHANGED <<owner, admins, delegates, removed, policy, now>> /\ ops' = ops
      /\ req' = [req EXCEPT ![r] = Free]
           /\ Starts(q.members \ have, {g})
      /\ Changes(g, (have \ q.members) \cup (q.members \ have), Nobody, FALSE)
  BY DEF ReplaceUpstreamGroup, directory
<1>2. group' = [group EXCEPT ![g] = x]
  BY DEF ReplaceUpstreamGroup, Replaced
<1>3. /\ g \in Groups /\ q.name \in Names \cup {None} /\ q.members \in SUBSET Accounts
      /\ q.members \subseteq Here /\ group[g] \in Group
  BY <1>0, <1>1, RequestFacts
<1>4. /\ x \in Group /\ x.ver = group[g].ver + 1 /\ x.members = q.members
      /\ x.owner = group[g].owner /\ x.name = q.name
  BY <1>3, ReplacedRow
<1>5. due' \in Dues /\ DuesStay
  BY <1>0, <1>1, StartsFacts DEF GroupsTypeOK
<1>6. req' \in [Writes -> Request \cup {Free}]
      /\ \A t \in Writes : req'[t] = req[t] \/ req'[t] = Free
  BY <1>0, <1>1, Finished
<1>7. ops' \in 0..MaxOps
  BY <1>0, <1>1 DEF GroupsTypeOK
<1>8. policy[g] # NotRequired => q.members = group[g].members /\ q.name = group[g].name
  <2>1. ASSUME policy[g] # NotRequired PROVE (have \ q.members) \cup (q.members \ have) = {}
    BY <1>0, <1>1, <2>1, UpstreamChanges
  <2> QED  BY <1>1, <2>1 DEF MayRename
<1>9. group'[g] = x
  BY <1>0, <1>2, <1>3, <1>4, RowFacts
<1>10. group[g].ver < x.ver /\ x.ver # 0 /\ x.members \subseteq Here
  BY <1>3, <1>4 DEF Group
<1>11. policy[g] # NotRequired => x.members \ group[g].members = {}
  BY <1>4, <1>8
<1> HIDE DEF q, g, have, x
<1>12. GroupsInv'
  BY <1>1, <1>2, <1>3, <1>4, <1>5, <1>6, <1>7, <1>10, <1>11, GroupStep
<1> QED  BY <1>4, <1>5, <1>8, <1>9, <1>12 DEF g, q

\* The invariant is kept by an upstream's delete, which needs a group without a required policy.
LEMMA DeleteUpstreamStep ==
    ASSUME GroupsInv, NEW r \in Writes, DeleteUpstreamGroup(r)
    PROVE  GroupsInv' /\ policy[req[r].group] = NotRequired
<1> DEFINE g == req[r].group
<1>0. GroupsBase /\ GroupsTypeOK
  BY DEF GroupsInv, GroupsBase
<1>1. /\ req[r] # Free /\ UNCHANGED <<owner, admins, delegates, removed, now>>
           /\ ops' = ops
      /\ req' = [req EXCEPT ![r] = Free]
           /\ DeletesGroup(g, Nobody, FALSE)
  BY DEF DeleteUpstreamGroup, directory
<1>2. g \in Groups
  BY <1>0, <1>1, RequestFacts
<1>3. req' \in [Writes -> Request \cup {Free}]
      /\ \A t \in Writes : req'[t] = req[t] \/ req'[t] = Free
  BY <1>0, <1>1, Finished
<1>4. Cascade(g) /\ policy[g] = NotRequired
  BY <1>0, <1>1, NobodyActs DEF DeletesGroup
<1>5. ops' \in 0..MaxOps
  BY <1>0, <1>1 DEF GroupsTypeOK
<1> QED  BY <1>1, <1>2, <1>3, <1>4, <1>5, CascadeStep

\* The invariant is kept when a transaction is refused or fails.
LEMMA ErrorStep ==
    ASSUME GroupsInv, NEW r \in Writes, GroupError(r)
    PROVE  GroupsInv'
<1>1. ops' \in 0..MaxOps
  BY DEF GroupError, GroupsInv, GroupsBase, GroupsTypeOK
<1>2. Seen(Free)
  BY DEF Seen
<1> QED  BY <1>1, <1>2, ArriveStep DEF GroupError, directory

\* The invariant is kept while only time passes.
LEMMA QuietStep ==
    ASSUME GroupsInv, now' \in 0..MaxInstant,
           UNCHANGED <<owner, admins, delegates, removed, group, policy, due, req, ops>>
    PROVE  GroupsInv'
<1>1. Here' = Here
  BY DEF Here
<1>2. GroupsTypeOK'
  BY <1>1 DEF GroupsInv, GroupsBase, GroupsTypeOK
<1>3. GroupsBase'
  BY <1>1, <1>2 DEF GroupsInv, GroupsBase, GroupConstants, UnusedGroup, There
<1>4. \A u \in Here : Met(u)'
  BY DEF GroupsInv, Met, Satisfiable, Applicable
<1>5. \A r \in Writes : Seen(req[r])'
  BY DEF GroupsInv, Seen
<1> QED  BY <1>1, <1>3, <1>4, <1>5 DEF GroupsInv

\* The constants are what InboundGroups assumes.
LEMMA GroupConstantsHold == GroupConstants
BY RootAssumption, OwnerAssumption, GraceAssumption, GroupBoundAssumption
   DEF GroupConstants, RootAssumption, OwnerAssumption, GraceAssumption, GroupBoundAssumption

\* The invariant holds at the start.
LEMMA GroupsInvInit == GroupConstants /\ GroupsInit => GroupsInv
<1> SUFFICES ASSUME GroupConstants, GroupsInit PROVE GroupsInv
  OBVIOUS
<1>1. Here = {Root} /\ Root \in Accounts
  BY DEF GroupsInit, Here, GroupConstants
<1>2. \A g \in Groups : group[g] = [owner |-> Nobody, name |-> None, ver |-> 0, members |-> {}, upstream |-> {}]
  BY DEF GroupsInit
<1>3. GroupsTypeOK
  <2>1. owner \in [Accounts -> Connectors \cup {Local, Nobody}]
    BY DEF GroupsInit
  <2>2. group \in [Groups -> Group]
    BY DEF GroupsInit, Group
  <2>3. policy \in [Scopes -> Required \cup {NotRequired}]
        /\ due \in [Accounts -> [Scopes -> Nat \cup {None}]]
    BY DEF GroupsInit
  <2>4. removed \subseteq Connectors
        /\ req \in [Writes -> Request \cup {Free}]
    BY DEF GroupsInit
  <2>5. now \in 0..MaxInstant /\ ops \in 0..MaxOps
    BY DEF GroupsInit, GroupConstants
  <2> QED  BY <1>1, <2>1, <2>2, <2>3, <2>4, <2>5 DEF GroupsInit, GroupsTypeOK
<1>4. GroupsBase
  <2>1. ASSUME NEW g \in Groups PROVE group[g].members \subseteq Here /\ UnusedGroup(g)
    BY <1>2 DEF UnusedGroup, There, GroupsInit, Scopes
  <2> QED  BY <1>3, <2>1 DEF GroupsBase, GroupsInit
<1>5. \A u \in Here : Met(u)
  <2>1. \A u : Applicable(u) = {}
    BY DEF Applicable, GroupsInit
  <2> QED  BY <2>1 DEF Met, Satisfiable
<1>6. \A r \in Writes : Seen(req[r])
  BY DEF GroupsInit, Seen
<1> QED  BY <1>4, <1>5, <1>6 DEF GroupsInv

\* Every step keeps the invariant.
LEMMA GroupsInvStep == GroupsInv /\ [GroupsNext]_groupsVars => GroupsInv'
<1> SUFFICES ASSUME GroupsInv, [GroupsNext]_groupsVars PROVE GroupsInv'
  OBVIOUS
<1>1. ASSUME NEW s \in Scopes, NEW p \in Required \cup {NotRequired},
             NEW a \in Accounts,
             NEW recent \in BOOLEAN, SetEnrollmentPolicy(s, p, a, recent)
      PROVE  GroupsInv'
  BY <1>1, PolicyStep
<1>2. ASSUME NEW u \in Accounts, NEW o \in Connectors \cup {Local}, NEW admin \in BOOLEAN,
             CreateUser(u, o, admin)
      PROVE  GroupsInv'
  BY <1>2, NewUserStep
<1>3. ASSUME NEW u \in Accounts, NEW on \in BOOLEAN,
             SetRole(u, on) \/ SetDelegations(u, on)
      PROVE  GroupsInv'
  BY <1>3, RoleStep, DelegationStep
<1>4. ASSUME NEW c \in Connectors, DisconnectSCIM(c) PROVE GroupsInv'
  BY <1>4, ConnectorGoesStep
<1>5. ASSUME NEW g \in Groups, NEW n \in Names,
             CreateGroup(g, n) \/ UpdateGroup(g, n)
      PROVE  GroupsInv'
  BY <1>5, CreateGroupStep, UpdateGroupStep
<1>6. ASSUME NEW g \in Groups, NEW u \in Accounts, NEW a \in Accounts, NEW on \in BOOLEAN,
             NEW recent \in BOOLEAN, SetGroupMembership(g, u, on, a, recent)
      PROVE  GroupsInv'
  BY <1>6, MemberStep
<1>7. ASSUME NEW g \in Groups, NEW a \in Accounts, NEW recent \in BOOLEAN,
             DeleteGroup(g, a, recent)
      PROVE  GroupsInv'
  BY <1>7, DeleteGroupStep
<1>8. ASSUME NEW r \in Writes, NEW c \in Connectors, NEW g \in Groups, NEW n \in Names,
             NEW members \in SUBSET Accounts, CreateArrives(r, c, g, n, members)
      PROVE  GroupsInv'
  BY <1>8, CreateArrivesStep
<1>9. ASSUME NEW r \in Writes, NEW c \in Connectors, NEW g \in Groups, NEW n \in Names,
             NEW members \in SUBSET Accounts, NEW conditional \in BOOLEAN,
             GroupArrives(r, "replace", c, g, n, members, conditional)
      PROVE  GroupsInv'
  BY <1>9, GroupArrivesStep
<1>10. ASSUME NEW r \in Writes, NEW c \in Connectors, NEW g \in Groups,
              NEW conditional \in BOOLEAN,
              GroupArrives(r, "delete", c, g, group[g].name, {}, conditional)
       PROVE  GroupsInv'
  <2>1. group[g].name \in Names \cup {None} /\ {} \in SUBSET Accounts
    BY DEF GroupsInv, GroupsBase, GroupsTypeOK, Group
  <2> QED  BY <1>10, <2>1, GroupArrivesStep
<1>11. ASSUME NEW r \in Writes,
              \/ CreateUpstreamGroup(r) \/ ReplaceUpstreamGroup(r) \/ DeleteUpstreamGroup(r) \/ GroupError(r)
       PROVE  GroupsInv'
  BY <1>11, CreateUpstreamStep, ReplaceUpstreamStep, DeleteUpstreamStep, ErrorStep
<1>12. CASE InstantPasses
  BY <1>12, QuietStep DEF InstantPasses, directory, GroupsInv, GroupsBase,
       GroupConstants, GroupsTypeOK
<1>13. CASE UNCHANGED groupsVars
  BY <1>13, QuietStep DEF groupsVars, GroupsInv, GroupsBase, GroupsTypeOK
<1> QED  BY <1>1, <1>2, <1>3, <1>4, <1>5, <1>6, <1>7, <1>8, <1>9, <1>10, <1>11, <1>12, <1>13
    DEF GroupsNext

\* Groups, their policies and the requests under way keep their types: every administrator
\* and delegate is an account that is there.
THEOREM GroupsTypeCorrect == GroupsSpec => []GroupsTypeOK
<1>1. GroupsInit => GroupsInv
  BY GroupsInvInit, GroupConstantsHold
<1>2. GroupsInv => GroupsTypeOK
  BY DEF GroupsInv, GroupsBase
<1> QED  BY <1>1, <1>2, GroupsInvStep, PTL DEF GroupsSpec

\* No order of policy edits, role changes, delegations and group writes leaves an account
\* under required policies that no factor satisfies, or under one with no deadline.
THEOREM PoliciesAreMet == GroupsSpec => []PoliciesCanBeMet
<1>1. GroupsInit => GroupsInv
  BY GroupsInvInit, GroupConstantsHold
<1>2. GroupsInv => PoliciesCanBeMet
  BY DEF GroupsInv, Met, PoliciesCanBeMet, PoliciesSatisfiable,
       ReachedHaveDeadline
<1> QED  BY <1>1, <1>2, GroupsInvStep, PTL DEF GroupsSpec

\* What the two action properties say of one step.
GraceKept ==
    \A u \in Accounts, s \in Scopes :
        due[u][s] # None /\ (s \in Groups => There(s)') => due'[u][s] # None
            /\ due'[u][s] <= due[u][s]

\* Deadlines that stay do not move later.
LEMMA StayIsKept ==
    ASSUME GroupsBase, DuesStay
    PROVE  GraceKept
<1>1. \A u \in Accounts, s \in Scopes : due[u][s] \in Nat \cup {None}
  BY DEF GroupsBase, GroupsTypeOK
<1> QED  BY <1>1 DEF DuesStay, GraceKept

\* The deadlines of a deleted group's policy go with the group.
LEMMA CascadeKept ==
    ASSUME GroupsBase, NEW g \in Groups, Cascade(g)
    PROVE  GraceKept
<1>1. /\ \A u \in Accounts, s \in Scopes : due[u][s] \in Nat \cup {None}
      /\ due \in [Accounts -> [Scopes -> Nat \cup {None}]] /\ group[g] \in Group
           /\ group \in [Groups -> Group]
  BY DEF GroupsBase, GroupsTypeOK
<1>2. PICK x \in Group : x = Deleted(group[g]) /\ x.owner = Nobody
  BY <1>1, DeletedRow
<1>3. group' = [group EXCEPT ![g] = x]
  BY <1>2 DEF Cascade, Deleted
<1>4. ~There(g)'
  BY <1>1, <1>2, <1>3 DEF There
<1>5. \A u \in Accounts, s \in Scopes \ {g} : due'[u][s] = due[u][s]
  BY <1>1 DEF Cascade
<1> QED  BY <1>1, <1>4, <1>5 DEF GraceKept

\* No step moves a deadline later.
LEMMA GraceStep == GroupsInv /\ [GroupsNext]_groupsVars => GraceKept
<1> SUFFICES ASSUME GroupsInv, [GroupsNext]_groupsVars PROVE GraceKept
  OBVIOUS
<1>0. GroupsBase
  BY DEF GroupsInv
<1>a. policy' = policy => policy' \in [Scopes -> Required \cup {NotRequired}]
  BY <1>0 DEF GroupsBase, GroupsTypeOK
<1>b. ASSUME NEW us, NEW ss, Starts(us, ss), policy' = policy PROVE GraceKept
  BY <1>0, <1>a, <1>b, StartsFacts, StayIsKept
<1>c. ASSUME due' = due PROVE GraceKept
  BY <1>0, <1>c, Unstarted, StayIsKept
<1>1. ASSUME NEW s \in Scopes, NEW p \in Required \cup {NotRequired},
             NEW a \in Accounts,
             NEW recent \in BOOLEAN, SetEnrollmentPolicy(s, p, a, recent)
      PROVE  GraceKept
  BY <1>0, <1>1, PolicyTyped, PolicyDues DEF GraceKept
<1>2. ASSUME NEW u \in Accounts, NEW o \in Connectors \cup {Local}, NEW admin \in BOOLEAN,
             CreateUser(u, o, admin)
      PROVE  GraceKept
  BY <1>2, <1>b DEF CreateUser
<1>3. ASSUME NEW u \in Accounts, NEW on \in BOOLEAN,
             SetRole(u, on) \/ SetDelegations(u, on)
      PROVE  GraceKept
  BY <1>3, <1>b DEF SetRole, SetDelegations
<1>4. ASSUME NEW c \in Connectors, DisconnectSCIM(c) PROVE GraceKept
  BY <1>4, <1>c DEF DisconnectSCIM
<1>5. ASSUME NEW g \in Groups, NEW n \in Names,
             CreateGroup(g, n) \/ UpdateGroup(g, n)
      PROVE  GraceKept
  BY <1>5, <1>c DEF CreateGroup, UpdateGroup
<1>6. ASSUME NEW g \in Groups, NEW u \in Accounts, NEW a \in Accounts, NEW on \in BOOLEAN,
             NEW recent \in BOOLEAN, SetGroupMembership(g, u, on, a, recent)
      PROVE  GraceKept
  BY <1>6, <1>b DEF SetGroupMembership
<1>7. ASSUME NEW g \in Groups, NEW a \in Accounts, NEW recent \in BOOLEAN,
             DeleteGroup(g, a, recent)
      PROVE  GraceKept
  BY <1>0, <1>7, CascadeKept DEF DeleteGroup, DeletesGroup
<1>8. ASSUME NEW r, NEW op, NEW c, NEW g, NEW n, NEW members, NEW conditional,
             \/ CreateArrives(r, c, g, n, members)
             \/ GroupArrives(r, op, c, g, n, members, conditional)
      PROVE  GraceKept
  BY <1>8, <1>c DEF CreateArrives, GroupArrives
<1>9. ASSUME NEW r \in Writes,
             CreateUpstreamGroup(r) \/ ReplaceUpstreamGroup(r) PROVE GraceKept
  BY <1>0, <1>9, CreateUpstreamStep, ReplaceUpstreamStep, StayIsKept
<1>10. ASSUME NEW r \in Writes, DeleteUpstreamGroup(r) PROVE GraceKept
  <2>1. req[r].group \in Groups /\ Cascade(req[r].group)
    BY <1>0, <1>10, RequestFacts DEF DeleteUpstreamGroup, DeletesGroup
  <2> QED  BY <1>0, <2>1, CascadeKept
<1>11. ASSUME NEW r, GroupError(r) PROVE GraceKept
  BY <1>11, <1>c DEF GroupError
<1>12. CASE InstantPasses
  BY <1>12, <1>c DEF InstantPasses
<1>13. CASE UNCHANGED groupsVars
  BY <1>13, <1>c DEF groupsVars
<1> QED  BY <1>1, <1>2, <1>3, <1>4, <1>5, <1>6, <1>7, <1>8, <1>9, <1>10, <1>11, <1>12, <1>13
    DEF GroupsNext

\* A deadline never moves later while its policy exists: leaving and joining a group again,
\* a new role, or a policy switched off and on starts no second grace period.
THEOREM NoSecondGrace == GroupsSpec => GraceNeverRestarts
<1>1. GroupsInit => GroupsInv
  BY GroupsInvInit, GroupConstantsHold
<1>2. GroupsInv /\ [GroupsNext]_groupsVars =>
        [\A u \in Accounts, s \in Scopes :
            due[u][s] # None /\ (s \in Groups => There(s)') =>
                due'[u][s] # None /\ due'[u][s] <= due[u][s]]_groupsVars
  BY GraceStep DEF GraceKept
<1> QED  BY <1>1, <1>2, GroupsInvStep, PTL DEF GroupsSpec, GraceNeverRestarts

\* Only its own transaction ends a request.
LEMMA Finishes ==
    ASSUME GroupsInv, [GroupsNext]_groupsVars, NEW r \in Writes,
           req[r] # Free, req'[r] = Free
    PROVE  CreateUpstreamGroup(r) \/ ReplaceUpstreamGroup(r) \/ DeleteUpstreamGroup(r) \/ GroupError(r)
<1>0. GroupsTypeOK /\ req \in [Writes -> Request \cup {Free}]
  BY DEF GroupsInv, GroupsBase, GroupsTypeOK
<1>a. req' # req
  OBVIOUS
<1>1. ASSUME NEW s, NEW p, NEW a, NEW recent, SetEnrollmentPolicy(s, p, a, recent)
             PROVE FALSE
  BY <1>1, <1>a DEF SetEnrollmentPolicy
<1>2. ASSUME NEW u, NEW o, NEW admin, CreateUser(u, o, admin) PROVE FALSE
  BY <1>2, <1>a DEF CreateUser
<1>3. ASSUME NEW u, NEW on, SetRole(u, on) \/ SetDelegations(u, on) PROVE FALSE
  BY <1>3, <1>a DEF SetRole, SetDelegations
<1>4. ASSUME NEW c, DisconnectSCIM(c) PROVE FALSE
  BY <1>4, <1>a DEF DisconnectSCIM
<1>5. ASSUME NEW g, NEW n, CreateGroup(g, n) \/ UpdateGroup(g, n) PROVE FALSE
  BY <1>5, <1>a DEF CreateGroup, UpdateGroup
<1>6. ASSUME NEW g, NEW u, NEW a, NEW on, NEW recent,
             SetGroupMembership(g, u, on, a, recent) PROVE FALSE
  BY <1>6, <1>a DEF SetGroupMembership
<1>7. ASSUME NEW g, NEW a, NEW recent, DeleteGroup(g, a, recent) PROVE FALSE
  BY <1>7, <1>a DEF DeleteGroup
<1>8. ASSUME NEW t \in Writes, NEW op, NEW c, NEW g, NEW n, NEW members, NEW conditional,
             \/ CreateArrives(t, c, g, n, members)
             \/ GroupArrives(t, op, c, g, n, members, conditional)
      PROVE  FALSE
  <2>1. req[t] = Free
    BY <1>8 DEF CreateArrives, GroupArrives
  <2>2. r # t
    BY <2>1
  <2>3. req'[r] = req[r]
    BY <1>0, <1>8, <2>2 DEF CreateArrives, GroupArrives
  <2> QED  BY <2>3
<1>9. ASSUME NEW t \in Writes,
             \/ CreateUpstreamGroup(t) \/ ReplaceUpstreamGroup(t) \/ DeleteUpstreamGroup(t) \/ GroupError(t)
      PROVE  t = r
  <2>1. req' = [req EXCEPT ![t] = Free]
    BY <1>9 DEF CreateUpstreamGroup, ReplaceUpstreamGroup,
         DeleteUpstreamGroup, GroupError
  <2> QED  BY <1>0, <2>1
<1>10. CASE InstantPasses
  BY <1>10, <1>a DEF InstantPasses
<1>11. CASE UNCHANGED groupsVars
  BY <1>11, <1>a DEF groupsVars
<1> QED  BY <1>1, <1>2, <1>3, <1>4, <1>5, <1>6, <1>7, <1>8, <1>9, <1>10, <1>11 DEF GroupsNext

\* A group that carries a required policy is left as it is.
RequiredStays(r) ==
    LET g == req[r].group IN
    policy[g] # NotRequired =>
        /\ group'[g].owner = group[g].owner
        /\ group'[g].name = group[g].name
        /\ group'[g].members = group[g].members

\* The end of a SCIM write leaves such a group.
LEMMA RequiredStep ==
    ASSUME GroupsInv, [GroupsNext]_groupsVars, NEW r \in Writes,
           req[r] # Free, req'[r] = Free
    PROVE  RequiredStays(r)
<1>1. CASE CreateUpstreamGroup(r)
  BY <1>1, CreateUpstreamStep DEF RequiredStays
<1>2. CASE ReplaceUpstreamGroup(r)
  BY <1>2, ReplaceUpstreamStep DEF RequiredStays
<1>3. CASE DeleteUpstreamGroup(r)
  BY <1>3, DeleteUpstreamStep DEF RequiredStays
<1>4. CASE GroupError(r)
  BY <1>4 DEF GroupError, RequiredStays
<1> QED  BY <1>1, <1>2, <1>3, <1>4, Finishes

\* A conditional write that changes a group found it as it was read.
LEMMA ConditionalStep ==
    ASSUME GroupsInv, [GroupsNext]_groupsVars, NEW r \in Writes,
           req[r] # Free, req'[r] = Free,
           req[r].conditional, group'[req[r].group] # group[req[r].group]
    PROVE  /\ group[req[r].group].name = req[r].seen.name
           /\ group[req[r].group].upstream = req[r].seen.upstream
<1>1. Seen(req[r])
  BY DEF GroupsInv
<1>2. CASE CreateUpstreamGroup(r)
  BY <1>1, <1>2 DEF CreateUpstreamGroup, Seen
<1>3. CASE ReplaceUpstreamGroup(r) \/ DeleteUpstreamGroup(r)
  <2>1. Current(req[r])
    BY <1>3 DEF ReplaceUpstreamGroup, DeleteUpstreamGroup
  <2> QED  BY <1>1, <2>1 DEF Current, Seen
<1>4. CASE GroupError(r)
  BY <1>4 DEF GroupError
<1> QED  BY <1>2, <1>3, <1>4, Finishes

\* A SCIM group write computed from an old read renames, empties or deletes no group that
\* carries a required policy by then, and with If-Match it overwrites no other SCIM write.
THEOREM StaleGroupWritesUndoNothing == GroupsSpec => StaleWritesUndoNothing
<1>1. GroupsInit => GroupsInv
  BY GroupsInvInit, GroupConstantsHold
<1>2. GroupsInv /\ [GroupsNext]_groupsVars =>
        [\A r \in Writes : req[r] # Free /\ req'[r] = Free =>
            LET g == req[r].group IN
            policy[g] # NotRequired =>
                /\ group'[g].owner = group[g].owner
                /\ group'[g].name = group[g].name
                /\ group'[g].members = group[g].members]_groupsVars
  BY RequiredStep DEF RequiredStays
<1>3. GroupsInv /\ [GroupsNext]_groupsVars =>
        [\A r \in Writes :
            LET q == req[r] IN
            (q # Free /\ req'[r] = Free /\ q.conditional /\ group'[q.group] # group[q.group]) =>
                /\ group[q.group].name = q.seen.name
                /\ group[q.group].upstream = q.seen.upstream]_groupsVars
  BY ConditionalStep
<1>4. GroupsSpec => RequiredGroupsStay
  BY <1>1, <1>2, GroupsInvStep, PTL DEF GroupsSpec, RequiredGroupsStay
<1>5. GroupsSpec => ConditionalWritesKeepOthers
  BY <1>1, <1>3, GroupsInvStep, PTL DEF GroupsSpec, ConditionalWritesKeepOthers
<1> QED  BY <1>4, <1>5 DEF StaleWritesUndoNothing
=============================================================================
