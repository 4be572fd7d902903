------------------------- MODULE AccountLifecycle -------------------------
(***************************************************************************)
(* Accounts, their role, status, upstream state and end date, as written by *)
(* administrators, an upstream SCIM connector and the expiry follow-up, and *)
(* the rule that an administrator who can still act always remains.        *)
(*                                                                         *)
(* An administrator's edit reads the row when the request arrives and      *)
(* writes the whole row in a later transaction; the follow-up reads its    *)
(* list of ended accounts before the transactions that end them. Both are  *)
(* two steps here.                                                         *)
(***************************************************************************)
EXTENDS Naturals, FiniteSets

CONSTANTS
    Users,
    Admins,     \* accounts that start as administrators
    Upstream,   \* accounts that start owned by the SCIM connector
    Requests,   \* administrator edits in progress
    Never,      \* no end date
    MaxTime,    \* bound: instants of the clock
    MaxWrites   \* bound: account writes other than the follow-up's

ASSUME AccountAssumption == Admins \subseteq Users /\ Upstream \subseteq Users
ASSUME TimeAssumption == MaxTime \in Nat /\ MaxWrites \in Nat /\ Never \notin Nat

VARIABLES
    acct,       \* users rows
    sessions,   \* accounts with a session row
    clock,
    edit,       \* edit[r]: the row an UpdateUser request has read
    pass,       \* RunDueExpiries: the ended accounts it has read and not yet handled
    writes

vars == <<acct, sessions, clock, edit, pass, writes>>

-----------------------------------------------------------------------------
Instants == 0..MaxTime
Account == [exists : BOOLEAN, role : {"admin", "user"}, status : {"active", "disabled"},
            end : Instants \cup {Never}, owned : BOOLEAN, sourceActive : BOOLEAN,
            localOff : BOOLEAN]
NoEdit == [open |-> FALSE]
Edit == [open : {TRUE}, user : Users, row : Account]
Due == [user : Users, role : {"admin", "user"}]

Past(a) == a.end # Never /\ a.end <= clock

\* scanUser: an account past its end date reads as disabled.
Scan(a) == IF Past(a) THEN [a EXCEPT !.status = "disabled"] ELSE a

\* activeAdminSQL, over rows A.
ActiveAdmins(A) ==
    {u \in Users : A[u].exists /\ A[u].role = "admin" /\ A[u].status = "active" /\ ~Past(A[u])}

\* ApplySourceState
ApplySourceState(a) ==
    IF ~a.owned THEN a
    ELSE [a EXCEPT !.status = IF a.sourceActive /\ ~a.localOff THEN "active" ELSE "disabled"]

Init ==
    /\ acct = [u \in Users |->
                 [exists |-> TRUE, role |-> IF u \in Admins THEN "admin" ELSE "user",
                  status |-> "active", end |-> Never, owned |-> u \in Upstream,
                  sourceActive |-> TRUE, localOff |-> FALSE]]
    /\ sessions = {}
    /\ clock = 0
    /\ edit = [r \in Requests |-> NoEdit]
    /\ pass = {}
    /\ writes = 0

MayWrite == writes < MaxWrites /\ writes' = writes + 1

-----------------------------------------------------------------------------
(* updateUser                                                              *)

\* A newly set end date, as the transaction sees it.
SchedulingEnd(current, new) == new.end # Never /\ new.end # current.end

\* Bug: an administrator past the end date still counts.
KeepsAnAdminByStatus(current, new) ==
    (/\ current.role = "admin" /\ Scan(current).status = "active"
     /\ (new.role # "admin" \/ new.status # "active" \/ SchedulingEnd(current, new)))
    => Cardinality({u \in Users : acct[u].exists /\ acct[u].role = "admin"
                                               /\ acct[u].status = "active"}) > 1

\* The guard of the last active administrator, on the rows of the transaction.
KeepsAnAdmin(current, new) ==
    (/\ current.role = "admin" /\ Scan(current).status = "active"
     /\ (new.role # "admin" \/ new.status # "active" \/ SchedulingEnd(current, new)))
    => Cardinality(ActiveAdmins(acct)) > 1

Accepts(current, new) ==
    /\ current.exists
    /\ SchedulingEnd(current, new) => new.end > clock
    /\ KeepsAnAdmin(current, new)

\* The row, and offboardUserTx when it was active and reads as disabled now, or
\* revokeUserAccessTx when the caller asks for it.
Write(u, new, revoke) ==
    /\ acct' = [acct EXCEPT ![u] = new]
    /\ sessions' = IF \/ Scan(acct[u]).status = "active" /\ Scan(new).status = "disabled"
                      \/ revoke
                   THEN sessions \ {u} ELSE sessions

-----------------------------------------------------------------------------
(* Writers                                                                 *)

\* UpdateUser, up to GetUserByID.
ReadUser(r, u) ==
    /\ ~edit[r].open /\ acct[u].exists /\ writes < MaxWrites
    /\ edit' = [edit EXCEPT ![r] = [open |-> TRUE, user |-> u, row |-> Scan(acct[u])]]
    /\ UNCHANGED <<acct, sessions, clock, pass, writes>>

\* The form over the row that was read: role and end as given, a status on an owned
\* account as the local override.
Filled(seen, role, status, end) ==
    LET f == [seen EXCEPT !.role = role, !.status = status, !.end = end] IN
    IF seen.owned THEN ApplySourceState([f EXCEPT !.localOff = (status = "disabled")]) ELSE f

\* What updateUser stores of it: the upstream's fields are the row's.
Merged(f, current) ==
    ApplySourceState([f EXCEPT !.owned = current.owned, !.sourceActive = current.sourceActive])

\* The rest of UpdateUser, whose request may leave every field as it was read.
SaveUser(r, role, status, end, given, password) ==
    LET seen == edit[r].row
        u == edit[r].user
        form == IF given THEN Filled(seen, role, status, end)
                ELSE [seen EXCEPT !.role = role, !.end = end]
        new == Merged(form, acct[u])
        revoke == \/ password
                  \/ seen.status = "active" /\ form.status = "disabled"
                  \/ seen.role = "admin" /\ role # "admin"
    IN
    /\ edit[r].open /\ MayWrite
    /\ edit' = [edit EXCEPT ![r] = NoEdit]
    /\ IF Accepts(acct[u], new) THEN Write(u, new, revoke) ELSE UNCHANGED <<acct, sessions>>
    /\ UNCHANGED <<clock, pass>>

\* UpdateUpstreamUser: everything but the upstream's flag is the row's at write time.
UpdateUpstreamUser(u, active) ==
    LET new == ApplySourceState([acct[u] EXCEPT !.sourceActive = active]) IN
    /\ MayWrite
    /\ acct[u].owned /\ Accepts(acct[u], new)
    /\ Write(u, new, FALSE)
    /\ UNCHANGED <<clock, edit, pass>>

\* DeleteUserWithSyncEvents
DeleteUser(u) ==
    /\ MayWrite
    /\ acct[u].exists
    /\ acct[u].role = "admin" /\ Scan(acct[u]).status = "active"
          => Cardinality(ActiveAdmins(acct)) > 1
    /\ acct' = [acct EXCEPT ![u].exists = FALSE]
    /\ sessions' = sessions \ {u}
    /\ UNCHANGED <<clock, edit, pass>>

\* DeleteSCIMConnector: the accounts become local, disabled first when asked.
DeleteSCIMConnector(off) ==
    LET own == {u \in Users : acct[u].exists /\ acct[u].owned}
        act == ActiveAdmins(acct)
    IN
    /\ MayWrite
    /\ own # {}
    /\ off => act \cap own = {} \/ ~(act \subseteq own)
    /\ acct' = [u \in Users |->
          IF u \notin own THEN acct[u]
          ELSE [acct[u] EXCEPT !.owned = FALSE, !.sourceActive = TRUE, !.localOff = FALSE,
                   !.status = IF off THEN "disabled" ELSE Scan(acct[u]).status]]
    /\ sessions' = IF off THEN sessions \ {u \in own : Scan(acct[u]).status = "active"}
                   ELSE sessions
    /\ UNCHANGED <<clock, edit, pass>>

-----------------------------------------------------------------------------
(* RunDueExpiries, the part about accounts                                 *)

\* The list is read outside the transactions that follow.
ReadEnded ==
    /\ pass = {}
    /\ pass' = {[user |-> u, role |-> acct[u].role] :
                  u \in {v \in Users : acct[v].exists /\ acct[v].status = "active" /\ Past(acct[v])}}
    /\ UNCHANGED <<acct, sessions, clock, edit, writes>>

Others(u) == ActiveAdmins(acct) \ {u}

\* Bug: the refusal leaves the end date in place.
EndAccountRefusing(x) ==
    LET u == x.user IN
    /\ x \in pass /\ pass' = pass \ {x}
    /\ IF x.role = "admin" /\ Others(u) = {}
       THEN UNCHANGED <<acct, sessions>>
       ELSE /\ acct' = [acct EXCEPT ![u].status = "disabled", ![u].localOff = TRUE]
            /\ sessions' = sessions \ {u}
    /\ UNCHANGED <<clock, edit, writes>>

\* One transaction per account of the list, with the role the list says.
EndAccount(x) ==
    LET u == x.user IN
    /\ x \in pass /\ pass' = pass \ {x}
    /\ IF x.role = "admin" /\ Others(u) = {}
       THEN acct' = [acct EXCEPT ![u].end = Never] /\ UNCHANGED sessions
       ELSE /\ acct' = [acct EXCEPT ![u].status = "disabled", ![u].localOff = TRUE]
            /\ sessions' = sessions \ {u}
    /\ UNCHANGED <<clock, edit, writes>>

-----------------------------------------------------------------------------
(* Logins and time                                                         *)

\* CreateSession's own condition, on the stored status.
SignIn(u) ==
    /\ u \notin sessions /\ acct[u].exists /\ acct[u].status = "active"
    /\ sessions' = sessions \cup {u}
    /\ UNCHANGED <<acct, clock, edit, pass, writes>>

SessionEnds(u) ==
    /\ u \in sessions /\ sessions' = sessions \ {u}
    /\ UNCHANGED <<acct, clock, edit, pass, writes>>

TimePasses ==
    /\ clock < MaxTime /\ clock' = clock + 1
    /\ UNCHANGED <<acct, sessions, edit, pass, writes>>

Next ==
    \/ \E r \in Requests, u \in Users : ReadUser(r, u)
    \/ \E r \in Requests, role \in {"admin", "user"}, status \in {"active", "disabled"},
          end \in Instants \cup {Never}, given, password \in BOOLEAN :
            SaveUser(r, role, status, end, given, password)
    \/ \E u \in Users, active \in BOOLEAN : UpdateUpstreamUser(u, active)
    \/ \E u \in Users : DeleteUser(u) \/ SignIn(u) \/ SessionEnds(u)
    \/ \E off \in BOOLEAN : DeleteSCIMConnector(off)
    \/ ReadEnded
    \/ \E x \in Due : EndAccount(x)
    \/ TimePasses

Spec == Init /\ [][Next]_vars

\* StartWorker runs the follow-up at start and every minute, and a pass goes through its list.
Fairness == WF_vars(ReadEnded) /\ \A x \in Due : WF_vars(EndAccount(x))

FairSpec == Spec /\ Fairness

-----------------------------------------------------------------------------
(* Properties                                                              *)

\* Rows, forms and the follow-up's list have their shape, and no session outlives its account.
TypeOK ==
    /\ acct \in [Users -> Account]
    /\ sessions \subseteq {u \in Users : acct[u].exists}
    /\ clock \in Instants
    /\ edit \in [Requests -> Edit \cup {NoEdit}]
    /\ pass \subseteq Due
    /\ writes \in 0..MaxWrites

\* "UpdateUserWithSyncEvents preserves the active-admin invariant": no edit, however old
\* the row it was filled in from, no upstream write, deletion or disconnection removes
\* the last administrator who can still act.
AdminsOutliveWrites ==
    [][ActiveAdmins(acct) # {} /\ writes' # writes => ActiveAdmins(acct') # {}]_vars

\* "The rows themselves are the persisted due work": an account past its end date is
\* disabled, or its end date is moved or cleared.
EndsAreEnforced ==
    \A u \in Users :
        acct[u].exists /\ acct[u].status = "active" /\ Past(acct[u])
            ~> ~(acct[u].exists /\ acct[u].status = "active" /\ Past(acct[u]))
=============================================================================
