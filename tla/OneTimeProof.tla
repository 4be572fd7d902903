---------------------------- MODULE OneTimeProof ----------------------------
(***************************************************************************)
(* What re-authentication promises ("one re-authentication authorizes      *)
(* exactly one change", api/stepup.go): a proof is given for one operation *)
(* of one login, lets that operation through once, and changes the account *)
(* at most once. StepUp implements it.                                     *)
(***************************************************************************)
CONSTANTS Proofs, Purposes, NoPurpose

VARIABLES
    stage,     \* how far each proof has come
    purpose,   \* the login and operation it is given for
    acted      \* the login and operation it let through

vars == <<stage, purpose, acted>>

Stages == {"unused", "asked", "granted", "authorised", "done", "dead"}

Init ==
    /\ stage = [t \in Proofs |-> "unused"]
    /\ purpose = [t \in Proofs |-> NoPurpose]
    /\ acted = [t \in Proofs |-> NoPurpose]

Move(t, from, to) ==
    stage[t] \in from /\ stage' = [stage EXCEPT ![t] = to]

(* A second factor is awaited.                                             *)
Ask(t, p) ==
    /\ Move(t, {"unused"}, "asked")
    /\ purpose' = [purpose EXCEPT ![t] = p]
    /\ UNCHANGED acted

(* The proof is complete, in one request or in two.                        *)
GrantAtOnce(t, p) ==
    /\ Move(t, {"unused"}, "granted")
    /\ purpose' = [purpose EXCEPT ![t] = p]
    /\ UNCHANGED acted

Grant(t) == Move(t, {"asked"}, "granted") /\ UNCHANGED <<purpose, acted>>

(* The operation it was given for, in the login it was given in.           *)
Authorise(t) ==
    /\ Move(t, {"granted"}, "authorised")
    /\ acted' = [acted EXCEPT ![t] = purpose[t]]
    /\ UNCHANGED purpose

Change(t) == Move(t, {"authorised"}, "done") /\ UNCHANGED <<purpose, acted>>

(* Proofs not used yet end together with a login, a reset or the clock.    *)
Void(T) ==
    /\ \A t \in T : stage[t] \in {"asked", "granted"}
    /\ stage' = [t \in Proofs |-> IF t \in T THEN "dead" ELSE stage[t]]
    /\ UNCHANGED <<purpose, acted>>

Next ==
    \/ \E t \in Proofs, p \in Purposes : Ask(t, p) \/ GrantAtOnce(t, p)
    \/ \E t \in Proofs : Grant(t) \/ Authorise(t) \/ Change(t)
    \/ \E T \in SUBSET Proofs : Void(T)

Spec == Init /\ [][Next]_vars
=============================================================================
