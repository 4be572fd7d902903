--------------------------- MODULE MCProvisioning ---------------------------
(***************************************************************************)
(* Instances of Provisioning for TLC: one account, which every property is *)
(* about, and one connector at a time. The safety run starts with two and  *)
(* removes either: what is left is a webhook served by overlapping passes, *)
(* or a SCIM connector with one more event, a removal and a restore.       *)
(***************************************************************************)
EXTENDS Provisioning, TLC

CONSTANTS webhook, scim

\* One more event than it takes to create and deactivate, where the webhook stops.
SerialBound == [s \in Systems |-> IF s = scim THEN 3 ELSE 2]

\* A claim takes some unused token, which one is immaterial: tokens are only compared.
Interchangeable == Permutations(Dispatchers) \cup Permutations(Tokens)

\* The scenarios of the safety run, as a constraint on its steps: passes overlap on the
\* webhook while no MFA reset is queued there; the SCIM connector sees one pass at a time,
\* and is unpaired or restored, not both. What becomes of the target of a system no longer
\* paired is of no interest.
Scenarios ==
    LET busy == {d \in Dispatchers : disp'[d] # Idle}
        reset == \E e \in events' : e.type = "mfa_reset"
        gone == {p \in Pairs : p[1] \notin paired}
    IN  /\ paired = Systems => paired' # Systems
        /\ \A p \in gone : remote'[p] = remote[p]
        /\ webhook \in paired /\ paired # Systems => paired' = paired /\ restores' = 0
        /\ restores' > 0 => scim \in paired'
        /\ webhook \notin paired' => ~reset
        /\ webhook \notin paired' \/ reset => Cardinality(busy) <= 1
=============================================================================
