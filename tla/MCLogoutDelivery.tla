------------------------- MODULE MCLogoutDelivery -------------------------
(***************************************************************************)
(* Instances of LogoutDelivery: one or two deliveries to one client, whose *)
(* receiver the worker loops contend for.                                  *)
(***************************************************************************)
EXTENDS LogoutDelivery

CONSTANT c1

OneClient == [d \in Deliveries |-> c1]
=============================================================================
