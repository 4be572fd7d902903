--------------------------- MODULE MCOAuthGrants ---------------------------
(***************************************************************************)
(* An instance of OAuthGrants: one account signed in at one client, with   *)
(* two token requests racing.                                              *)
(***************************************************************************)
EXTENDS OAuthGrants

CONSTANT u1

OneOwner == [s \in Sessions |-> u1]
=============================================================================
