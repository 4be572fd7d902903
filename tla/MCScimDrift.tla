----------------------------- MODULE MCScimDrift -----------------------------
(* Instances of ScimDrift for model checking.                              *)
EXTENDS ScimDrift
=============================================================================
