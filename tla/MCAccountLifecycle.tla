------------------------ MODULE MCAccountLifecycle ------------------------
(***************************************************************************)
(* Instances of AccountLifecycle: two accounts, one of them upstream's,    *)
(* and one or two edits in progress.                                       *)
(***************************************************************************)
EXTENDS AccountLifecycle
=============================================================================
