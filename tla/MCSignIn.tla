------------------------------ MODULE MCSignIn ------------------------------
(* Symmetric identifiers for model checking SignIn.                        *)
EXTENDS SignIn, TLC

Symmetry == Permutations(Requests) \cup Permutations(Tokens)
=============================================================================
