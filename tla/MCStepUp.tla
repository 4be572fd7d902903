------------------------------ MODULE MCStepUp ------------------------------
(* Two requests of one account, in one or two browsers.                    *)
EXTENDS StepUp, TLC

Symmetry == Permutations(Sessions) \cup Permutations(Tokens)
              \cup Permutations(Requests)
=============================================================================
