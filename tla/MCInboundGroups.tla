-------------------------- MODULE MCInboundGroups --------------------------
\* One group that is the upstream's or local, an administrator and an account of either,
\* two factors that policies may set against each other, and two overlapping SCIM writes.
EXTENDS InboundGroups, TLC
Symmetry == Permutations(Factors) \cup Permutations(Writes) \cup Permutations(Names)
=============================================================================
