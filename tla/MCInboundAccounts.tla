------------------------- MODULE MCInboundAccounts -------------------------
\* Two accounts and two connectors, with one SCIM write and one administrator request that
\* overlap everything else.
EXTENDS InboundAccounts, TLC
Symmetry == Permutations(Users) \cup Permutations(Emails)
=============================================================================
