------------------------- MODULE MCOrgEntitlements -------------------------
EXTENDS OrgEntitlements, TLC

\* The processes are alike, and so are the users other than the owner.
Symmetric == Permutations(Procs) \union Permutations(Users \ {Owner})
=============================================================================
