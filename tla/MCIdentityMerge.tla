--------------------------- MODULE MCIdentityMerge ---------------------------
EXTENDS IdentityMerge, TLC

CONSTANT e1

\* Two Google accounts of one address.
SameAddress == [s \in Social |-> e1]

Symmetric == Permutations(User)
=============================================================================
