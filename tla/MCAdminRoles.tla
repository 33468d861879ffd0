---------------------------- MODULE MCAdminRoles ----------------------------
\* Instances of AdminRoles for TLC.
EXTENDS AdminRoles, TLC

CONSTANTS u1, u2, p1, p2, admin, default

Symmetric == Permutations(User) \cup Permutations(Proc)
=============================================================================
