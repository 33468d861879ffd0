--------------------------- MODULE MCLoginLockout ---------------------------
(* Bounded instances of LoginLockout for TLC.                              *)
EXTENDS LoginLockout, TLC

\* Nothing in the specification tells these values apart.
Symmetric ==
  Permutations(Proc) \cup Permutations(ResetToken) \cup Permutations(Password)
=============================================================================
