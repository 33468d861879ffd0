----------------------------- MODULE MCAccounts -----------------------------
(* Bounded instances of Accounts for TLC.                                  *)
EXTENDS Accounts, TLC

\* Nothing in the specification tells these values apart.
Symmetric == Permutations(Proc) \cup Permutations(Social) \cup Permutations(Link)
               \cup Permutations(Id)
=============================================================================
