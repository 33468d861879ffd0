----------------------------- MODULE MCSessions -----------------------------
(* Bounded instances of Sessions and of its inductive invariant for TLC.   *)
EXTENDS SessionsInv, TLC

\* Requests and tokens are interchangeable, and so are users where all are
\* administrators.
Symmetric == Permutations(Proc) \cup Permutations(Token)
UserSymmetric == Symmetric \cup Permutations(User)
=============================================================================
