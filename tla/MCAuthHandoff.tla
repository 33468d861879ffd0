--------------------------- MODULE MCAuthHandoff ---------------------------
(* Bounded instances of AuthHandoff for TLC.                               *)
EXTENDS AuthHandoff, TLC

\* Nothing in the specification tells these values apart.
Symmetric == Permutations(Proc) \cup Permutations(Token) \cup Permutations(Key)
               \cup Permutations(SignIn) \cup Permutations(User)
=============================================================================
