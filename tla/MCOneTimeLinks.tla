--------------------------- MODULE MCOneTimeLinks ---------------------------
EXTENDS OneTimeLinks, TLC

CONSTANTS r1, v1, v2, s1, c1, u1

\* A reset and two verifications of one user, a state and a code.
Kinds == [g \in Grant |-> CASE g = r1 -> "reset"
                            [] g \in {v1, v2} -> "verify"
                            [] g = s1 -> "state"
                            [] g = c1 -> "code"]

Owners == [g \in Grant |-> u1]
=============================================================================
