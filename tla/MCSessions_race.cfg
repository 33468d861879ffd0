\* Sign-ins and refreshes of u1 and u2 against the suspension of u1 by u2.
CONSTANTS
  None = None
  User = {u1, u2}
  Token = {t1, t2, t3}
  Proc = {p1, p2, p3}
  Admin = {u2}
  MaxAttempts = 2
  Kinds = {"issue", "rotate", "setStatus"}
  Statuses = {"ACTIVE", "SUSPENDED"}
SPECIFICATION Spec
SYMMETRY Symmetric
INVARIANTS
  BarredUserHasNoLiveSession
  OneSuccessorPerToken
\* Nothing arrives once every token is spent and the administrator is suspended.
CHECK_DEADLOCK FALSE
