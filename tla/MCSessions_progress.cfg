\* Liveness: sign-ins and revocations by two administrators of each
\* other against the retention job.  No symmetry.
CONSTANTS
  None = None
  User = {u1, u2}
  Token = {t1, t2}
  Proc = {p1, p2}
  Admin = {u1, u2}
  MaxAttempts = 2
  Kinds = {"issue", "revokeSessions", "cleanup"}
  Statuses = {"ACTIVE"}
SPECIFICATION FairSpec
PROPERTIES
  EveryRequestEnds
