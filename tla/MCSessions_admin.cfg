\* Every kind of request, two at a time; both users administer each other.
CONSTANTS
  None = None
  User = {u1, u2}
  Token = {t1, t2}
  Proc = {p1, p2}
  Admin = {u1, u2}
  MaxAttempts = 2
  Kinds = {"issue", "rotate", "logout", "setStatus", "revokeSessions", "cleanup"}
  Statuses = {"ACTIVE", "SUSPENDED"}
SPECIFICATION Spec
SYMMETRY UserSymmetric
INVARIANTS
  IInv
  SessionRequestsNeverDeadlock
PROPERTIES
  DeadSessionsStayDead
  RevokeAllLeavesNothingLive
  ImplementsStore
