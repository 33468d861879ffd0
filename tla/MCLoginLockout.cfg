CONSTANTS
  None = None
  User = {u1}
  Password = {w1, w2}
  ResetToken = {r1, r2}
  Proc = {p1, p2}
  Threshold = 2
  LockTime = 2
  MaxTime = 3
SPECIFICATION Spec
SYMMETRY Symmetric
INVARIANTS
  LockFollowsCount
  EveryFailureCounts
  GuessesBounded
PROPERTIES
  LockHolds
