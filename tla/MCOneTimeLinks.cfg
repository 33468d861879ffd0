SPECIFICATION FairSpec
CONSTANTS
  r1 = r1
  v1 = v1
  v2 = v2
  s1 = s1
  c1 = c1
  u1 = u1
  Grant = {r1, v1, v2, s1, c1}
  User = {u1}
  Proc = {p1, p2}
  None = None
  KindOf <- Kinds
  OwnerOf <- Owners
INVARIANTS
  VerifySpentOrNeedless
PROPERTIES
  ResetLostOnlyToRename
  EveryGrantIsOneTime
  EveryPresentationEnds
