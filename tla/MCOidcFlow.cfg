CONSTANTS
  None = None
  Admin = Admin
  Flow = {f1}
  State = {s1}
  Code = {c1}
  Token = {t1, t2}
  User = {u1}
  Proc = {p1, p2}
SPECIFICATION FairSpec
INVARIANTS
  OneCodeOneToken
  DecisionHolds
  GivenIsAudited
  OrphanTakesTwoFailures
PROPERTIES
  EveryRequestEnds
