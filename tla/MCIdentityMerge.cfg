SPECIFICATION Spec
CONSTANTS
  User = {u1, u2, u3}
  Email = {e1}
  Social = {g1, g2}
  e1 = e1
  AddressOf <- SameAddress
  None = None
  FastJob = {fast}
  ExpressJob = {express}
  Proc = {p1}
  Suspensions = 2
SYMMETRY Symmetric
INVARIANTS
  IInv
  PasswordWithItsAddress
  ReportsCommits
PROPERTIES
  StaleNeverMerged
  PasswordsSurvive
CHECK_DEADLOCK FALSE
