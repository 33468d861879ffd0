CONSTANTS
  None = None
  User = {u1, u2}
  Token = {t1, t2}
  Key = {k1, k2}
  SignIn = {i1, i2}
  Proc = {p1, p2}
  Server = {s1}
  MaxDraws = 2
  Statuses = {"ACTIVE", "SUSPENDED"}
SPECIFICATION Spec
SYMMETRY Symmetric
INVARIANTS
  OneSessionPerSignIn
  SessionOfOwnSignIn
PROPERTIES
  LiveCodeSpentOnlyByItsClient
  SignInNeverGoesBack
