\* Sign-ins of two users against everything that gives or takes a role.
CONSTANTS
  None = None
  u1 = u1  u2 = u2  p1 = p1  p2 = p2  admin = admin  default = default
  User = {u1, u2}
  Role = {admin, default}
  AdminRole = admin
  DefaultRole = default
  Proc = {p1, p2}
  Kinds = {"issue", "remove", "revokeSessions", "bootstrap", "backfill"}
  Statuses = {"ACTIVE", "SUSPENDED"}
SPECIFICATION Spec
SYMMETRY Symmetric
INVARIANTS
  LiveSessionsCarryHeldRoles
