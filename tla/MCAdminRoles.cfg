\* Two users who change each other's roles and status, and the bootstrap.
CONSTANTS
  None = None
  u1 = u1  u2 = u2  p1 = p1  p2 = p2  admin = admin  default = default
  User = {u1, u2}
  Role = {admin, default}
  AdminRole = admin
  DefaultRole = default
  Proc = {p1, p2}
  Kinds = {"setStatus", "assign", "remove", "bootstrap", "backfill"}
  Statuses = {"ACTIVE", "PENDING_EMAIL_VERIFICATION", "SUSPENDED"}
SPECIFICATION Spec
SYMMETRY Symmetric
INVARIANTS
  RolesMatchAudit
PROPERTIES
  LastAdminFallsOnlyToOverlap
