CONSTANTS
  None = None
  Id = {i1, i2, i3}
  Email = {e1}
  Social = {s1}
  Link = {l1}
  Proc = {p1, p2}
SPECIFICATION Spec
SYMMETRY Symmetric
PROPERTY
  OnlyPendingDiscarded
