SPECIFICATION Spec
CONSTANTS
  Ports      = {p1, p2, p3}
  Effects    = {e1, e2}
  Missions   = {m1, m2}
  Surfaces   = {s1, s2}
  References = {r1, r2}
  None       = None
INVARIANTS
  TypeOK
  OneSurfacePerEffect
  ReferenceBindsOneEffect
PROPERTY BindingIsForGood
SYMMETRY Symmetry
