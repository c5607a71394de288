\* Three rival admissions of one mission key, two of them of the same content.
SPECIFICATION Spec
CONSTANTS
  Admitters = {a1, a2, a3}
  Contents  = {c1, c2}
  None      = None
INVARIANTS
  TypeOK
  NeverExhausted
  OneContentPerKey
PROPERTY NeverTakenBack
SYMMETRY Symmetry
