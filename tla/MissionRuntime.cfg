\* A mission of two effects, one dispatcher and one reconciler.
SPECIFICATION Spec
CONSTANTS
  Effects     = {e1, e2}
  Contents    = {c1}
  References  = {r1}
  Dispatchers = {d1}
  Reconcilers = {q1}
  None        = None
  Terms      <- OwnTerms
  Outside     = {}
  Crashes     = TRUE
INVARIANTS
  TypeOK
  CompletedIsPaid
SYMMETRY Symmetry
