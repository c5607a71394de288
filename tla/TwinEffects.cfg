\* Two effects on the same terms.
SPECIFICATION Spec
CONSTANTS
  Effects     = {e1, e2}
  Contents    = {c1}
  References  = {r1}
  Dispatchers = {d1}
  Reconcilers = {q1}
  None        = None
  Terms      <- TwinTerms
  Outside     = {}
  Crashes     = TRUE
INVARIANTS
  EachConfirmationHasItsTransfer
SYMMETRY Symmetry
