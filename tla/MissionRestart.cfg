\* Two payments sent and not verified, two reconcilers that may crash.
SPECIFICATION SentSpec
CONSTANTS
  Effects     = {e1, e2}
  Contents    = {c1}
  References  = {e1, e2}
  Dispatchers = {}
  Reconcilers = {q1, q2}
  None        = None
  Terms      <- OwnTerms
  Outside     = {}
  Crashes     = TRUE
INVARIANTS
  VerifiedIsConfirmed
  AllVerifiedIsCompleted
SYMMETRY Symmetry
