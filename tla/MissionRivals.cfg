\* One effect: a dispatcher and two reconcilers race, and a verifier may be shown another transfer.
SPECIFICATION Spec
CONSTANTS
  Effects     = {e1}
  Contents    = {c1}
  References  = {r1}
  Dispatchers = {d1}
  Reconcilers = {q1, q2}
  None        = None
  Terms      <- OwnTerms
  Outside     = {other}
  Crashes     = TRUE
INVARIANTS
  VerifiedIsConfirmed
  ConfirmedWasPaid
SYMMETRY Symmetry
