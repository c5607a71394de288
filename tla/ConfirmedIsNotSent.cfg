\* A payment made outside the system confirms an effect that is about to be sent.
SPECIFICATION Spec
CONSTANTS
  Effects     = {e1}
  Contents    = {c1}
  References  = {r1}
  Dispatchers = {d1}
  Reconcilers = {q1}
  None        = None
  Terms      <- OwnTerms
  Outside     = {e1}
  Crashes     = TRUE
PROPERTY ConfirmedIsNotSent
