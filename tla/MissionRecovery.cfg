\* Two effects, interrupted anywhere in their execution; one reconciler, fair recovery.
SPECIFICATION FairInterruptedSpec
CONSTANTS
  Effects     = {e1, e2}
  Contents    = {c1}
  References  = {e1, e2}
  Dispatchers = {}
  Reconcilers = {q1}
  None        = None
  Terms      <- OwnTerms
  Outside     = {}
  Crashes     = FALSE
PROPERTY ConfirmedIsRecorded
