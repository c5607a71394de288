\* One effect, two rival plans: two dispatchers, a reconciler, a verifier that may be shown another transfer, a planner and a doctor.
SPECIFICATION PlanSpec
CONSTANTS
  Effects     = {e1}
  Contents    = {c1, c2}
  References  = {r1}
  Dispatchers = {d1, d2}
  Reconcilers = {q1}
  None        = None
  Terms      <- OwnTerms
  Outside     = {other}
  Crashes     = FALSE
INVARIANTS
  VerifiedDisputesAreFalse
  ReportedCompleteIsPaid
PROPERTIES
  RefinesDispatch
  MissingWasNotSent
  ManualIsGrounded
SYMMETRY Symmetry
