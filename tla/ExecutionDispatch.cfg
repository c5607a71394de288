\* Safety of the dispatch layer, and its refinement of SinglePayment.
SPECIFICATION Spec
CONSTANTS
  Effects     = {e1, e2}
  Contents    = {c1, c2}
  References  = {r1, r2}
  Dispatchers = {d1, d2}
  None        = None
INVARIANTS
  TypeOK
  PaidAtMostOnce
  NeverSentUnclaimed
  SentAsJournaled
  AcknowledgedIsTraceable
  FinalFailureMeansNoPayment
  ReferenceServesOneEffect
PROPERTY ImplementsSinglePayment
SYMMETRY Symmetry
