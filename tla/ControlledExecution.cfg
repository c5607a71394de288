\* Two simulators and two broadcasters, two plans of one effect, three approvals.
SPECIFICATION Spec
CONSTANTS
  Effects     = {e1}
  Contents    = {c1, c2}
  References  = {r1}
  Dispatchers = {d1, d2}
  Simulators  = {m1, m2}
  Approvals   = {a1, a2, a3}
  None        = None
INVARIANTS
  TypeOK
  SimulatedAtMostOnce
  BroadcastWasSimulated
  EveryPostIsApproved
  LedgerTellsTheTruth
PROPERTY RefinesDispatch
SYMMETRY Symmetry
