\* Every tool, one after the other: two payments on the same terms, one terminal for each command.
SPECIFICATION OpSpec
CONSTANTS
  anna        = anna
  mark        = mark
  Effects     = {anna, mark}
  Order      <- AnnaThenMark
  Tools       = {"video", "rehearsal", "one_shot", "canary"}
  Contents    = {c1}
  References  = {r1, r2}
  Dispatchers = {d1}
  Simulators  = {m1}
  Reconcilers = {q1}
  None        = None
  Terms      <- TwinTerms
  Outside    <- ForeignAndFee
  Extras     <- WithExtras
  Decimals    = 3
  Crashes     = TRUE
INVARIANTS
  PaidInSequence
  ConfirmedWasPaid
  ConfirmedIsBound
  NextStaysExecutable
  PaidIsNotDisputed
PROPERTY RefinesControlled
SYMMETRY Symmetry
CHECK_DEADLOCK FALSE
