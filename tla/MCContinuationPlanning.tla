----------------------- MODULE MCContinuationPlanning -----------------------
(***************************************************************************)
(* Instances of ContinuationPlanning: every effect has its own terms.      *)
(***************************************************************************)
EXTENDS ContinuationPlanning, TLC

OwnTerms == [e \in Effects |-> e]

Symmetry ==
  Permutations(Effects) \cup Permutations(Contents) \cup Permutations(References)
    \cup Permutations(Dispatchers) \cup Permutations(Reconcilers)
=============================================================================
