------------------------ MODULE MCExecutionDispatch ------------------------
(***************************************************************************)
(* Two dispatchers, two effects, two rival plans for each effect and two   *)
(* provider references: every race and crash of ExecutionDispatch.  The    *)
(* module treats the members of each set alike, and only safety is asked   *)
(* of this model, so all four sets are symmetric.                          *)
(***************************************************************************)
EXTENDS ExecutionDispatch, TLC

Symmetry ==
  Permutations(Effects) \cup Permutations(Contents)
    \cup Permutations(References) \cup Permutations(Dispatchers)
=============================================================================
