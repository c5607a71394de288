------------------------ MODULE MCControlledExecution ------------------------
(***************************************************************************)
(* Instances of ControlledExecution.  What a request of the port asks for  *)
(* is opaque here; that the decimal string in it is the amount asked for   *)
(* is checked apart from the states, over every amount of up to four       *)
(* digits in tokens of up to three decimals.                               *)
(***************************************************************************)
EXTENDS ControlledExecution, TLC

Amounts == INSTANCE TransferAmounts

ASSUME AmountsAreFaithful ==
  \A units \in 1..2100, decimals \in 0..3 : Amounts!IsFaithful(units, decimals)

Symmetry ==
  Permutations(Effects) \cup Permutations(Contents) \cup Permutations(References)
    \cup Permutations(Dispatchers) \cup Permutations(Simulators)
    \cup Permutations(Approvals)
=============================================================================
