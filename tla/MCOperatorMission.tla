-------------------------- MODULE MCOperatorMission --------------------------
(***************************************************************************)
(* Instances of OperatorMission.  Both payments have the same terms, so    *)
(* that only their bindings tell them apart; their amount has a zero right *)
(* after the point and one at its end.  The transaction of anna transfers  *)
(* another token too, that of mark pays somebody else in the same token.   *)
(***************************************************************************)
EXTENDS OperatorMission, TLC

CONSTANTS anna, mark

AnnaThenMark == <<anna, mark>>

Transfer(token, recipient, amount) ==
  [token |-> token, recipient |-> recipient, amount |-> amount]

TwinTerms == [e \in Effects |-> Transfer("usdc", "friend", 1050)]
Foreign   == Transfer("weth", "friend", 1050)
Fee       == Transfer("usdc", "relayer", 7)

WithExtras ==
  [e \in Effects |->
    <<[transfer |-> IF e = anna THEN Foreign ELSE Fee, sound |-> TRUE]>>]

ForeignAndFee == {Foreign, Fee}

Symmetry == Permutations(References)
=============================================================================
