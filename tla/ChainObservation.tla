--------------------------- MODULE ChainObservation ---------------------------
(***************************************************************************)
(* What one look at a transaction shows: BaseSepoliaErc20TransferVerifier  *)
(* (integrations/base_sepolia_rpc_verification.py), as a function of the   *)
(* receipt and of the height of the chain the RPC node answers with.       *)
(*                                                                         *)
(* A transfer is a record with a token, the rest of its fields standing    *)
(* for sender, recipient and amount.  A log is a transfer that may be      *)
(* malformed, or not bound to its receipt (sound = FALSE); the logs of     *)
(* other events are left out, as the code skips them.                      *)
(***************************************************************************)
EXTENDS Naturals, Sequences

NoReceipt == [found |-> FALSE, succeeded |-> FALSE, block |-> 0, logs |-> <<>>]

NotFound  == [status |-> "NOT_FOUND"]
Ambiguous == [status |-> "AMBIGUOUS"]
Raised    == [status |-> "RAISED"]

Seen(transfer, confirmations) ==
  [status |-> "VERIFIED_TRANSFER", transfer |-> transfer, confirmations |-> confirmations]

OfToken(token, logs) == {i \in DOMAIN logs : logs[i].transfer.token = token}

\* _parse_transfer_log: a malformed log of the expected token is an error, any
\* other malformed log is passed over.
Malformed(expected, logs) ==
  \E i \in OfToken(expected.token, logs) : ~logs[i].sound

Candidates(expected, logs) == {i \in DOMAIN logs : logs[i].sound}

(***************************************************************************)
(* _select_transfer: the one transfer of the expected token, or among more *)
(* the one that is exactly what was asked for; else the one transfer of    *)
(* another token, which reconciliation will find wrong.  The result is the *)
(* set of its positions: empty when there is none, and with more than one  *)
(* member when it is ambiguous.                                            *)
(***************************************************************************)
Sole(S) == \E i \in S : S = {i}

\* Mutation: the first transfer of the token, whatever else there is.
SelectFirst(expected, logs) ==
  LET own == OfToken(expected.token, logs)
  IN  {i \in own : \A j \in own : i <= j}

Select(expected, logs) ==
  LET own   == OfToken(expected.token, logs)
      exact == {i \in own : logs[i].transfer = expected}
  IN  CASE Sole(own)                -> own
        [] ~Sole(own) /\ own # {}   -> IF Sole(exact) THEN exact ELSE own
        [] own = {}                 -> Candidates(expected, logs)

\* observe(): the receipt is read first and the height of the chain after it,
\* perhaps from a node that has not seen that block yet.
Observe(expected, receipt, head) ==
  LET selected == Select(expected, receipt.logs)
  IN  IF ~receipt.found
      THEN NotFound
      ELSE IF ~receipt.succeeded \/ head < receipt.block \/ Malformed(expected, receipt.logs)
      THEN Raised
      ELSE IF selected = {}
      THEN NotFound
      ELSE IF ~Sole(selected)
      THEN Ambiguous
      ELSE Seen(receipt.logs[CHOOSE i \in selected : TRUE].transfer,
                head - receipt.block + 1)
-----------------------------------------------------------------------------
Exact(expected, logs) == {i \in DOMAIN logs : logs[i].transfer = expected}

\* What a verifier is for: it selects the payment that was asked for when the
\* transaction makes it exactly once, whatever else the transaction does.
ShowsExactlyOne(expected, logs) ==
  (\E i \in Select(expected, logs) :
     Select(expected, logs) = {i} /\ logs[i].transfer = expected)
  <=> Sole(Exact(expected, logs))
=============================================================================
