--------------------------- MODULE TransferAmounts ---------------------------
(***************************************************************************)
(* An amount in base units on its way to the provider: the decimal string  *)
(* of the request body (amount_base_units_to_decimal_string and the bodies *)
(* of KeeperHubTransferIntent, integrations/keeperhub_direct_execution.py) *)
(* and the base units the provider reads in it.  A string is its whole     *)
(* part and the sequence of the digits after its point, if it has one.     *)
(***************************************************************************)
EXTENDS Naturals, Sequences

\* Mutation: the remainder written without its leading zeros.
UnpaddedString(units, decimals) ==
  LET remainder == units % 10^decimals
      width     == CHOOSE w \in 0..decimals :
                     remainder < 10^w /\ (w = 0 \/ 10^(w - 1) <= remainder)
  IN  [whole |-> units \div 10^decimals,
       fraction |-> [i \in 1..width |-> (remainder \div 10^(width - i)) % 10]]

\* divmod, the remainder padded to the decimals of the token, then stripped of
\* its trailing zeros.
DecimalString(units, decimals) ==
  LET remainder == units % 10^decimals
      padded    == [i \in 1..decimals |-> (remainder \div 10^(decimals - i)) % 10]
      last      == CHOOSE l \in 0..decimals :
                     /\ l # 0 => padded[l] # 0
                     /\ \A i \in l + 1..decimals : padded[i] = 0
  IN  [whole |-> units \div 10^decimals, fraction |-> SubSeq(padded, 1, last)]

\* The provider's reading of it.
BaseUnits(decimal, decimals) ==
  LET digits == decimal.fraction
      read[i \in 0..Len(digits)] ==
        IF i = 0 THEN decimal.whole ELSE 10 * read[i - 1] + digits[i]
  IN  read[Len(digits)] * 10^(decimals - Len(digits))

\* The amount paid is the amount asked for, in a string without a trailing zero.
IsFaithful(units, decimals) ==
  LET decimal == DecimalString(units, decimals)
      digits  == decimal.fraction
  IN  /\ BaseUnits(decimal, decimals) = units
      /\ digits # <<>> => digits[Len(digits)] # 0
=============================================================================
