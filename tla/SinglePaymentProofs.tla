------------------------- MODULE SinglePaymentProofs -------------------------
(***************************************************************************)
(* The abstract specification pays once, for any set of effects.           *)
(***************************************************************************)
EXTENDS SinglePayment, TLAPS

\* A permit is issued once and used once; PermitInv is inductive.
THEOREM PermitsPayOnce == Spec => []PermitInv
<1>1. Init => PermitInv
  BY DEF Init, PermitInv, TypeOK, Phases, PaidAtMostOnce
<1>2. PermitInv /\ [Next]_vars => PermitInv'
  <2> SUFFICES ASSUME PermitInv, [Next]_vars PROVE PermitInv'
    OBVIOUS
  <2> USE DEF PermitInv, TypeOK, PaidAtMostOnce, Phases
  <2>1. ASSUME NEW e \in Effects, Claim(e)
        PROVE  PermitInv'
    BY <2>1 DEF Claim
  <2>2. ASSUME NEW e \in Effects, Send(e)
        PROVE  PermitInv'
    <3>1. sends[e] = 0 /\ journal[e] # "open"
      BY <2>2 DEF Send
    <3>2. sends' = [sends EXCEPT ![e] = 1]
      BY <2>2, <3>1 DEF Send
    <3> QED
      BY <2>2, <3>1, <3>2 DEF Send
  <2>3. ASSUME NEW e \in Effects, Drop(e)
        PROVE  PermitInv'
    BY <2>3 DEF Drop
  <2>4. ASSUME NEW e \in Effects, NEW phase \in Phases, Learn(e, phase)
        PROVE  PermitInv'
    BY <2>4 DEF Learn
  <2>5. CASE UNCHANGED vars
    BY <2>5 DEF vars
  <2> QED
    BY <2>1, <2>2, <2>3, <2>4, <2>5 DEF Next
<1> QED
  BY <1>1, <1>2, PTL DEF Spec
=============================================================================
