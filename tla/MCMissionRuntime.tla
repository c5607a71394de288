-------------------------- MODULE MCMissionRuntime --------------------------
(***************************************************************************)
(* Instances of MissionRuntime.  OwnTerms: every effect has its own terms; *)
(* TwinTerms: all effects pay the same amount to the same recipient.       *)
(***************************************************************************)
EXTENDS MissionRuntime, TLC

OwnTerms  == [e \in Effects |-> e]
TwinTerms == [e \in Effects |-> "twin"]

Symmetry ==
  Permutations(Effects) \cup Permutations(References)
    \cup Permutations(Dispatchers) \cup Permutations(Reconcilers)
-----------------------------------------------------------------------------
(***************************************************************************)
(* Restarts small enough to enumerate, all of them states of RestartInit   *)
(* with OwnTerms: the mission and the attempts in the given states, every  *)
(* attempt of one plan and with the revision of the shortest way to its    *)
(* state, an acknowledged one with a reference (named by its effect).      *)
(* Nothing but a payment that was taken has begun an effect.               *)
(***************************************************************************)
RevisionAt ==
  [PREPARED |-> 1, IN_FLIGHT |-> 2, PROVIDER_ACKNOWLEDGED |-> 3,
   EXECUTION_UNKNOWN |-> 3, VERIFIED |-> 3]

LeftIn(missions, states, verdicts, chains) ==
  /\ mission \in [state : missions, effects : [Effects -> ReachedEffectStates]]
  /\ chain \in [Effects -> chains]
  /\ provider \in [Effects -> verdicts]
  /\ posts = [e \in Effects |-> IF provider[e] = "idle" THEN 0 ELSE 1]
  /\ \A e \in Effects :
       chain[e] # "none" \/ mission.effects[e] # "PLANNED" => provider[e] = "accepted"
  /\ ConfirmedWasPaid
  /\ \E left \in [Effects -> states], c \in Contents :
       attempts = [e \in Effects |->
         [state |-> left[e], content |-> c, revision |-> RevisionAt[left[e]]]]
  /\ references = [e \in Effects |->
       IF attempts[e].state = "PROVIDER_ACKNOWLEDGED" THEN e ELSE None]
  /\ RestartInit

\* Every payment was taken and is deep in the chain, and none is verified.
SentSpec ==
  /\ LeftIn({"READY_FOR_EXECUTION", "VERIFYING", "RECONCILING", "COMPLETED"},
            {"PROVIDER_ACKNOWLEDGED", "EXECUTION_UNKNOWN"}, {"accepted"}, {"confirmed"})
  /\ [][Next]_vars

\* Any mission that execution has reached, whatever became of each payment.
InterruptedSpec ==
  /\ LeftIn({"READY_FOR_EXECUTION", "EXECUTING", "VERIFYING", "RECONCILING", "COMPLETED"},
            {"PREPARED", "IN_FLIGHT", "PROVIDER_ACKNOWLEDGED", "EXECUTION_UNKNOWN", "VERIFIED"},
            {"idle", "accepted"}, {"none", "recent", "confirmed"})
  /\ [][Next]_vars

FairInterruptedSpec == InterruptedSpec /\ RecoveryFairness
=============================================================================
