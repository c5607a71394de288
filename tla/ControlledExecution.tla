------------------------- MODULE ControlledExecution -------------------------
(***************************************************************************)
(* The dispatch layer with the port that really pays: one durably claimed  *)
(* simulation per effect, then one broadcast bound to its receipt and to a *)
(* second approval (integrations/keeperhub_controlled_execution.py over    *)
(* persistence/sqlite_keeperhub_authorization_ledger.py).                  *)
(*                                                                         *)
(* A content stands for everything an authorization, a receipt and a plan  *)
(* must agree on besides the attempt: action sheet, request fingerprint    *)
(* and body fingerprint.  The window of an authorization is not modelled:  *)
(* the port may find it expired whenever it looks.                         *)
(***************************************************************************)
EXTENDS Naturals, FiniteSets, Lifecycles

CONSTANTS
  Effects, Contents, References, Dispatchers, None,  \* as in ExecutionDispatch
  Simulators,  \* processes that may call simulate()
  Approvals    \* approval references

ASSUME ControlledAssumption ==
  /\ None \notin Effects \cup Contents \cup References \cup Approvals
  /\ IsFiniteSet(Approvals)

VARIABLES
  ledger,      \* the record each approval reference was consumed for
  simulation,  \* what each simulator is doing
  simulated,   \* simulation requests put on the wire for each effect
  port,        \* the broadcast port each dispatcher was given
  dispatchable, attempts, references, posts, provider, pc, call
               \* as in ExecutionDispatch

dispatch == <<dispatchable, attempts, references, posts, provider, pc, call>>
vars == <<ledger, simulation, simulated, port, dispatch>>

Dispatch == INSTANCE ExecutionDispatch

Free == [phase |-> None, effect |-> None, content |-> None, state |-> "FREE"]
NoSimulation == [at |-> "idle", effect |-> None, content |-> None, approval |-> None]
NoPort == [receipt |-> None, approval |-> None, claimed |-> FALSE]

Init ==
  /\ Dispatch!Init
  /\ ledger = [a \in Approvals |-> Free]
  /\ simulation = [m \in Simulators |-> NoSimulation]
  /\ simulated = [e \in Effects |-> 0]
  /\ port = [d \in Dispatchers |-> NoPort]
-----------------------------------------------------------------------------
(***************************************************************************)
(* The ledger.  A claim consumes an approval reference for good, and a     *)
(* phase claims an attempt once; a claim is finalized once.                *)
(***************************************************************************)
\* Mutation: a reference checked, but not the attempt.
ClaimUnlessUsed(a, phase, e, c) ==
  /\ ledger[a] = Free
  /\ ledger' = [ledger EXCEPT ![a] =
       [phase |-> phase, effect |-> e, content |-> c, state |-> "CLAIMED"]]

Claim(a, phase, e, c) ==
  /\ ledger[a] = Free
  /\ \A b \in Approvals : ledger[b].phase = phase => ledger[b].effect # e
  /\ ledger' = [ledger EXCEPT ![a] =
       [phase |-> phase, effect |-> e, content |-> c, state |-> "CLAIMED"]]

Outcomes ==
  [SIMULATION |-> {"ELIGIBLE_FOR_BROADCAST_APPROVAL", "REJECTED_FINAL", "OUTCOME_UNKNOWN"},
   BROADCAST  |-> {"ACCEPTED", "REJECTED_FINAL", "OUTCOME_UNKNOWN"}]

\* _finalize_best_effort: a store that fails leaves the claim.
Finalize(a, outcome) ==
  \/ /\ ledger[a].state = "CLAIMED"
     /\ outcome \in Outcomes[ledger[a].phase]
     /\ ledger' = [ledger EXCEPT ![a].state = outcome]
  \/ UNCHANGED ledger

\* load_keeperhub_simulation_receipt: a final, favourable simulation.
Receipt(a) ==
  /\ ledger[a].phase = "SIMULATION"
  /\ ledger[a].state = "ELIGIBLE_FOR_BROADCAST_APPROVAL"
-----------------------------------------------------------------------------
(***************************************************************************)
(* simulate(plan, authorization).                                          *)
(***************************************************************************)
\* Mutation: the attempt of an earlier plan replaced.
StartSimulationAnew(m, e, c, a) ==
  /\ simulation[m] = NoSimulation
  /\ attempts' = [attempts EXCEPT ![e] = Dispatch!NewAttempt(c)]
  /\ simulation' = [simulation EXCEPT ![m] =
       [at |-> "claim", effect |-> e, content |-> c, approval |-> a]]
  /\ UNCHANGED <<ledger, simulated, port, dispatchable, references, posts,
                 provider, pc, call>>

\* The attempt of the plan is created, or found PREPARED under the same plan.
StartSimulation(m, e, c, a) ==
  /\ simulation[m] = NoSimulation
  /\ \/ Dispatch!PrepareAttempt(e, c)
     \/ /\ attempts[e].state = "PREPARED"
        /\ attempts[e].content = c
        /\ UNCHANGED dispatch
  /\ simulation' = [simulation EXCEPT ![m] =
       [at |-> "claim", effect |-> e, content |-> c, approval |-> a]]
  /\ UNCHANGED <<ledger, simulated, port>>

ClaimSimulation(m) ==
  LET s == simulation[m] IN
  /\ s.at = "claim"
  /\ Claim(s.approval, "SIMULATION", s.effect, s.content)
  /\ simulation' = [simulation EXCEPT ![m].at = "post"]
  /\ UNCHANGED <<simulated, port, dispatch>>

PostSimulation(m) ==
  /\ simulation[m].at = "post"
  /\ simulated' = [simulated EXCEPT ![simulation[m].effect] = @ + 1]
  /\ simulation' = [simulation EXCEPT ![m].at = "await"]
  /\ UNCHANGED <<ledger, port, dispatch>>

\* The answer is classified and written; a lost or odd one is "unknown".
EndSimulation(m, outcome) ==
  /\ simulation[m].at = "await"
  /\ outcome \in Outcomes["SIMULATION"]
  /\ Finalize(simulation[m].approval, outcome)
  /\ simulation' = [simulation EXCEPT ![m] = NoSimulation]
  /\ UNCHANGED <<simulated, port, dispatch>>

\* The approval was consumed, a store failed, or the process died.
StopSimulation(m) ==
  /\ simulation[m] # NoSimulation
  /\ simulation' = [simulation EXCEPT ![m] = NoSimulation]
  /\ UNCHANGED <<ledger, simulated, port, dispatch>>

SimulatorStep(m) ==
  \/ \E e \in Effects, c \in Contents, a \in Approvals : StartSimulation(m, e, c, a)
  \/ ClaimSimulation(m)
  \/ PostSimulation(m)
  \/ \E outcome \in Outcomes["SIMULATION"] : EndSimulation(m, outcome)
  \/ StopSimulation(m)
-----------------------------------------------------------------------------
(***************************************************************************)
(* dispatch(plan, KeeperHubApprovedBroadcastPort(receipt, authorization)). *)
(* The constructor reads the receipt, which nothing changes any more; the  *)
(* plan and the port may still disagree, which execute() finds out.        *)
(***************************************************************************)
\* (The first is a mutation: a simulation that was only claimed will do.)
BeginWithAnyReceipt(d, e, c, receipt, a) ==
  /\ ledger[receipt].phase = "SIMULATION"
  /\ a # receipt
  /\ Dispatch!Begin(d, e, c)
  /\ port' = [port EXCEPT ![d] =
       [receipt |-> receipt, approval |-> a, claimed |-> FALSE]]
  /\ UNCHANGED <<ledger, simulation, simulated>>

BeginBroadcast(d, e, c, receipt, a) ==
  /\ Receipt(receipt)
  /\ a # receipt
  /\ Dispatch!Begin(d, e, c)
  /\ port' = [port EXCEPT ![d] =
       [receipt |-> receipt, approval |-> a, claimed |-> FALSE]]
  /\ UNCHANGED <<ledger, simulation, simulated>>

\* execute(): the second approval is consumed before the POST.
ClaimBroadcast(d) ==
  LET receipt == ledger[port[d].receipt] IN
  /\ pc[d] = "send"
  /\ ~port[d].claimed
  /\ receipt.effect = call[d].effect
  /\ receipt.content = call[d].content
  /\ Claim(port[d].approval, "BROADCAST", call[d].effect, call[d].content)
  /\ port' = [port EXCEPT ![d].claimed = TRUE]
  /\ UNCHANGED <<simulation, simulated, dispatch>>

\* Mismatch, expired window, consumed approval, failing ledger.
RefuseBroadcast(d) ==
  /\ ~port[d].claimed
  /\ Dispatch!RefuseToSend(d)
  /\ UNCHANGED <<ledger, simulation, simulated, port>>

\* Mutation: the POST before its claim.
PostUnclaimed(d) ==
  /\ Dispatch!Send(d)
  /\ UNCHANGED <<ledger, simulation, simulated, port>>

PostBroadcast(d) ==
  /\ port[d].claimed
  /\ Dispatch!Send(d)
  /\ UNCHANGED <<ledger, simulation, simulated, port>>

\* The answer, written to the ledger before execute() returns or raises.
\* (The first is a mutation: no answer taken for a refusal.)
EndAssumingRefusal(d) ==
  /\ \/ \E r \in References :
          Dispatch!ReceiveAccepted(d, r) /\ Finalize(port[d].approval, "ACCEPTED")
     \/ Dispatch!ReceiveRejected(d) /\ Finalize(port[d].approval, "REJECTED_FINAL")
     \/ Dispatch!LoseAnswer(d) /\ Finalize(port[d].approval, "REJECTED_FINAL")
  /\ UNCHANGED <<simulation, simulated, port>>

EndBroadcast(d) ==
  /\ \/ \E r \in References :
          Dispatch!ReceiveAccepted(d, r) /\ Finalize(port[d].approval, "ACCEPTED")
     \/ Dispatch!ReceiveRejected(d) /\ Finalize(port[d].approval, "REJECTED_FINAL")
     \/ Dispatch!LoseAnswer(d) /\ Finalize(port[d].approval, "OUTCOME_UNKNOWN")
  /\ UNCHANGED <<simulation, simulated, port>>

\* Mutation: the port of one call used again for the next.
AroundLastingPort(d) ==
  /\ \/ Dispatch!CreateAttempt(d)
     \/ Dispatch!ClaimAttempt(d)
     \/ Dispatch!CheckReference(d)
     \/ Dispatch!PersistReference(d)
     \/ Dispatch!Acknowledge(d)
  /\ UNCHANGED <<ledger, simulation, simulated, port>>

\* The steps of dispatch() and of ProviderReferencePersistingPort around it.
AroundPort(d) ==
  /\ \/ Dispatch!CreateAttempt(d)
     \/ Dispatch!ClaimAttempt(d)
     \/ Dispatch!CheckReference(d)
     \/ Dispatch!PersistReference(d)
     \/ Dispatch!Acknowledge(d)
     \/ Dispatch!RejectFinal(d)
     \/ Dispatch!MarkUnknown(d)
     \/ Dispatch!StoreFails(d)
     \/ Dispatch!Crash(d)
  /\ port' = IF pc'[d] = "idle" THEN [port EXCEPT ![d] = NoPort] ELSE port
  /\ UNCHANGED <<ledger, simulation, simulated>>

BroadcasterStep(d) ==
  \/ \E e \in Effects, c \in Contents, receipt, a \in Approvals :
       BeginBroadcast(d, e, c, receipt, a)
  \/ ClaimBroadcast(d)
  \/ RefuseBroadcast(d)
  \/ PostBroadcast(d)
  \/ EndBroadcast(d)
  \/ AroundPort(d)

\* The provider, the reconcilers and the mission, as in ExecutionDispatch.
OthersStep ==
  /\ \/ Dispatch!ProviderStep
     \/ \E e \in Effects, target \in Dispatch!ReconcilerTargets :
          Dispatch!ReconcilerWrites(e, target)
     \/ Dispatch!MissionMoves
  /\ UNCHANGED <<ledger, simulation, simulated, port>>

Next ==
  \/ \E m \in Simulators : SimulatorStep(m)
  \/ \E d \in Dispatchers : BroadcasterStep(d)
  \/ OthersStep

Spec == Init /\ [][Next]_vars
-----------------------------------------------------------------------------
Authorization ==
  UNION {[phase : {p}, effect : Effects, content : Contents,
          state : {"CLAIMED"} \cup Outcomes[p]] : p \in {"SIMULATION", "BROADCAST"}}

\* The shape of the state this module adds to ExecutionDispatch; a port lives
\* as long as the call it was made for.
TypeOK ==
  /\ ledger \in [Approvals -> Authorization \cup {Free}]
  /\ simulation \in [Simulators ->
       [at : {"claim", "post", "await"}, effect : Effects, content : Contents,
        approval : Approvals] \cup {NoSimulation}]
  /\ simulated \in [Effects -> Nat]
  /\ port \in [Dispatchers ->
       [receipt : Approvals, approval : Approvals, claimed : BOOLEAN] \cup {NoPort}]
  /\ \A d \in Dispatchers : port[d] = NoPort <=> pc[d] = "idle"

\* The provider simulates an effect at most once, however many processes and
\* approvals ask for it and wherever they die ("at most one durably claimed
\* simulation POST per effect").
SimulatedAtMostOnce == \A e \in Effects : simulated[e] <= 1

\* No payment is asked for unless exactly that request was simulated and found
\* eligible, durably: a receipt of another effect or of another content, or
\* one whose simulation was not final, never lets a broadcast through.
BroadcastWasSimulated ==
  \A e \in Effects :
    posts[e] > 0 =>
      \E a \in Approvals :
        /\ Receipt(a)
        /\ ledger[a].effect = e
        /\ ledger[a].content = attempts[e].content

\* Every POST has an approval reference of its own, durably consumed for its
\* phase and effect before it left: no approval covers two of them.
EveryPostIsApproved ==
  \A e \in Effects :
    /\ posts[e] <= Cardinality({a \in Approvals :
         ledger[a].phase = "BROADCAST" /\ ledger[a].effect = e})
    /\ simulated[e] <= Cardinality({a \in Approvals :
         ledger[a].phase = "SIMULATION" /\ ledger[a].effect = e})

\* What the ledger says of a broadcast is what the provider did: an operator
\* who reads REJECTED_FINAL may plan the payment anew.
LedgerTellsTheTruth ==
  \A a \in Approvals :
    ledger[a].phase = "BROADCAST" =>
      /\ ledger[a].state = "ACCEPTED" => provider[ledger[a].effect] = "accepted"
      /\ ledger[a].state = "REJECTED_FINAL" => provider[ledger[a].effect] = "rejected"

\* The controlled port keeps to what ExecutionDispatch assumes of a delegate
\* port, and simulations to what it assumes of them.
RefinesDispatch == Dispatch!Spec

(***************************************************************************)
(* What makes the first two inductive.  A claim outlives its owner, so it  *)
(* is the ledger that tells whether a POST may have left.                  *)
(***************************************************************************)
Simulating(e) ==
  \E a \in Approvals : ledger[a].phase = "SIMULATION" /\ ledger[a].effect = e

\* A simulator past its claim is the only one for its effect.
SimulatorInv ==
  /\ \A m \in Simulators :
       simulation[m].at \in {"post", "await"} => Simulating(simulation[m].effect)
  /\ \A m \in Simulators :
       simulation[m].at = "post" => simulated[simulation[m].effect] = 0
  /\ \A m, n \in Simulators :
       /\ simulation[m].at \in {"post", "await"}
       /\ simulation[n].at \in {"post", "await"}
       /\ simulation[m].effect = simulation[n].effect
       => m = n
  /\ \A e \in Effects : simulated[e] > 0 => Simulating(e)

\* A port that claimed its broadcast holds the receipt of that very plan.
PortInv ==
  \A d \in Dispatchers :
    pc[d] # "idle" =>
      /\ port[d].receipt \in Approvals
      /\ Receipt(port[d].receipt)
      /\ port[d].claimed =>
           /\ ledger[port[d].receipt].effect = call[d].effect
           /\ ledger[port[d].receipt].content = call[d].content

ControlledInv ==
  /\ TypeOK
  /\ SimulatorInv
  /\ PortInv
  /\ SimulatedAtMostOnce
  /\ BroadcastWasSimulated

(***************************************************************************)
(* What makes the last two inductive: whoever may send or finalize holds   *)
(* a claim of its own phase and effect.                                    *)
(***************************************************************************)
Broadcasting(e) ==
  \E a \in Approvals : ledger[a].phase = "BROADCAST" /\ ledger[a].effect = e

ApprovalInv ==
  /\ \A m \in Simulators :
       simulation[m].at \in {"post", "await"} =>
         /\ ledger[simulation[m].approval].phase = "SIMULATION"
         /\ ledger[simulation[m].approval].effect = simulation[m].effect
  /\ \A d \in Dispatchers :
       /\ pc[d] = "await" => port[d].claimed
       /\ pc[d] # "idle" /\ port[d].claimed =>
            /\ ledger[port[d].approval].phase = "BROADCAST"
            /\ ledger[port[d].approval].effect = call[d].effect
  /\ \A e \in Effects : posts[e] > 0 => Broadcasting(e)
  /\ LedgerTellsTheTruth
=============================================================================
