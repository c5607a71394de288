------------------------ MODULE OperatorMissionProofs ------------------------
(***************************************************************************)
(* Proofs about OperatorMission, for any sequence of payments, whichever   *)
(* of the tools is run, and for any number of terminals.                   *)
(***************************************************************************)
EXTENDS OperatorMission, MissionRuntimeProofs, FiniteSetTheorems

\* What is proved of ControlledExecution, for the variables of this module.
ControlledFacts == INSTANCE ControlledExecutionProofs WITH dispatchable <- Dispatchable

(***************************************************************************)
(* The inductive invariant.  What a payment needs before it may be looked  *)
(* at is confirmed, and stays so; so it holds of every payment a terminal  *)
(* has passed the gate for, of every call and of every attempt there is.   *)
(***************************************************************************)
Cleared(e) ==
  /\ e \in Scope
  /\ \A f \in Before(e) : f \in Scope /\ mission.effects[f] = "CHAIN_CONFIRMED"

Terminals == Simulators \cup Dispatchers

DeskInv ==
  /\ Scope = MissionEffects
  /\ passed \in [Terminals -> Effects \cup {None}]
  /\ binding \in [Effects -> {"none", "torn", "complete"}]

GateInv ==
  /\ \A t \in Terminals : passed[t] # None => Cleared(passed[t])
  /\ \A d \in Dispatchers : pc[d] # "idle" => Cleared(call[d].effect)
  /\ \A e \in Effects : attempts[e].state # "ABSENT" => Cleared(e)
  /\ acknowledged \cup (fresh \cap Effects) \subseteq Scope

OpInv ==
  /\ RuntimeInv
  /\ DispatchFacts!DispatchInv
  /\ DeskInv
  /\ GateInv

\* The broadcast of e is killed before it has followed its payment up.
Killed(e) ==
  /\ acknowledged' = acknowledged \ {e}
  /\ fresh' = fresh \ {e}
  /\ UNCHANGED <<mission, job, chain, dispatch>>
-----------------------------------------------------------------------------
\* The sequence names payments of the mission; nothing comes before the first.
LEMMA Sequence ==
  /\ Order[1] \in Effects
  /\ MissionEffects \subseteq Effects
  /\ Before(Order[1]) = {}
  /\ Content \in Contents
<1>1. Len(Order) \in Nat /\ Len(Order) > 0
  BY OperatorAssumption
<1>2. Order[1] \in Effects
  BY <1>1, OperatorAssumption
<1>3. Before(Order[1]) = {}
  BY <1>1, OperatorAssumption DEF Before
<1>4. Content \in Contents
  BY OperatorAssumption
<1> QED
  BY <1>2, <1>3, <1>4 DEF MissionEffects

\* The dispatch layer under the controlled port is the runtime's.
LEMMA SameDispatcher ==
  ASSUME NEW d \in Dispatchers, Controlled!Dispatch!DispatcherStep(d)
  PROVE  Dispatch!DispatcherStep(d)
BY DEF Controlled!Dispatch!DispatcherStep, Dispatch!DispatcherStep,
   Controlled!Dispatch!Begin, Dispatch!Begin,
   Controlled!Dispatch!CreateAttempt, Dispatch!CreateAttempt,
   Controlled!Dispatch!ClaimAttempt, Dispatch!ClaimAttempt,
   Controlled!Dispatch!CheckReference, Dispatch!CheckReference,
   Controlled!Dispatch!RefuseToSend, Dispatch!RefuseToSend,
   Controlled!Dispatch!RejectUnsent, Dispatch!RejectUnsent,
   Controlled!Dispatch!Send, Dispatch!Send,
   Controlled!Dispatch!ReceiveAccepted, Dispatch!ReceiveAccepted,
   Controlled!Dispatch!ReceiveRejected, Dispatch!ReceiveRejected,
   Controlled!Dispatch!LoseAnswer, Dispatch!LoseAnswer,
   Controlled!Dispatch!PersistReference, Dispatch!PersistReference,
   Controlled!Dispatch!Acknowledge, Dispatch!Acknowledge,
   Controlled!Dispatch!RejectFinal, Dispatch!RejectFinal,
   Controlled!Dispatch!RecordOutcome, Dispatch!RecordOutcome,
   Controlled!Dispatch!MarkUnknown, Dispatch!MarkUnknown,
   Controlled!Dispatch!StoreFails, Dispatch!StoreFails,
   Controlled!Dispatch!Crash, Dispatch!Crash,
   Controlled!Dispatch!Leave, Dispatch!Leave, Controlled!Dispatch!Goto, Dispatch!Goto,
   Controlled!Dispatch!WriteAttempt, Dispatch!WriteAttempt,
   Controlled!Dispatch!Moved, Dispatch!Moved,
   Controlled!Dispatch!NewAttempt, Dispatch!NewAttempt,
   Controlled!Dispatch!MayTransition, Dispatch!MayTransition,
   Controlled!Dispatch!NoCall, Dispatch!NoCall,
   Controlled!Dispatch!durable, Dispatch!durable,
   Controlled!Dispatch!wire, Dispatch!wire,
   Controlled!Dispatch!AttemptStates, Dispatch!AttemptStates,
   Controlled!Dispatch!AttemptSuccessors, Dispatch!AttemptSuccessors

\* So are what else touches the journal and the wire.
LEMMA SameEnvironment ==
  /\ \A e, c : Controlled!Dispatch!PrepareAttempt(e, c) <=> Dispatch!PrepareAttempt(e, c)
  /\ \A e, target : Dispatch!ReconcilerWrites(e, target) =>
                      Controlled!Dispatch!ReconcilerWrites(e, target)
  /\ Dispatch!ProviderStep => Controlled!Dispatch!ProviderStep
  /\ Dispatch!MissionMoves => Controlled!Dispatch!MissionMoves
  /\ Controlled!Dispatch!Init => Dispatch!Init
BY DEF Controlled!Dispatch!PrepareAttempt, Dispatch!PrepareAttempt,
   Controlled!Dispatch!NewAttempt, Dispatch!NewAttempt,
   Controlled!Dispatch!ReconcilerWrites, Dispatch!ReconcilerWrites,
   Controlled!Dispatch!WriteAttempt, Dispatch!WriteAttempt,
   Controlled!Dispatch!Moved, Dispatch!Moved,
   Controlled!Dispatch!ProviderStep, Dispatch!ProviderStep,
   Controlled!Dispatch!ProviderDecides, Dispatch!ProviderDecides,
   Controlled!Dispatch!MissionMoves, Dispatch!MissionMoves,
   Controlled!Dispatch!Init, Dispatch!Init,
   Controlled!Dispatch!Absent, Dispatch!Absent, Controlled!Dispatch!NoCall, Dispatch!NoCall,
   Controlled!Dispatch!durable, Dispatch!durable, Controlled!Dispatch!wire, Dispatch!wire,
   Controlled!Dispatch!volatile, Dispatch!volatile,
   Controlled!Dispatch!AttemptStates, Dispatch!AttemptStates,
   Controlled!Dispatch!AttemptSuccessors, Dispatch!AttemptSuccessors

\* A simulation prepares the attempt it is for, or leaves the runtime alone.
LEMMA SimulateStep ==
  ASSUME NEW m \in Simulators, Simulate(m)
  PROVE  \/ UNCHANGED vars
         \/ passed[m] # None /\ SimulationPrepares(passed[m], Content)
<1>1. CASE /\ passed[m] # None
           /\ Controlled!StartSimulation(m, passed[m], Content, <<"sim", passed[m]>>)
  BY <1>1, SameEnvironment DEF Simulate, Controlled!StartSimulation, SimulationPrepares,
     Controlled!dispatch, vars, dispatch
<1>2. CASE ~(/\ passed[m] # None
             /\ Controlled!StartSimulation(m, passed[m], Content, <<"sim", passed[m]>>))
  BY <1>2 DEF Simulate, Controlled!ClaimSimulation, Controlled!PostSimulation,
     Controlled!EndSimulation, Controlled!StopSimulation, Controlled!dispatch, vars, dispatch
<1> QED
  BY <1>1, <1>2

\* Past its beginning the port takes the steps of dispatch().
LEMMA PortSteps ==
  ASSUME NEW d \in Dispatchers,
         \/ Controlled!RefuseBroadcast(d) \/ Controlled!PostBroadcast(d)
         \/ Controlled!EndBroadcast(d) \/ Controlled!AroundPort(d)
  PROVE  Controlled!Dispatch!DispatcherStep(d) /\ pc[d] # "idle"
BY DEF Controlled!RefuseBroadcast, Controlled!PostBroadcast, Controlled!EndBroadcast,
   Controlled!AroundPort, Controlled!Dispatch!DispatcherStep,
   Controlled!Dispatch!RefuseToSend, Controlled!Dispatch!Send,
   Controlled!Dispatch!ReceiveAccepted, Controlled!Dispatch!ReceiveRejected,
   Controlled!Dispatch!LoseAnswer, Controlled!Dispatch!CreateAttempt,
   Controlled!Dispatch!ClaimAttempt, Controlled!Dispatch!CheckReference,
   Controlled!Dispatch!PersistReference, Controlled!Dispatch!Acknowledge,
   Controlled!Dispatch!RejectFinal, Controlled!Dispatch!RecordOutcome,
   Controlled!Dispatch!MarkUnknown, Controlled!Dispatch!StoreFails,
   Controlled!Dispatch!Crash

\* A broadcast does what dispatch() does, or claims its approval, which is no
\* step of dispatch(); it starts with the payment the terminal passed the gate for.
LEMMA BroadcastSteps ==
  ASSUME NEW d \in Dispatchers, passed[d] \in Effects \cup {None}, Broadcast(d)
  PROVE  \/ UNCHANGED vars
         \/ /\ DispatcherActs(d)
            /\ pc[d] = "idle" =>
                 passed[d] # None /\ Dispatch!Begin(d, passed[d], Content)
<1>1. ASSUME passed[d] # None,
             Controlled!BeginBroadcast(d, passed[d], Content, <<"sim", passed[d]>>,
                                       <<"brd", passed[d]>>)
      PROVE  DispatcherActs(d) /\ Dispatch!Begin(d, passed[d], Content)
  <2>1. Dispatch!Begin(d, passed[d], Content)
    BY <1>1 DEF Controlled!BeginBroadcast, Controlled!Dispatch!Begin, Dispatch!Begin,
       Controlled!Dispatch!Goto, Dispatch!Goto, Controlled!Dispatch!NoCall, Dispatch!NoCall,
       Controlled!Dispatch!durable, Dispatch!durable, Controlled!Dispatch!wire, Dispatch!wire
  <2>2. Dispatch!DispatcherStep(d)
    BY <1>1, <2>1, Sequence DEF Dispatch!DispatcherStep
  <2> QED
    BY <2>1, <2>2 DEF Broadcast, DispatcherActs
<1>2. ASSUME Controlled!ClaimBroadcast(d)
      PROVE  UNCHANGED vars
  BY <1>2 DEF Broadcast, Controlled!ClaimBroadcast, Controlled!dispatch, vars, dispatch
<1>3. ASSUME \/ Controlled!RefuseBroadcast(d) \/ Controlled!PostBroadcast(d)
             \/ Controlled!EndBroadcast(d) \/ Controlled!AroundPort(d)
      PROVE  Controlled!Dispatch!DispatcherStep(d) /\ pc[d] # "idle"
  BY <1>3, PortSteps
<1>4. ASSUME Controlled!Dispatch!DispatcherStep(d)
      PROVE  DispatcherActs(d)
  BY <1>4, SameDispatcher DEF Broadcast, DispatcherActs
<1> QED
  BY <1>1, <1>2, <1>3, <1>4 DEF Broadcast

\* The steps of the tools are steps of the runtime, kill a broadcast, or look at
\* the bound transaction.
LEMMA ToolsDrive ==
  ASSUME DeskInv, [OpNext]_opVars
  PROVE  \/ [Next]_vars
         \/ \E e \in Effects : Killed(e)
         \/ \E r \in Reconcilers : \E t : ObserveTransfer(r, t)
<1>1. ASSUME NEW m \in Simulators, Simulate(m)
      PROVE  [Next]_vars
  BY <1>1, SimulateStep, Sequence DEF Next, DeskInv, Terminals
<1>2. ASSUME NEW d \in Dispatchers, Broadcast(d)
      PROVE  [Next]_vars
  BY <1>2, BroadcastSteps DEF Next, DeskInv, Terminals
<1>3. ASSUME NEW e \in Effects, FollowUp(e)
      PROVE  Next \/ Killed(e)
  BY <1>3 DEF FollowUp, Next, Killed
<1>4. ASSUME NEW r \in Reconcilers, Verify(r)
      PROVE  Next \/ \E t : ObserveTransfer(r, t)
  BY <1>4 DEF Verify, LookAt, ReconcilerActs, Next
<1>5. CASE AdmitStep \/ Elsewhere \/ \E r \in Reconcilers, e \in Effects : EnterVerification(r, e)
  BY <1>5 DEF AdmitStep, AdmitVideo, AdmitRehearsal, AdmitAndPrepare, Elsewhere,
     EnterVerification, ReconcilerActs, Next
<1>6. CASE \/ PrepareStep
           \/ \E m \in Simulators, e \in Effects : EnterSimulation(m, e)
           \/ \E d \in Dispatchers, e \in Effects : EnterBroadcast(d, e)
           \/ \E t \in Simulators \cup Dispatchers : GiveUp(t)
           \/ \E e \in Effects : CaptureBinding(e)
           \/ UNCHANGED opVars
  BY <1>6 DEF PrepareStep, EnterSimulation, EnterBroadcast, GiveUp, CaptureBinding, opVars
<1> QED
  BY <1>1, <1>2, <1>3, <1>4, <1>5, <1>6 DEF OpNext
-----------------------------------------------------------------------------
LEMMA OpStart == OpInit => OpInv
<1> SUFFICES ASSUME OpInit PROVE OpInv
  OBVIOUS
<1>1. Dispatch!Init
  BY SameEnvironment DEF OpInit, Controlled!Init
<1>2. DispatchFacts!DispatchInv
  BY <1>1, SameDispatch, DispatchAssumed, DispatchFacts!TypeInit, DispatchFacts!SafetyInit
  DEF DispatchFacts!DispatchInv
<1>3. mission \in SomeMission /\ Scope = MissionEffects
  BY Sequence DEF OpInit, SomeMission, MissionOver, ReachedMissionStates, ReachedEffectStates,
     Scope
<1>4. job \in [Reconcilers -> Job] /\ \A r \in Reconcilers : JobOK(job[r], mission)
  <2>1. JobOK(NoJob, mission)
    BY IdleJob DEF Follows
  <2> QED
    BY <2>1 DEF OpInit, JobOK
<1>5. RuntimeInv
  BY <1>1, <1>3, <1>4 DEF OpInit, RuntimeInv, JobsInv, CompletedIsConfirmed, VerifiedInScope,
     Dispatch!Init, Dispatch!Absent
<1>6. DeskInv
  BY <1>3 DEF OpInit, DeskInv, Terminals
<1>7. GateInv
  BY <1>1 DEF OpInit, GateInv, Dispatch!Init, Dispatch!Absent, Terminals
<1> QED
  BY <1>2, <1>5, <1>6, <1>7 DEF OpInv

\* What was prepared, acknowledged or is being followed up is of the mission.
LEMMA RuntimeInScope ==
  ASSUME OpInv, [Next]_vars
  PROVE  RuntimeInv'
<1>1. \A e \in Effects : Advance(e) => e \in Scope
  BY DEF OpInv, GateInv, Advance
<1>2. \A r \in Reconcilers, e \in Effects : LoadAttempt(r, e) => e \in Scope
  BY DEF OpInv, GateInv, Cleared, LoadAttempt
<1>3. DispatchFacts!TypeOK /\ RuntimeInv
  BY DEF OpInv, DispatchFacts!DispatchInv
<1>4. CASE UNCHANGED vars
  <2>1. UNCHANGED <<mission, fresh, acknowledged, job, chain, attempts>>
    BY <1>4 DEF vars, dispatch
  <2> QED
    BY <1>3, <2>1, RuntimeRests
<1>5. ASSUME NEW r \in Reconcilers, ReconcilerActs(r)
      PROVE  RuntimeInv'
  BY <1>2, <1>3, <1>5, LoadKeeps, LoadMissionKeeps, LookKeeps, StopKeeps, RereadAttemptKeeps,
     WriteAttemptKeeps, WriteMissionKeeps, RereadMissionKeeps DEF ReconcilerActs
<1>6. CASE Next
  BY <1>1, <1>3, <1>5, <1>6, PrepareKeeps, AdvanceKeeps, DispatchKeeps, ChainKeeps DEF Next
<1> QED
  BY <1>4, <1>6

\* Each step keeps the invariants of the runtime and of the dispatch layer, is
\* a step of that one or none, and takes no confirmation back.
LEMMA LayersKeep ==
  ASSUME OpInv, [OpNext]_opVars
  PROVE  /\ RuntimeInv'
         /\ DispatchFacts!DispatchInv'
         /\ Dispatch!Next \/ UNCHANGED Dispatch!vars
         /\ Scope' = Scope
         /\ \A e \in Scope : mission.effects[e] = "CHAIN_CONFIRMED" =>
                             mission'.effects[e] = "CHAIN_CONFIRMED"
<1>1. CASE [Next]_vars
  <2>1. RuntimeInv'
    BY <1>1, RuntimeInScope
  <2>2. Dispatch!Next \/ UNCHANGED Dispatch!vars
    BY <1>1, <2>1, StepsDispatch DEF RuntimeInv, OpInv
  <2>3. \A e \in Effects : Advance(e) => e \in Scope
    BY DEF OpInv, GateInv, Advance
  <2> QED
    BY <1>1, <2>1, <2>2, <2>3, DispatchInvKeeps, ConfirmedStays DEF OpInv
<1>2. ASSUME NEW e \in Effects, Killed(e)
      PROVE  /\ RuntimeInv' /\ Scope' = Scope /\ UNCHANGED <<mission, Dispatch!vars>>
  BY <1>2 DEF Killed, OpInv, RuntimeInv, JobsInv, JobOK, CompletedIsConfirmed, VerifiedInScope,
     Scope, dispatch, Dispatchable, Dispatch!vars
<1>3. ASSUME NEW r \in Reconcilers, NEW t, ObserveTransfer(r, t)
      PROVE  /\ RuntimeInv' /\ Scope' = Scope /\ UNCHANGED <<mission, Dispatch!vars>>
  <2>1. RuntimeInv'
    BY <1>3, LookKeeps DEF OpInv
  <2> QED
    BY <1>3, <2>1 DEF ObserveTransfer, Scope, dispatch, Dispatchable, Dispatch!vars
<1> QED
  BY <1>1, <1>2, <1>3, ToolsDrive, DispatchInvKeeps DEF OpInv

LEMMA ClearedStays ==
  ASSUME OpInv, [OpNext]_opVars, NEW e, Cleared(e)
  PROVE  Cleared(e)'
BY LayersKeep DEF Cleared, Before

LEMMA DeskKeeps ==
  ASSUME OpInv, [OpNext]_opVars
  PROVE  DeskInv'
<1>1. Scope' = Scope /\ MissionEffects' = MissionEffects
  <2>1. UNCHANGED tool
    BY DEF OpNext, PrepareStep, AdmitStep, files, EnterSimulation, Simulate, EnterBroadcast,
       Broadcast, GiveUp, FollowUp, desk, CaptureBinding, EnterVerification, Verify, Elsewhere,
       opVars
  <2> QED
    BY <2>1, LayersKeep DEF MissionEffects
<1>2. UNCHANGED passed \/ \E t \in Terminals, e \in Effects \cup {None} :
                             passed' = [passed EXCEPT ![t] = e]
  BY DEF OpNext, PrepareStep, AdmitStep, EnterSimulation, Simulate, EnterBroadcast,
     Broadcast, GiveUp, FollowUp, desk, CaptureBinding, EnterVerification, Verify, Elsewhere,
     opVars, Terminals
<1>3. UNCHANGED binding \/ \E e \in Effects, new \in {"torn", "complete"} :
                              binding' = [binding EXCEPT ![e] = new]
  BY DEF OpNext, PrepareStep, AdmitStep, files, EnterSimulation, Simulate, EnterBroadcast,
     Broadcast, GiveUp, FollowUp, desk, CaptureBinding, EnterVerification, Verify, Elsewhere,
     opVars
<1> QED
  BY <1>1, <1>2, <1>3 DEF OpInv, DeskInv

\* Both gates let only a cleared payment through: the one of the two-payment
\* mission looks at the payments before it, the other tools pay the first.
LEMMA GatesClear ==
  ASSUME OpInv, NEW e \in Effects,
         \/ Gate(e) /\ VideoSheet
         \/ e = Order[1]
  PROVE  Cleared(e)
<1>1. CASE e = Order[1]
  <2>1. e \in MissionEffects
    BY <1>1 DEF MissionEffects
  <2> QED
    BY <1>1, <2>1, Sequence DEF OpInv, DeskInv, Cleared
<1>2. CASE Gate(e) /\ VideoSheet
  <2>1. Scope = Effects
    BY <1>2 DEF OpInv, DeskInv, MissionEffects, VideoSheet
  <2> QED
    BY <1>2, <2>1 DEF Gate, Cleared, Before
<1> QED
  BY <1>1, <1>2

\* A terminal passes a gate, or forgets that it did.
LEMMA PassedKeeps ==
  ASSUME OpInv, [OpNext]_opVars, NEW t \in Terminals, passed'[t] # None
  PROVE  Cleared(passed[t])'
<1>1. ASSUME NEW x \in Terminals, NEW e \in Effects, Cleared(e),
             passed' = [passed EXCEPT ![x] = e]
      PROVE  Cleared(passed[t])'
  <2>1. Cleared(passed'[t])
    BY <1>1 DEF OpInv, DeskInv, GateInv
  <2> QED
    BY <2>1, LayersKeep DEF Cleared
<1>2. ASSUME NEW x \in Terminals, passed' = [passed EXCEPT ![x] = None]
      PROVE  Cleared(passed[t])'
  <2>1. Cleared(passed'[t])
    BY <1>2 DEF OpInv, DeskInv, GateInv
  <2> QED
    BY <2>1, LayersKeep DEF Cleared
<1>3. CASE UNCHANGED passed
  <2>1. Cleared(passed'[t])
    BY <1>3 DEF OpInv, GateInv
  <2> QED
    BY <2>1, LayersKeep DEF Cleared
<1>4. ASSUME NEW m \in Simulators, NEW e \in Effects, EnterSimulation(m, e)
      PROVE  Cleared(e) /\ passed' = [passed EXCEPT ![m] = e]
  BY <1>4, GatesClear DEF EnterSimulation, MaySimulateVideo, MaySimulateRehearsal,
     MaySimulateOneShot, MaySimulateCanary
<1>5. ASSUME NEW d \in Dispatchers, NEW e \in Effects, EnterBroadcast(d, e)
      PROVE  Cleared(e) /\ passed' = [passed EXCEPT ![d] = e]
  BY <1>5, GatesClear DEF EnterBroadcast, MayBroadcastVideo, MayBroadcastRehearsal
<1>6. \/ UNCHANGED passed
      \/ \E x \in Terminals : passed' = [passed EXCEPT ![x] = None]
      \/ \E m \in Simulators, e \in Effects : EnterSimulation(m, e)
      \/ \E d \in Dispatchers, e \in Effects : EnterBroadcast(d, e)
  BY DEF OpNext, PrepareStep, AdmitStep, Simulate, Broadcast, GiveUp, FollowUp, desk,
     CaptureBinding, EnterVerification, Verify, Elsewhere, opVars, Terminals
<1> QED
  BY <1>1, <1>2, <1>3, <1>4, <1>5, <1>6 DEF Terminals

\* A broadcast under way, and what it journals, is of a cleared payment.
LEMMA BroadcastKeeps ==
  ASSUME OpInv, [OpNext]_opVars, NEW d \in Dispatchers, Broadcast(d)
  PROVE  /\ \A x \in Dispatchers : pc'[x] # "idle" => Cleared(call[x].effect)'
         /\ \A e \in Effects : attempts'[e].state # "ABSENT" => Cleared(e)'
         /\ acknowledged' \cup (fresh' \cap Effects) \subseteq Scope'
<1>1. CASE UNCHANGED vars
  BY <1>1, LayersKeep DEF OpInv, GateInv, Cleared, vars, dispatch
<1>2. ASSUME DispatcherActs(d),
             pc[d] = "idle" => passed[d] # None /\ Dispatch!Begin(d, passed[d], Content)
      PROVE  /\ \A x \in Dispatchers : pc'[x] # "idle" => Cleared(call[x].effect)'
             /\ \A e \in Effects : attempts'[e].state # "ABSENT" => Cleared(e)'
             /\ acknowledged' \cup (fresh' \cap Effects) \subseteq Scope'
  <2>1. /\ DispatchFacts!TypeOK /\ DispatchFacts!Next /\ DispatchFacts!DispatcherStep(d)
    BY <1>2, SameDispatch, SameStep DEF DispatcherActs, Dispatch!Next, OpInv, DispatchFacts!DispatchInv
  <2>2. ASSUME NEW x \in Dispatchers, pc'[x] # "idle"
        PROVE  Cleared(call'[x].effect)
    <3>1. CASE pc[x] # "idle"
      BY <2>1, <2>2, <3>1, DispatchAssumed, DispatchFacts!CallKeepsPlan DEF OpInv, GateInv
    <3>2. CASE pc[x] = "idle"
      <4>1. x = d
        BY <2>1, <2>2, <3>2, DispatchAssumed, DispatchFacts!OthersStand
      <4>2. passed[d] # None /\ Dispatch!Begin(d, passed[d], Content)
        BY <1>2, <3>2, <4>1
      <4>3. call'[d].effect = passed[d]
        BY <2>1, <4>2 DEF Dispatch!Begin, Dispatch!NoCall, DispatchFacts!TypeOK
      <4> QED
        BY <4>1, <4>2, <4>3 DEF OpInv, GateInv, Terminals
    <3> QED
      BY <3>1, <3>2
  <2>3. ASSUME NEW e \in Effects, attempts'[e].state # "ABSENT"
        PROVE  Cleared(e)'
    <3>1. CASE attempts[e].state # "ABSENT"
      BY <3>1, ClearedStays DEF OpInv, GateInv
    <3>2. CASE attempts[e].state = "ABSENT"
      <4>1. pc[d] # "idle" /\ e = call[d].effect
        BY <2>1, <2>3, <3>2, DispatchAssumed, DispatchFacts!OthersStand
      <4> QED
        BY <4>1, ClearedStays DEF OpInv, GateInv
    <3> QED
      BY <3>1, <3>2
  <2>4. acknowledged' \cup (fresh' \cap Effects) \subseteq Scope'
    <3>1. \A e \in Effects : attempts'[e].state = "PROVIDER_ACKNOWLEDGED" => e \in Scope'
      BY <2>3 DEF Cleared
    <3> QED
      BY <1>2, <3>1, LayersKeep DEF DispatcherActs, OpInv, GateInv
  <2> QED
    BY <2>2, <2>3, <2>4, LayersKeep DEF Cleared
<1> QED
  BY <1>1, <1>2, BroadcastSteps DEF OpInv, DeskInv, Terminals

LEMMA GateKeeps ==
  ASSUME OpInv, [OpNext]_opVars
  PROVE  GateInv'
<1> SUFFICES /\ \A d \in Dispatchers : pc'[d] # "idle" => Cleared(call[d].effect)'
             /\ \A e \in Effects : attempts'[e].state # "ABSENT" => Cleared(e)'
             /\ acknowledged' \cup (fresh' \cap Effects) \subseteq Scope'
  BY PassedKeeps DEF GateInv
<1>1. ASSUME UNCHANGED <<pc, call, acknowledged>>, fresh' \cap Effects \subseteq Scope,
             \A e \in Effects : attempts'[e].state # "ABSENT" => Cleared(e)
      PROVE  /\ \A d \in Dispatchers : pc'[d] # "idle" => Cleared(call[d].effect)'
             /\ \A e \in Effects : attempts'[e].state # "ABSENT" => Cleared(e)'
             /\ acknowledged' \cup (fresh' \cap Effects) \subseteq Scope'
  BY <1>1, LayersKeep DEF OpInv, GateInv, Cleared
<1>2. ASSUME NEW m \in Simulators, Simulate(m)
      PROVE  /\ UNCHANGED <<pc, call, acknowledged, fresh>>
             /\ \A e \in Effects : attempts'[e].state # "ABSENT" => Cleared(e)
  <2>1. CASE UNCHANGED vars
    BY <2>1 DEF vars, dispatch, OpInv, GateInv
  <2>2. CASE passed[m] # None /\ SimulationPrepares(passed[m], Content)
    <3>1. /\ attempts' = [attempts EXCEPT ![passed[m]] = Dispatch!NewAttempt(Content)]
          /\ UNCHANGED <<pc, call, acknowledged, fresh>>
      BY <2>2 DEF SimulationPrepares, Dispatch!PrepareAttempt, Dispatch!volatile
    <3>2. attempts \in [Effects -> DispatchFacts!Attempt \cup {DispatchFacts!Absent}]
      BY DEF OpInv, DispatchFacts!DispatchInv, DispatchFacts!TypeOK
    <3> QED
      BY <2>2, <3>1, <3>2 DEF OpInv, GateInv, Terminals
  <2> QED
    BY <1>2, <2>1, <2>2, SimulateStep
<1>3. ASSUME NEW e \in Effects, FollowUp(e)
      PROVE  /\ UNCHANGED <<pc, call, attempts>>
             /\ acknowledged' \cup (fresh' \cap Effects) \subseteq Scope
  BY <1>3 DEF FollowUp, Advance, dispatch, OpInv, GateInv, DeskInv
<1>4. ASSUME NEW r \in Reconcilers, Verify(r)
      PROVE  /\ UNCHANGED <<pc, call, acknowledged>>
             /\ fresh' \cap Effects \subseteq Scope
             /\ \A e \in Effects : attempts'[e].state # "ABSENT" => Cleared(e)
  <2>1. r \notin Effects
    BY RuntimeAssumption
  <2>2. UNCHANGED <<pc, call, acknowledged>> /\ fresh' \subseteq fresh \cup {r}
    BY <1>4 DEF Verify, LoadMission, LookAt, ObserveTransfer, ObserveNothing, WriteMission,
       RereadMission, WriteReconciledAttempt, RereadAttempt, MoveRefused, ReconcilerStops,
       Proceed, dispatch, Dispatch!ReconcilerWrites, Dispatch!volatile
  <2>3. \/ UNCHANGED attempts
        \/ \E e : Dispatch!ReconcilerWrites(e, job[r].target)
    BY <1>4 DEF Verify, LoadMission, LookAt, ObserveTransfer, ObserveNothing, WriteMission,
       RereadMission, WriteReconciledAttempt, RereadAttempt, MoveRefused, ReconcilerStops,
       dispatch
  <2>4. \A e \in Effects : attempts'[e].state # "ABSENT" => attempts[e].state # "ABSENT"
    BY <2>3 DEF Dispatch!ReconcilerWrites, Dispatch!WriteAttempt, Dispatch!AttemptStates,
       OpInv, DispatchFacts!DispatchInv, DispatchFacts!TypeOK
  <2> QED
    BY <2>1, <2>2, <2>4 DEF OpInv, GateInv
<1>5. ASSUME \/ PrepareStep \/ AdmitStep \/ Elsewhere \/ UNCHANGED opVars
             \/ \E m \in Simulators, e \in Effects : EnterSimulation(m, e)
             \/ \E d \in Dispatchers, e \in Effects : EnterBroadcast(d, e)
             \/ \E t \in Simulators \cup Dispatchers : GiveUp(t)
             \/ \E e \in Effects : CaptureBinding(e)
             \/ \E r \in Reconcilers, e \in Effects : EnterVerification(r, e)
      PROVE  /\ UNCHANGED <<pc, call, acknowledged, attempts>>
             /\ fresh' \subseteq fresh
  BY <1>5 DEF PrepareStep, AdmitStep, AdmitVideo, AdmitRehearsal, AdmitAndPrepare,
     PrepareReconciling, PrepareReady, Prepare, Elsewhere, ProviderActs, TransferAppears,
     TransferConfirmed, opVars, EnterSimulation, EnterBroadcast, GiveUp, CaptureBinding,
     EnterVerification, LoadAttempt, vars, dispatch, Dispatch!ProviderStep,
     Dispatch!ProviderDecides, Dispatch!durable, Dispatch!volatile
<1> QED
  BY <1>1, <1>2, <1>3, <1>4, <1>5, BroadcastKeeps, LayersKeep
  DEF OpNext, OpInv, GateInv, Cleared

LEMMA OpKeeps == OpInv /\ [OpNext]_opVars => OpInv'
BY LayersKeep, DeskKeeps, GateKeeps DEF OpInv

\* In every state that the tools reach, the runtime and the dispatch layer are
\* as their own invariants say, and no payment is prepared, called for or
\* posted before those it comes after are confirmed.
THEOREM OperatorSafety == OpSpec => []OpInv
BY OpStart, OpKeeps, PTL DEF OpSpec
-----------------------------------------------------------------------------
(***************************************************************************)
(* What the verifier selects in a receipt, for any logs whatever.          *)
(***************************************************************************)
\* The transfers that are exactly what was asked for are of its token.
LEMMA ExactIsOfToken ==
  ASSUME NEW expected, NEW logs
  PROVE  Exact(expected, logs) =
           {i \in OfToken(expected.token, logs) : logs[i].transfer = expected}
  BY DEF Exact, OfToken

\* Whatever is selected of another token is not what was asked for.
LEMMA ForeignIsNotExact ==
  ASSUME NEW expected, NEW logs, OfToken(expected.token, logs) = {}
  PROVE  \A i \in DOMAIN logs : logs[i].transfer # expected
  BY DEF OfToken

\* A receipt shows the payment that was asked for exactly when it makes it once:
\* the choice of _select_transfer among the logs of the expected token neither
\* hides a payment behind other transfers of the same transaction nor shows one
\* that is not there, or is there twice.
THEOREM SelectionShowsExactlyOne ==
  ASSUME NEW expected, NEW logs
  PROVE  ShowsExactlyOne(expected, logs)
<1> DEFINE own   == OfToken(expected.token, logs)
           exact == {i \in own : logs[i].transfer = expected}
           shown == \E i \in Select(expected, logs) :
                      Select(expected, logs) = {i} /\ logs[i].transfer = expected
<1>1. Exact(expected, logs) = exact
  BY ExactIsOfToken
<1>2. shown <=> Sole(exact)
  <2>1. CASE Sole(own)
    <3>1. own # {}
      BY <2>1 DEF Sole
    <3>2. Select(expected, logs) = own
      BY <2>1, <3>1 DEF Select
    <3> QED
      BY <2>1, <3>2 DEF Sole
  <2>2. CASE ~Sole(own) /\ own # {}
    <3>1. CASE Sole(exact)
      <4>1. Select(expected, logs) = exact
        BY <2>2, <3>1 DEF Select
      <4> QED
        BY <3>1, <4>1 DEF Sole
    <3>2. CASE ~Sole(exact)
      <4>1. Select(expected, logs) = own
        BY <2>2, <3>2 DEF Select
      <4> QED
        BY <2>2, <3>2, <4>1 DEF Sole
    <3> QED
      BY <3>1, <3>2
  <2>3. CASE own = {}
    <3>1. ~Sole(own) /\ ~Sole(exact)
      BY <2>3 DEF Sole
    <3>2. Select(expected, logs) = Candidates(expected, logs)
      BY <2>3, <3>1 DEF Select
    <3>3. ~shown
      BY <2>3, <3>2, ForeignIsNotExact DEF Candidates
    <3> QED
      BY <3>1, <3>3
  <2> QED
    BY <2>1, <2>2, <2>3
<1> QED
  BY <1>1, <1>2 DEF ShowsExactlyOne
-----------------------------------------------------------------------------
(***************************************************************************)
(* What one look at the bound transaction shows.                           *)
(***************************************************************************)
\* A transfer that was seen deep is as deep in the chain.
LEMMA DeepLook ==
  ASSUME NEW e \in Effects, NEW look \in Looks(e), look.status = "VERIFIED_TRANSFER",
         chain[e] \in {"none", "recent", "confirmed"}
  PROVE  /\ chain[e] # "none"
         /\ look.confirmations >= MinimumConfirmations => chain[e] = "confirmed"
<1>1. PICK head \in 0..Height(e) : look = Observe(Terms[e], TransactionReceipt(e), head)
  BY DEF Looks
<1>2. chain[e] # "none"
  BY <1>1 DEF Observe, TransactionReceipt, NoReceipt, NotFound
<1>3. TransactionReceipt(e).block = 1
  BY <1>2 DEF TransactionReceipt
<1>4. PICK transfer : look = Seen(transfer, head - 1 + 1)
  BY <1>1, <1>3 DEF Observe, NotFound, Ambiguous, Raised
<1>5. look.confirmations = head - 1 + 1
  BY <1>4 DEF Seen
<1> QED
  BY <1>2, <1>5 DEF Height, MinimumConfirmations

\* The amount that is paid is the one that was asked for.
Faithful == \A e \in Effects : IsFaithful(Terms[e].amount, Decimals)

\* The transfer that is seen is the payment: it is among those of its token, so
\* that the sole one is this one, and of several only it is exact.
LEMMA LookShowsThePayment ==
  ASSUME Faithful, NEW e \in Effects, NEW look \in Looks(e), look.status = "VERIFIED_TRANSFER",
         chain[e] \in {"none", "recent", "confirmed"}
  PROVE  look.transfer = Terms[e]
<1> DEFINE logs  == TransactionReceipt(e).logs
           own   == OfToken(Terms[e].token, logs)
           exact == {i \in own : logs[i].transfer = Terms[e]}
           shown == Select(Terms[e], logs)
<1>1. PICK head \in 0..Height(e) : look = Observe(Terms[e], TransactionReceipt(e), head)
  BY DEF Looks
<1>2. Paid(e) = Terms[e]
  <2>1. BaseUnits(DecimalString(Terms[e].amount, Decimals), Decimals) = Terms[e].amount
    BY DEF Faithful, IsFaithful
  <2> QED
    BY <2>1, OperatorAssumption DEF Paid
<1>3. \E i \in exact : TRUE
  <2>1. logs = Append(Extras[e], [transfer |-> Terms[e], sound |-> TRUE])
    BY <1>2, DeepLook DEF TransactionReceipt
  <2>2. Extras[e] \in Seq([transfer : Outside, sound : BOOLEAN])
    BY OperatorAssumption
  <2>3. /\ Len(Extras[e]) + 1 \in DOMAIN logs
        /\ logs[Len(Extras[e]) + 1].transfer = Terms[e]
    BY <2>1, <2>2
  <2> QED
    BY <2>3 DEF OfToken
<1>4. /\ Sole(shown)
      /\ look = Seen(logs[CHOOSE i \in shown : TRUE].transfer,
                     head - TransactionReceipt(e).block + 1)
  BY <1>1 DEF Observe, NotFound, Ambiguous, Raised
<1>5. shown \subseteq exact
  <2>1. CASE Sole(own)
    <3>1. shown = own
      BY <1>3, <2>1 DEF Select
    <3> QED
      BY <1>3, <2>1, <3>1 DEF Sole
  <2>2. CASE ~Sole(own)
    <3>1. shown = IF Sole(exact) THEN exact ELSE own
      BY <1>3, <2>2 DEF Select
    <3> QED
      BY <1>4, <2>2, <3>1
  <2> QED
    BY <2>1, <2>2
<1>6. (CHOOSE i \in shown : TRUE) \in shown
  BY <1>4 DEF Sole
<1> QED
  BY <1>4, <1>5, <1>6 DEF Seen
-----------------------------------------------------------------------------
(***************************************************************************)
(* What a confirmation is worth to the tools: the verifier looks at the    *)
(* transaction of the payment itself, so that it takes no assumption about *)
(* the terms of the payments.                                              *)
(***************************************************************************)
LEMMA EvidenceCases ==
  ASSUME NEW j, NEW t, t.deep \in BOOLEAN
  PROVE  \/ Evidence(j, t) = MarkingUnknown(j)
         \/ /\ j.attempt.state \in {"FAILED_FINAL", "BLOCKED"}
            /\ Evidence(j, t) = Reviewing(j, j.seen)
         \/ t.terms # Terms[j.effect] /\ Evidence(j, t) = Blocking(j)
         \/ t.deep /\ Evidence(j, t) = Projecting(j, j.seen)
<1>1. CASE t.terms # Terms[j.effect]
  BY <1>1 DEF Evidence
<1>2. CASE t.terms = Terms[j.effect] /\ ~t.deep
  BY <1>2 DEF Evidence
<1>3. CASE t.terms = Terms[j.effect] /\ t.deep
  BY <1>3 DEF Evidence
<1> QED
  BY <1>1, <1>2, <1>3

LEMMA VerifyIsGrounded ==
  ASSUME OpInv, NEW r \in Reconcilers, Verify(r), job[r].at = "observe"
  PROVE  Grounded(job'[r], job[r])
<1> DEFINE j == job[r]
<1>1. /\ j \in Job /\ job \in [Reconcilers -> Job] /\ j.effect \in Effects
      /\ j.seen \in SomeMission /\ j.effect \in DOMAIN j.seen.effects
      /\ chain[j.effect] \in {"none", "recent", "confirmed"}
  BY JobFacts, MissionFacts DEF OpInv, RuntimeInv, JobsInv, Snapshotted, Scope
<1>2. ASSUME NEW k, NEW current, Proceed(r, k, current)
      PROVE  job'[r] = k
  BY <1>1, <1>2 DEF Proceed
<1>3. CASE ObserveNothing(r)
  BY <1>1, <1>2, <1>3, Unsure DEF ObserveNothing, Grounded
<1>4. CASE ReconcilerStops(r) \/ MoveRefused(r)
  BY <1>1, <1>2, <1>4, Unsure DEF ReconcilerStops, MoveRefused, Grounded
<1>5. ASSUME NEW look \in Looks(j.effect), look.status = "VERIFIED_TRANSFER",
             ObserveTransfer(r, [terms |-> look.transfer,
                                 deep  |-> look.confirmations >= MinimumConfirmations])
      PROVE  Grounded(job'[r], j)
  <2> DEFINE t == [terms |-> look.transfer,
                   deep  |-> look.confirmations >= MinimumConfirmations]
  <2>1. job'[r] = Evidence(j, t)
    BY <1>2, <1>5 DEF ObserveTransfer
  <2>2. t.deep => chain[j.effect] = "confirmed"
    BY <1>1, <1>5, DeepLook
  <2>3. t.deep => Grounded(Projecting(j, j.seen), j)
    BY <1>1, <2>2, ProjectGrounded
  <2>4. /\ Grounded(Reviewing(j, j.seen), j)
        /\ Grounded(Blocking(j), j) /\ Grounded(MarkingUnknown(j), j)
    BY <1>1, Unsure DEF Grounded
  <2>5. \/ Evidence(j, t) \in {Blocking(j), MarkingUnknown(j), Reviewing(j, j.seen)}
        \/ t.deep /\ Evidence(j, t) = Projecting(j, j.seen)
    <3>1. t.deep \in BOOLEAN
      OBVIOUS
    <3> HIDE DEF t
    <3> QED
      BY <3>1, EvidenceCases
  <2> QED
    BY <2>1, <2>3, <2>4, <2>5
<1>6. ObserveNothing(r) \/ ReconcilerStops(r) \/ MoveRefused(r)
        \/ \E look \in Looks(j.effect) : LookAt(r, look)
  BY DEF Verify, LoadMission, WriteMission, RereadMission, WriteReconciledAttempt,
     RereadAttempt, MissionLabels, AttemptLabels
<1> QED
  BY <1>3, <1>4, <1>5, <1>6 DEF LookAt

LEMMA PaidOpKeeps ==
  ASSUME OpInv, PaidInv, [OpNext]_opVars
  PROVE  PaidInv'
<1>1. /\ RuntimeInv /\ DispatchFacts!DispatchInv
      /\ Dispatch!Next \/ UNCHANGED Dispatch!vars
      /\ Scope' = Scope
  BY LayersKeep DEF OpInv
<1>2. ASSUME NEW r \in Reconcilers, Verify(r)
      PROVE  PaidInv'
  <2>1. CASE \E t : ObserveTransfer(r, t)
    <3>1. PICK t : ObserveTransfer(r, t)
      BY <2>1
    <3>2. /\ job' = [job EXCEPT ![r] = Evidence(job[r], t)]
          /\ UNCHANGED <<mission, chain, provider>>
      BY <3>1 DEF ObserveTransfer, Proceed, dispatch
    <3>3. job'[r] = Evidence(job[r], t)
      BY <1>1, <3>2 DEF RuntimeInv, JobsInv
    <3>4. Grounded(Evidence(job[r], t), job[r])
      BY <1>2, <3>1, <3>3, VerifyIsGrounded DEF ObserveTransfer
    <3> QED
      BY <1>1, <3>2, <3>4, PaidJob
  <2>2. CASE ~\E t : ObserveTransfer(r, t)
    <3>1. ReconcilerActs(r)
      BY <1>2, <2>2 DEF Verify, LookAt, ReconcilerActs
    <3> QED
      BY <1>1, <2>2, <3>1, PaidReconciler
  <2> QED
    BY <2>1, <2>2
<1>3. ASSUME NEW r \in Reconcilers, NEW e \in Effects, EnterVerification(r, e)
      PROVE  PaidInv'
  <2>1. LoadAttempt(r, e) /\ job[r].at # "observe"
    BY <1>3 DEF EnterVerification, LoadAttempt, NoJob
  <2>2. ReconcilerActs(r)
    BY <2>1 DEF ReconcilerActs
  <2> QED
    BY <1>1, <2>1, <2>2, PaidReconciler DEF ObserveTransfer
<1>4. CASE AdmitStep
  BY <1>1, <1>4, PaidMission DEF AdmitStep, AdmitVideo, AdmitRehearsal, AdmitAndPrepare
<1>5. CASE UNCHANGED <<job, chain, mission>>
  BY <1>1, <1>5, PaidElsewhere
<1>6. ASSUME NEW e \in Effects, FollowUp(e)
      PROVE  PaidInv'
  <2>1. e \in Scope
    BY <1>6 DEF FollowUp, OpInv, DeskInv
  <2> QED
    BY <1>1, <1>5, <1>6, <2>1, PaidMission DEF FollowUp
<1>7. CASE Elsewhere
  BY <1>1, <1>5, <1>7, PaidChain DEF Elsewhere, ProviderActs
<1>8. CASE \/ PrepareStep \/ UNCHANGED opVars
           \/ \E m \in Simulators, e \in Effects : EnterSimulation(m, e)
           \/ \E m \in Simulators : Simulate(m)
           \/ \E d \in Dispatchers, e \in Effects : EnterBroadcast(d, e)
           \/ \E d \in Dispatchers : Broadcast(d)
           \/ \E t \in Simulators \cup Dispatchers : GiveUp(t)
           \/ \E e \in Effects : CaptureBinding(e)
  BY <1>5, <1>8 DEF PrepareStep, opVars, EnterSimulation, Simulate, EnterBroadcast, Broadcast,
     GiveUp, CaptureBinding, vars
<1> QED
  BY <1>2, <1>3, <1>4, <1>6, <1>7, <1>8 DEF OpNext

LEMMA PaidOpStart == OpInit => PaidInv
BY DEF OpInit, PaidInv, NoJob, Sure, Scope

LEMMA PaidOpSafety == OpSpec => [](OpInv /\ PaidInv)
BY OpStart, OpKeeps, PaidOpStart, PaidOpKeeps, PTL DEF OpSpec

\* Whatever the terms of the payments, two of the same terms included, a payment
\* the tools confirm was asked for once and is deep in the chain: verification is
\* of the transaction that the provider named for this very payment.
THEOREM BoundConfirmationsAreEarned == OpSpec => []ConfirmedWasPaid
<1>1. OpInv /\ PaidInv => ConfirmedWasPaid
  BY PaidOnce, MissionFacts DEF OpInv, ConfirmedWasPaid, PaidInv, Scope
<1> QED
  BY <1>1, PaidOpSafety, PTL

\* No payment is asked for before every payment it comes after is confirmed and
\* was made once: the gate reads the mission, the simulation and the broadcast
\* follow long after, and nothing the gate relied on is taken back meanwhile.
THEOREM PaymentsKeepTheirOrder == OpSpec => []PaidInSequence
<1>1. OpInv /\ PaidInv => PaidInSequence
  <2> SUFFICES ASSUME OpInv, PaidInv, NEW e \in MissionEffects, posts[e] > 0,
                      NEW f \in Before(e)
               PROVE  mission.effects[f] = "CHAIN_CONFIRMED" /\ posts[f] = 1
    BY DEF PaidInSequence
  <2>1. attempts[e].state # "ABSENT"
    BY Sequence DEF OpInv, DispatchFacts!DispatchInv, DispatchFacts!SafetyInv,
       DispatchFacts!NeverSentUnclaimed
  <2>2. f \in Scope /\ mission.effects[f] = "CHAIN_CONFIRMED"
    BY <2>1, Sequence DEF OpInv, GateInv, Cleared
  <2>3. posts[f] = 1
    BY <2>2, PaidOnce, MissionFacts DEF OpInv, PaidInv
  <2> QED
    BY <2>2, <2>3
<1> QED
  BY <1>1, PaidOpSafety, PTL
-----------------------------------------------------------------------------
(***************************************************************************)
(* Verification stays with its payment: what a job goes on with is for the *)
(* same effect, or nothing, and it comes to block the attempt, or to put   *)
(* the mission to manual review, only from a look at another payment or at *)
(* an attempt that was refused.                                            *)
(***************************************************************************)
Refused == {"FAILED_FINAL", "BLOCKED"}

Unreviewed(j) ==
  /\ j.at \notin {"block", "reopen", "review"}
  /\ j.at \in {"load", "observe"} => j.attempt.state \notin Refused

Carries(k, j) ==
  /\ k = NoJob \/ k.effect = j.effect
  /\ Unreviewed(j) => Unreviewed(k)

LEMMA Carried ==
  ASSUME NEW j \in Job
  PROVE  /\ Carries(NoJob, j)
         /\ \A m, target : \A at \in {"enter", "step", "finish"} :
              Carries(OnMission(j, m, at, target), j)
         /\ \A m : j.at = "load" => Carries(OnMission(j, m, "observe", None), j)
         /\ \A m : Carries([j EXCEPT !.seen = m], j)
         /\ \A a : j.at \in AttemptLabels => Carries([j EXCEPT !.attempt = a], j)
         /\ Carries(MarkingUnknown(j), j) /\ Carries(MarkingVerified(j), j)
         /\ \A m : Reviewing(j, m) = NoJob \/ Reviewing(j, m).effect = j.effect
         /\ Blocking(j) = NoJob \/ Blocking(j).effect = j.effect
<1>1. Carries(NoJob, j)
  BY DEF Carries, NoJob, Unreviewed
<1>2. ASSUME NEW m, NEW target, NEW at
      PROVE  /\ at \in {"enter", "step", "finish"} => Carries(OnMission(j, m, at, target), j)
             /\ j.at = "load" /\ at = "observe" => Carries(OnMission(j, m, at, target), j)
             /\ OnMission(j, m, at, target).effect = j.effect
  BY DEF Carries, OnMission, Job, Unreviewed
<1>3. /\ \A m : Carries([j EXCEPT !.seen = m], j)
      /\ \A a : j.at \in AttemptLabels => Carries([j EXCEPT !.attempt = a], j)
  BY DEF Carries, Job, Unreviewed, AttemptLabels
<1>4. ASSUME NEW at, NEW target
      PROVE  /\ at \in {"unknown", "verify"} =>
                  Carries(OnAttempt([j EXCEPT !.seen = None], at, target), j)
             /\ OnAttempt(j, at, target).effect = j.effect
  BY DEF Carries, OnAttempt, Job, Unreviewed
<1>5. \A m : Reviewing(j, m) = NoJob \/ Reviewing(j, m).effect = j.effect
  BY <1>2 DEF Reviewing
<1>6. Carries(MarkingUnknown(j), j) /\ Carries(MarkingVerified(j), j)
  BY <1>1, <1>4 DEF MarkingUnknown, MarkingVerified
<1>7. Blocking(j) = NoJob \/ Blocking(j).effect = j.effect
  BY <1>4, <1>5 DEF Blocking
<1> QED
  BY <1>1, <1>2, <1>3, <1>5, <1>6, <1>7

LEMMA ProjectionCarried ==
  ASSUME NEW j \in Job, NEW m \in SomeMission, j.effect \in DOMAIN m.effects
  PROVE  /\ Carries(Stepping(j, m), j) /\ Carries(Projecting(j, m), j)
         /\ j.at \in MissionLabels => Carries(AfterMission(j, m), j)
         /\ Carries(AfterAttempt(j), j)
<1>1. m.effects[j.effect] \in {"PLANNED", "RESERVED", "SUBMITTED", "CHAIN_CONFIRMED"}
  BY Missions DEF ReachedEffectStates
<1>2. Carries(Finishing(j, m), j)
  BY Carried DEF Finishing
<1>3. Carries(Stepping(j, m), j)
  BY <1>1, <1>2, Carried DEF Stepping
<1>4. Carries(Projecting(j, m), j)
  BY <1>3, Carried DEF Projecting
<1>5. j.at \in MissionLabels => Carries(AfterMission(j, m), j)
  <2>1. CASE j.at = "reopen"
    BY <2>1, Carried DEF AfterMission, Carries, Unreviewed
  <2>2. CASE j.at # "reopen"
    BY <1>3, <2>2, Carried DEF AfterMission, MissionLabels
  <2> QED
    BY <2>1, <2>2
<1>6. Carries(AfterAttempt(j), j)
  <2>1. CASE j.at = "block"
    BY <2>1, Carried DEF AfterAttempt, Carries, Unreviewed
  <2>2. CASE j.at # "block"
    BY <2>2, Carried DEF AfterAttempt
  <2> QED
    BY <2>1, <2>2
<1> QED
  BY <1>3, <1>4, <1>5, <1>6

StaysWithPayment(r) ==
  /\ \A q \in Reconcilers \ {r} : job'[q] = job[q]
  /\ job'[r] = NoJob \/ (job[r].at # "idle" /\ job'[r].effect = job[r].effect)
  /\ Faithful => Carries(job'[r], job[r])

\* A verification that is under way goes on with its payment.
LEMMA VerifyCarries ==
  ASSUME OpInv, NEW r \in Reconcilers, Verify(r)
  PROVE  StaysWithPayment(r)
<1> DEFINE j == job[r]
<1>1. /\ j \in Job /\ job \in [Reconcilers -> Job] /\ mission \in SomeMission
      /\ RuntimeInv
  BY JobFacts DEF OpInv, RuntimeInv, JobsInv
<1>2. ASSUME NEW k, NEW current, Proceed(r, k, current),
             k = NoJob \/ (j.at # "idle" /\ k.effect = j.effect), Faithful => Carries(k, j)
      PROVE  StaysWithPayment(r)
  BY <1>1, <1>2 DEF Proceed, StaysWithPayment
<1>3. ASSUME NEW k, NEW current, Proceed(r, k, current), j.at # "idle", Carries(k, j)
      PROVE  StaysWithPayment(r)
  BY <1>2, <1>3 DEF Carries
<1>4. ASSUME NEW current, Proceed(r, NoJob, current)
      PROVE  StaysWithPayment(r)
  BY <1>1, <1>2, <1>4, Carried
<1>5. CASE LoadMission(r)
  BY <1>1, <1>3, <1>4, <1>5, Carried DEF LoadMission
<1>6. CASE ObserveNothing(r)
  BY <1>1, <1>3, <1>6, Carried DEF ObserveNothing
<1>7. CASE MoveRefused(r) \/ ReconcilerStops(r)
  BY <1>4, <1>7 DEF MoveRefused, ReconcilerStops
<1>8. ASSUME j.at \in MissionLabels
      PROVE  j.effect \in DOMAIN mission.effects /\ j.at # "idle"
  BY <1>1, <1>8, JobFacts DEF MissionLabels
<1>9. CASE WriteMission(r)
  <2>1. mission' \in SomeMission /\ j.effect \in DOMAIN mission'.effects
    BY <1>1, <1>8, <1>9, WriteMissionShape, MissionFacts DEF WriteMission, Scope
  <2>2. Carries(AfterMission(j, mission'), j)
    BY <1>1, <1>9, <2>1, ProjectionCarried DEF WriteMission
  <2> QED
    BY <1>3, <1>8, <1>9, <2>2 DEF WriteMission
<1>10. CASE RereadMission(r)
  <2>1. Carries(AfterMission(j, mission), j)
    BY <1>1, <1>8, <1>10, ProjectionCarried DEF RereadMission
  <2> QED
    BY <1>1, <1>3, <1>8, <1>10, <2>1, Carried DEF RereadMission
<1>11. CASE WriteReconciledAttempt(r) \/ RereadAttempt(r)
  <2>1. j.at # "idle"
    BY <1>11 DEF WriteReconciledAttempt, RereadAttempt, AttemptLabels
  <2>2. Carries(AfterAttempt(j), j)
    BY <1>1, <2>1, JobFacts, ProjectionCarried
  <2> QED
    BY <1>1, <1>3, <1>11, <2>1, <2>2, Carried DEF WriteReconciledAttempt, RereadAttempt
<1>12. ASSUME j.at = "observe", NEW look \in Looks(j.effect), LookAt(r, look)
       PROVE  StaysWithPayment(r)
  <2> DEFINE t == [terms |-> look.transfer,
                   deep  |-> look.confirmations >= MinimumConfirmations]
  <2>1. CASE look.status # "VERIFIED_TRANSFER"
    BY <1>6, <1>12, <2>1 DEF LookAt
  <2>2. CASE look.status = "VERIFIED_TRANSFER"
    <3>1. Proceed(r, Evidence(j, t), fresh)
      BY <1>12, <2>2 DEF LookAt, ObserveTransfer
    <3>2. /\ j.effect \in Effects /\ j.seen \in SomeMission
          /\ j.effect \in DOMAIN j.seen.effects
          /\ chain[j.effect] \in {"none", "recent", "confirmed"}
      BY <1>1, <1>12, JobFacts, MissionFacts DEF RuntimeInv, Snapshotted, Scope
    <3>3. Faithful => t.terms = Terms[j.effect]
      BY <1>12, <2>2, <3>2, LookShowsThePayment
    <3>4. t.deep \in BOOLEAN
      OBVIOUS
    <3> HIDE DEF t
    <3>5. \/ Evidence(j, t) \in {MarkingUnknown(j), Projecting(j, j.seen)}
          \/ j.attempt.state \in Refused /\ Evidence(j, t) = Reviewing(j, j.seen)
          \/ ~Faithful /\ Evidence(j, t) = Blocking(j)
      BY <3>3, <3>4, EvidenceCases DEF Refused
    <3>6. j.attempt.state \in Refused => ~Unreviewed(j)
      BY <1>12 DEF Unreviewed
    <3>7. /\ Evidence(j, t) = NoJob \/ Evidence(j, t).effect = j.effect
          /\ Faithful => Carries(Evidence(j, t), j)
      BY <1>1, <3>2, <3>5, <3>6, Carried, ProjectionCarried DEF Carries
    <3> QED
      BY <1>2, <1>12, <3>1, <3>7
  <2> QED
    BY <2>1, <2>2
<1> QED
  BY <1>5, <1>6, <1>7, <1>9, <1>10, <1>11, <1>12 DEF Verify
-----------------------------------------------------------------------------
(***************************************************************************)
(* Only what is bound is confirmed.  A verification starts with a binding  *)
(* and stays with its payment, and neither a reference nor a binding that  *)
(* can be read is ever replaced.                                           *)
(***************************************************************************)
BoundInv ==
  /\ \A r \in Reconcilers : job[r].at # "idle" => Bound(job[r].effect)
  /\ \A e \in Scope : mission.effects[e] = "CHAIN_CONFIRMED" => Bound(e)

LEMMA BoundStays ==
  ASSUME OpInv, [OpNext]_opVars, NEW e \in Effects, references[e] # None,
         binding[e] = "complete"
  PROVE  references'[e] # None /\ binding'[e] = "complete"
<1>1. references'[e] = references[e]
  <2>1. [DispatchFacts!Next]_(DispatchFacts!vars)
    BY LayersKeep, SameDispatch DEF Dispatch!vars, DispatchFacts!vars
  <2> QED
    BY <2>1, DispatchAssumed, DispatchFacts!ReferenceStays DEF OpInv, DispatchFacts!DispatchInv
<1>2. ASSUME NEW x \in Effects, CaptureBinding(x)
      PROVE  binding'[e] = "complete"
  BY <1>2 DEF CaptureBinding, ExclusiveWrite, OpInv, DeskInv
<1>3. UNCHANGED binding \/ \E x \in Effects : CaptureBinding(x)
  BY DEF OpNext, PrepareStep, AdmitStep, files, EnterSimulation, Simulate, EnterBroadcast,
     Broadcast, GiveUp, FollowUp, desk, EnterVerification, Verify, Elsewhere, opVars
<1> QED
  BY <1>1, <1>2, <1>3

\* Who writes the mission of the tools.
LEMMA MissionOps ==
  ASSUME [OpNext]_opVars
  PROVE  \/ UNCHANGED mission \/ PrepareReconciling \/ PrepareReady
         \/ (\E e \in MissionEffects : Advance(e))
         \/ \E r \in Reconcilers : Verify(r) /\ WriteMission(r)
<1>1. ASSUME NEW r \in Reconcilers, Verify(r)
      PROVE  UNCHANGED mission \/ WriteMission(r)
  BY <1>1 DEF Verify, LoadMission, LookAt, ObserveTransfer, ObserveNothing, RereadMission,
     WriteReconciledAttempt, RereadAttempt, MoveRefused, ReconcilerStops
<1>2. \/ UNCHANGED mission \/ PrepareReconciling \/ PrepareReady
      \/ (\E e \in MissionEffects : Advance(e))
      \/ \E r \in Reconcilers : Verify(r)
  BY DEF OpNext, PrepareStep, AdmitStep, AdmitVideo, AdmitRehearsal, AdmitAndPrepare,
     EnterSimulation, Simulate, EnterBroadcast, Broadcast, GiveUp, FollowUp, CaptureBinding,
     EnterVerification, LoadAttempt, Elsewhere, ProviderActs, TransferAppears,
     TransferConfirmed, opVars, vars
<1> QED
  BY <1>1, <1>2

\* Following up a broadcast confirms nothing.
LEMMA AdvanceMoves ==
  ASSUME OpInv, NEW e \in Scope, Advance(e)
  PROVE  /\ \/ mission'.state = mission.state
            \/ mission.state = "READY_FOR_EXECUTION" /\ mission'.state = "EXECUTING"
            \/ mission.state = "EXECUTING" /\ mission'.state = "VERIFYING"
         /\ \A f \in Scope : f # e => mission'.effects[f] = mission.effects[f]
         /\ mission'.effects[e] = "CHAIN_CONFIRMED" => mission.effects[e] = "CHAIN_CONFIRMED"
<1>1. /\ mission' = Advanced(mission, e) /\ mission.effects[e] \in ReachedEffectStates
      /\ mission \in MissionOver(Scope)
  BY Missions, MissionFacts DEF Advance, OpInv, RuntimeInv, Scope, Like
<1>2. CASE mission.state = "READY_FOR_EXECUTION"
  <2>1. mission' = [mission EXCEPT !.state = "EXECUTING"]
    BY <1>1, <1>2 DEF Advanced
  <2> QED
    BY <1>1, <1>2, <2>1 DEF MissionOver
<1>3. ASSUME NEW x \in {"RESERVED", "SUBMITTED"}, mission' = [mission EXCEPT !.effects[e] = x]
      PROVE  /\ mission'.state = mission.state
             /\ \A f \in Scope : f # e => mission'.effects[f] = mission.effects[f]
             /\ mission'.effects[e] = x
  BY <1>1, <1>3 DEF MissionOver
<1>4. CASE mission.state # "READY_FOR_EXECUTION" /\ mission.effects[e] = "PLANNED"
  <2>1. mission' = [mission EXCEPT !.effects[e] = "RESERVED"]
    BY <1>1, <1>4 DEF Advanced
  <2> QED
    BY <1>3, <2>1
<1>5. CASE mission.state # "READY_FOR_EXECUTION" /\ mission.effects[e] = "RESERVED"
  <2>1. mission' = [mission EXCEPT !.effects[e] = "SUBMITTED"]
    BY <1>1, <1>5 DEF Advanced
  <2> QED
    BY <1>3, <2>1
<1>6. CASE /\ mission.state # "READY_FOR_EXECUTION"
           /\ mission.effects[e] \notin {"PLANNED", "RESERVED"}
  <2>1. \/ mission.state = "EXECUTING" /\ mission' = [mission EXCEPT !.state = "VERIFYING"]
        \/ mission' = mission
    BY <1>1, <1>6 DEF Advanced
  <2> QED
    BY <1>1, <2>1 DEF MissionOver
<1> QED
  BY <1>2, <1>4, <1>5, <1>6

\* Only a verification confirms a payment, and the one it is for.
LEMMA WhoConfirms ==
  ASSUME OpInv, [OpNext]_opVars, NEW e \in Scope,
         mission.effects[e] # "CHAIN_CONFIRMED", mission'.effects[e] = "CHAIN_CONFIRMED"
  PROVE  \E r \in Reconcilers : job[r].at = "step" /\ job[r].effect = e
<1>1. CASE PrepareReconciling \/ PrepareReady
  <2>1. mission'.effects = mission.effects
    BY <1>1, MissionFacts DEF OpInv, PrepareReconciling, PrepareReady, Prepare, Like, MissionOver
  <2> QED
    BY <2>1
<1>2. ASSUME NEW f \in Scope, Advance(f)
      PROVE  FALSE
  BY <1>2, AdvanceMoves
<1>3. ASSUME NEW r \in Reconcilers, WriteMission(r)
      PROVE  job[r].at = "step" /\ job[r].effect = e
  BY <1>3, WriteMissionShape DEF OpInv
<1> QED
  BY <1>1, <1>2, <1>3, MissionOps DEF OpInv, DeskInv

\* Where the mission goes, and who takes it there.
LEMMA WhereItGoes ==
  ASSUME OpInv, [OpNext]_opVars
  PROVE  \/ mission'.state = mission.state
         \/ PrepareReconciling /\ mission'.state = "RECONCILING"
         \/ PrepareReady /\ mission'.state = "READY_FOR_EXECUTION"
         \/ \E e \in Scope : /\ Advance(e)
                             /\ mission.state \in {"READY_FOR_EXECUTION", "EXECUTING"}
                             /\ mission'.state \in {"EXECUTING", "VERIFYING"}
         \/ \E r \in Reconcilers :
              /\ Verify(r) /\ job[r].at \in MissionLabels \ {"step"}
              /\ mission'.state = job[r].target
<1>1. CASE PrepareReconciling \/ PrepareReady
  BY <1>1, MissionFacts DEF OpInv, PrepareReconciling, PrepareReady, Prepare, Like, MissionOver
<1>2. ASSUME NEW r \in Reconcilers, WriteMission(r)
      PROVE  \/ mission'.state = mission.state
             \/ job[r].at \in MissionLabels \ {"step"} /\ mission'.state = job[r].target
  BY <1>2, MissionFacts DEF OpInv, WriteMission, Applied, Like, MissionOver
<1> QED
  BY <1>1, <1>2, MissionOps, AdvanceMoves DEF OpInv, DeskInv

LEMMA BoundKeeps ==
  ASSUME OpInv, BoundInv, [OpNext]_opVars
  PROVE  BoundInv'
<1>1. /\ Scope' = Scope /\ Scope \subseteq Effects
      /\ \A r \in Reconcilers : job[r].at # "idle" => job[r].effect \in Effects
  BY LayersKeep, JobFacts, MissionFacts DEF OpInv
<1>2. ASSUME NEW r \in Reconcilers, job'[r].at # "idle"
      PROVE  references'[job'[r].effect] # None /\ binding'[job'[r].effect] = "complete"
  <2>1. CASE job'[r] = job[r] \/ (job[r].at # "idle" /\ job'[r].effect = job[r].effect)
    BY <1>1, <1>2, <2>1, BoundStays DEF BoundInv, Bound
  <2>2. ASSUME NEW q \in Reconcilers, Verify(q)
        PROVE  job'[r] = job[r] \/ (job[r].at # "idle" /\ job'[r].effect = job[r].effect)
    BY <1>2, <2>2, VerifyCarries DEF StaysWithPayment, NoJob
  <2>3. ASSUME NEW q \in Reconcilers, NEW e \in Effects, EnterVerification(q, e)
        PROVE  \/ job'[r] = job[r]
               \/ references'[job'[r].effect] # None /\ binding'[job'[r].effect] = "complete"
    <3>1. /\ job' = [job EXCEPT ![q] = [NoJob EXCEPT !.at = "load", !.effect = e,
                                                     !.attempt = attempts[e]]]
          /\ Bound(e)
      BY <2>3 DEF EnterVerification, LoadAttempt, MayVerifyVideo, MayVerifyRehearsal
    <3>2. job'[r] = job[r] \/ job'[r].effect = e
      BY <3>1 DEF NoJob, OpInv, RuntimeInv, JobsInv
    <3> QED
      BY <3>1, <3>2, BoundStays DEF Bound
  <2>4. \/ UNCHANGED job \/ \E q \in Reconcilers : Verify(q)
        \/ \E q \in Reconcilers, e \in Effects : EnterVerification(q, e)
    BY DEF OpNext, PrepareStep, AdmitStep, AdmitVideo, AdmitRehearsal, AdmitAndPrepare,
       PrepareReconciling, PrepareReady, Prepare, EnterSimulation, Simulate, EnterBroadcast,
       Broadcast, GiveUp, FollowUp, Advance, CaptureBinding, Elsewhere, ProviderActs,
       TransferAppears, TransferConfirmed, opVars, vars
  <2> QED
    BY <2>1, <2>2, <2>3, <2>4
<1>3. ASSUME NEW e \in Scope, mission'.effects[e] = "CHAIN_CONFIRMED"
      PROVE  references'[e] # None /\ binding'[e] = "complete"
  <2>1. Bound(e)
    BY <1>3, WhoConfirms DEF BoundInv
  <2> QED
    BY <1>1, <2>1, BoundStays DEF Bound
<1> QED
  BY <1>1, <1>2, <1>3 DEF BoundInv, Bound

LEMMA BoundStart == OpInit => BoundInv
BY DEF OpInit, BoundInv, NoJob, Scope

\* Whatever is verified, by however many terminals, while broadcasts go on and
\* captures are killed halfway: a payment is confirmed only through a binding
\* that can be read, of a reference that belongs to no other payment.
THEOREM ConfirmationsAreBound == OpSpec => []ConfirmedIsBound
<1>1. OpInv /\ BoundInv => ConfirmedIsBound
  BY Sequence DEF OpInv, DeskInv, BoundInv, Bound, ConfirmedIsBound,
     DispatchFacts!DispatchInv, DispatchFacts!SafetyInv,
     DispatchFacts!ReferenceServesOneEffect
<1>2. OpSpec => [](OpInv /\ BoundInv)
  BY OpStart, OpKeeps, BoundStart, BoundKeeps, PTL DEF OpSpec
<1> QED
  BY <1>1, <1>2, PTL
-----------------------------------------------------------------------------
(***************************************************************************)
(* No payment is disputed.  An attempt is blocked only by a verification   *)
(* that comes from a look at another payment, which there is none of.      *)
(***************************************************************************)
NoReview ==
  /\ \A r \in Reconcilers : Unreviewed(job[r])
  /\ \A e \in Effects : attempts[e].state # "BLOCKED"

UndisputedInv == NoReview /\ mission.state # "MANUAL_REVIEW_REQUIRED"

LEMMA UndisputedKeeps ==
  ASSUME Faithful, OpInv, UndisputedInv, [OpNext]_opVars
  PROVE  UndisputedInv'
<1>0. NoReview
  BY DEF UndisputedInv
<1>1. ASSUME NEW r \in Reconcilers, Verify(r)
      PROVE  NoReview'
  <2>1. \A q \in Reconcilers : Unreviewed(job'[q])
    <3>1. \A q \in Reconcilers \ {r} : job'[q] = job[q]
      BY <1>1, VerifyCarries DEF StaysWithPayment
    <3>2. Carries(job'[r], job[r])
      BY <1>1, VerifyCarries DEF StaysWithPayment
    <3> QED
      BY <1>0, <3>1, <3>2 DEF Carries, NoReview, Unreviewed
  <2>2. \A e \in Effects : attempts'[e].state # "BLOCKED"
    <3>1. CASE WriteReconciledAttempt(r)
      <4>1. /\ Dispatch!WriteAttempt(job[r].effect, job[r].target)
            /\ job[r].at \in AttemptLabels
        BY <3>1 DEF WriteReconciledAttempt, Dispatch!ReconcilerWrites
      <4>2. job[r].target # "BLOCKED"
        BY <1>0, <4>1, JobFacts DEF OpInv, NoReview, Unreviewed, JobOK, AttemptLabels
      <4> QED
        BY <1>0, <4>1, <4>2 DEF Dispatch!WriteAttempt, Dispatch!Moved, NoReview, Unreviewed,
           OpInv, DispatchFacts!DispatchInv, DispatchFacts!TypeOK
    <3>2. WriteReconciledAttempt(r) \/ UNCHANGED attempts
      BY <1>1 DEF Verify, LoadMission, LookAt, ObserveTransfer, ObserveNothing, WriteMission,
         RereadMission, RereadAttempt, MoveRefused, ReconcilerStops, dispatch
    <3> QED
      BY <1>0, <3>1, <3>2 DEF NoReview, Unreviewed
  <2> QED
    BY <1>0, <2>1, <2>2 DEF NoReview, Unreviewed
<1>2. ASSUME NEW r \in Reconcilers, NEW e \in Effects, EnterVerification(r, e)
      PROVE  NoReview'
  <2>1. /\ job' = [job EXCEPT ![r] = [NoJob EXCEPT !.at = "load", !.effect = e,
                                                   !.attempt = attempts[e]]]
        /\ UNCHANGED attempts /\ attempts[e].state \notin Refused
    BY <1>2 DEF EnterVerification, LoadAttempt, dispatch, MayVerifyVideo, MayVerifyRehearsal,
       Verifiable, Refused
  <2> QED
    BY <1>0, <2>1 DEF NoReview, Unreviewed, NoJob, OpInv, RuntimeInv, JobsInv
<1>3. ASSUME NEW d \in Dispatchers, Broadcast(d)
      PROVE  NoReview'
  <2>1. UNCHANGED vars \/ DispatcherActs(d)
    BY <1>3, BroadcastSteps DEF OpInv, DeskInv, Terminals
  <2>2. CASE DispatcherActs(d)
    <3>1. DispatchFacts!TypeOK /\ DispatchFacts!DispatcherStep(d) /\ UNCHANGED job
      BY <2>2, SameStep DEF DispatcherActs, OpInv, DispatchFacts!DispatchInv
    <3> QED
      BY <1>0, <3>1, DispatchAssumed, DispatchFacts!DispatchNeverBlocks DEF NoReview, Unreviewed
  <2> QED
    BY <1>0, <2>1, <2>2 DEF NoReview, Unreviewed, vars, dispatch
<1>4. ASSUME NEW m \in Simulators, Simulate(m)
      PROVE  NoReview'
  <2>1. UNCHANGED vars \/ SimulationPrepares(passed[m], Content)
    BY <1>4, SimulateStep
  <2>2. CASE SimulationPrepares(passed[m], Content)
    BY <1>0, <2>2 DEF SimulationPrepares, Dispatch!PrepareAttempt, Dispatch!NewAttempt, NoReview,
       Unreviewed, OpInv, DispatchFacts!DispatchInv, DispatchFacts!TypeOK
  <2> QED
    BY <1>0, <2>1, <2>2 DEF NoReview, Unreviewed, vars, dispatch
<1>5. ASSUME UNCHANGED <<job, attempts>>
      PROVE  NoReview'
  BY <1>0, <1>5 DEF NoReview
<1>6. \/ UNCHANGED <<job, attempts>>
      \/ \E r \in Reconcilers : Verify(r)
      \/ \E r \in Reconcilers, e \in Effects : EnterVerification(r, e)
      \/ \E d \in Dispatchers : Broadcast(d)
      \/ \E m \in Simulators : Simulate(m)
  BY DEF OpNext, PrepareStep, AdmitStep, AdmitVideo, AdmitRehearsal, AdmitAndPrepare,
     PrepareReconciling, PrepareReady, Prepare, EnterSimulation, EnterBroadcast, GiveUp,
     FollowUp, Advance, CaptureBinding, Elsewhere, ProviderActs, TransferAppears,
     TransferConfirmed, opVars, vars, dispatch, Dispatch!ProviderStep,
     Dispatch!ProviderDecides, Dispatch!durable
<1>7. mission'.state # "MANUAL_REVIEW_REQUIRED"
  <2>1. ASSUME NEW r \in Reconcilers, job[r].at \in MissionLabels \ {"step"}
        PROVE  job[r].target # "MANUAL_REVIEW_REQUIRED"
    BY <1>0, <2>1, JobFacts DEF NoReview, Unreviewed, OpInv, JobOK, MissionLabels
  <2> QED
    BY <2>1, WhereItGoes DEF UndisputedInv
<1> QED
  BY <1>1, <1>2, <1>3, <1>4, <1>5, <1>6, <1>7 DEF UndisputedInv

LEMMA UndisputedStart == OpInit => UndisputedInv
<1>1. OpInit => Dispatch!Init
  BY SameEnvironment DEF OpInit, Controlled!Init
<1> QED
  BY <1>1 DEF OpInit, UndisputedInv, NoReview, Unreviewed, NoJob, Dispatch!Init, Dispatch!Absent

\* As long as the amounts come back from their decimal strings as they went, no
\* payment is blocked: whatever else its transaction transfers, and however many
\* verify it, the transaction never shows another payment than the one it is.
THEOREM PaymentsAreNotDisputed ==
  ASSUME Faithful
  PROVE  OpSpec => []PaidIsNotDisputed
<1>1. OpInv /\ UndisputedInv => PaidIsNotDisputed
  BY Sequence DEF UndisputedInv, NoReview, PaidIsNotDisputed
<1>2. OpSpec => [](OpInv /\ UndisputedInv)
  BY OpStart, OpKeeps, UndisputedStart, UndisputedKeeps, PTL DEF OpSpec
<1> QED
  BY <1>1, <1>2, PTL
-----------------------------------------------------------------------------
(***************************************************************************)
(* The tools keep to the controlled port: each of their steps is one of    *)
(* ControlledExecution, or changes nothing of what it speaks about.        *)
(***************************************************************************)
\* Where the control stands still, the rest moves as the mission does.
LEMMA MissionMovesOnly ==
  ASSUME RuntimeInv', UNCHANGED <<control, dispatch>>
  PROVE  Controlled!OthersStep
<1>1. Dispatchable' \subseteq Effects
  BY Missions DEF RuntimeInv, Dispatchable
<1>2. Dispatch!MissionMoves
  BY <1>1 DEF Dispatch!MissionMoves, Dispatch!durable, Dispatch!wire, Dispatch!volatile, dispatch
<1> QED
  BY <1>2, SameEnvironment DEF Controlled!OthersStep, control

LEMMA ToolsKeepToThePort ==
  ASSUME OpInv, [OpNext]_opVars
  PROVE  [Controlled!Next]_(Controlled!vars)
<1>1. ASSUME NEW m \in Simulators, Simulate(m)
      PROVE  Controlled!Next
  <2>1. CASE /\ passed[m] # None
             /\ Controlled!StartSimulation(m, passed[m], Content, <<"sim", passed[m]>>)
    <3>1. passed[m] \in Effects /\ <<"sim", passed[m]>> \in Approvals
      BY <2>1 DEF OpInv, DeskInv, Terminals, Approvals
    <3> QED
      BY <1>1, <2>1, <3>1, Sequence DEF Controlled!Next, Controlled!SimulatorStep
  <2>2. CASE \/ Controlled!ClaimSimulation(m) \/ Controlled!PostSimulation(m)
             \/ Controlled!StopSimulation(m)
             \/ \E outcome \in Controlled!Outcomes["SIMULATION"] :
                  Controlled!EndSimulation(m, outcome)
    BY <1>1, <2>2 DEF Controlled!Next, Controlled!SimulatorStep
  <2> QED
    BY <1>1, <2>1, <2>2 DEF Simulate
<1>2. ASSUME NEW d \in Dispatchers, Broadcast(d)
      PROVE  Controlled!Next
  <2>1. CASE /\ passed[d] # None
             /\ Controlled!BeginBroadcast(d, passed[d], Content, <<"sim", passed[d]>>,
                                          <<"brd", passed[d]>>)
    <3>1. /\ passed[d] \in Effects
          /\ <<"sim", passed[d]>> \in Approvals /\ <<"brd", passed[d]>> \in Approvals
      BY <2>1 DEF OpInv, DeskInv, Terminals, Approvals
    <3> QED
      BY <1>2, <2>1, <3>1, Sequence DEF Controlled!Next, Controlled!BroadcasterStep
  <2>2. CASE \/ Controlled!ClaimBroadcast(d) \/ Controlled!RefuseBroadcast(d)
             \/ Controlled!PostBroadcast(d) \/ Controlled!EndBroadcast(d)
             \/ Controlled!AroundPort(d)
    BY <1>2, <2>2 DEF Controlled!Next, Controlled!BroadcasterStep
  <2> QED
    BY <1>2, <2>1, <2>2 DEF Broadcast
<1>3. ASSUME NEW r \in Reconcilers, Verify(r)
      PROVE  Controlled!Next
  <2>1. CASE WriteReconciledAttempt(r)
    <3>1. /\ job[r].effect \in Effects
          /\ job[r].target \in Controlled!Dispatch!ReconcilerTargets
          /\ Dispatch!ReconcilerWrites(job[r].effect, job[r].target)
      BY <2>1, JobFacts DEF OpInv, JobOK, WriteReconciledAttempt, AttemptLabels,
         Controlled!Dispatch!ReconcilerTargets
    <3>2. Controlled!Dispatch!ReconcilerWrites(job[r].effect, job[r].target)
      BY <3>1, SameEnvironment
    <3> QED
      BY <1>3, <3>1, <3>2 DEF Verify, Controlled!Next, Controlled!OthersStep, control
  <2>2. WriteReconciledAttempt(r) \/ UNCHANGED dispatch
    BY <1>3 DEF Verify, LoadMission, LookAt, ObserveTransfer, ObserveNothing, WriteMission,
       RereadMission, RereadAttempt, MoveRefused, ReconcilerStops
  <2> QED
    BY <1>3, <2>1, <2>2, MissionMovesOnly, LayersKeep DEF Verify, Controlled!Next
<1>4. CASE ProviderActs /\ UNCHANGED control
  BY <1>4, SameEnvironment DEF ProviderActs, Controlled!Next, Controlled!OthersStep, control
<1>5. CASE UNCHANGED <<control, dispatch>>
  BY <1>5, MissionMovesOnly, LayersKeep DEF Controlled!Next
<1>6. \/ UNCHANGED <<control, dispatch>>
      \/ ProviderActs /\ UNCHANGED control
      \/ \E r \in Reconcilers : Verify(r)
      \/ \E d \in Dispatchers : Broadcast(d)
      \/ \E m \in Simulators : Simulate(m)
  BY DEF OpNext, PrepareStep, AdmitStep, AdmitVideo, AdmitRehearsal, AdmitAndPrepare,
     PrepareReconciling, PrepareReady, Prepare, EnterSimulation, EnterBroadcast, GiveUp,
     FollowUp, Advance, CaptureBinding, Elsewhere, EnterVerification, LoadAttempt,
     TransferAppears, TransferConfirmed, opVars, vars
<1> QED
  BY <1>1, <1>2, <1>3, <1>4, <1>5, <1>6

\* Whatever the operator's terminals do, and wherever they are killed, what they
\* do to the ledger, the journal and the provider is what ControlledExecution
\* allows: no tool has a way of its own past the two approvals of a payment.
THEOREM ToolsImplementControlled == OpSpec => RefinesControlled
<1>1. OpInit => Controlled!Init
  BY DEF OpInit
<1>2. OpInv /\ [OpNext]_opVars =>
        [UNCHANGED Controlled!vars \/ Controlled!Next]_(Controlled!vars)
  BY ToolsKeepToThePort
<1> QED
  BY <1>1, <1>2, OperatorSafety, PTL DEF OpSpec, RefinesControlled
-----------------------------------------------------------------------------
(***************************************************************************)
(* So whatever is proved of ControlledExecution holds of the tools.        *)
(***************************************************************************)
LEMMA ControlledAssumed == ControlledFacts!ControlledAssumption
<1>1. IsFiniteSet(Effects)
  <2> DEFINE f == [i \in 1..Len(Order) |-> Order[i]]
  <2>1. f \in Surjection(1..Len(Order), Effects)
    BY OperatorAssumption DEF Surjection
  <2>2. IsFiniteSet(1..Len(Order))
    BY OperatorAssumption, FS_Interval
  <2> QED
    BY <2>1, <2>2, FS_Surjection
<1>2. IsFiniteSet({"sim", "brd"})
  <2>1. IsFiniteSet({"sim"}) /\ {"sim", "brd"} = {"sim"} \cup {"brd"} /\ IsFiniteSet({"brd"})
    BY FS_Singleton
  <2> QED
    BY <2>1, FS_Union
<1>3. IsFiniteSet(Approvals)
  BY <1>1, <1>2, FS_Product DEF Approvals
<1>4. None \notin Approvals
  BY OperatorAssumption
<1>5. None \notin Effects \cup Contents \cup References
  BY RuntimeAssumption
<1>6. None \notin Effects \cup Contents \cup References \cup Approvals
  BY <1>4, <1>5
<1> QED
  BY <1>3, <1>6 DEF ControlledFacts!ControlledAssumption, ControlledFacts!IsFiniteSet, IsFiniteSet

\* Both instances of ControlledExecution are the same specification.
LEMMA SamePortCalls ==
  /\ \A d, e, c : Controlled!Dispatch!Begin(d, e, c) <=> ControlledFacts!Dispatch!Begin(d, e, c)
  /\ \A d, r : Controlled!Dispatch!ReceiveAccepted(d, r)
               <=> ControlledFacts!Dispatch!ReceiveAccepted(d, r)
  /\ \A d :
       /\ Controlled!Dispatch!CreateAttempt(d) <=> ControlledFacts!Dispatch!CreateAttempt(d)
       /\ Controlled!Dispatch!ClaimAttempt(d) <=> ControlledFacts!Dispatch!ClaimAttempt(d)
       /\ Controlled!Dispatch!CheckReference(d) <=> ControlledFacts!Dispatch!CheckReference(d)
       /\ Controlled!Dispatch!RefuseToSend(d) <=> ControlledFacts!Dispatch!RefuseToSend(d)
       /\ Controlled!Dispatch!Send(d) <=> ControlledFacts!Dispatch!Send(d)
       /\ Controlled!Dispatch!ReceiveRejected(d) <=> ControlledFacts!Dispatch!ReceiveRejected(d)
       /\ Controlled!Dispatch!LoseAnswer(d) <=> ControlledFacts!Dispatch!LoseAnswer(d)
       /\ Controlled!Dispatch!PersistReference(d) <=> ControlledFacts!Dispatch!PersistReference(d)
       /\ Controlled!Dispatch!Acknowledge(d) <=> ControlledFacts!Dispatch!Acknowledge(d)
       /\ Controlled!Dispatch!RejectFinal(d) <=> ControlledFacts!Dispatch!RejectFinal(d)
       /\ Controlled!Dispatch!MarkUnknown(d) <=> ControlledFacts!Dispatch!MarkUnknown(d)
       /\ Controlled!Dispatch!StoreFails(d) <=> ControlledFacts!Dispatch!StoreFails(d)
       /\ Controlled!Dispatch!Crash(d) <=> ControlledFacts!Dispatch!Crash(d)
BY
DEF Controlled!Dispatch!CreateAttempt, ControlledFacts!Dispatch!CreateAttempt,
    Controlled!Dispatch!ClaimAttempt, ControlledFacts!Dispatch!ClaimAttempt,
    Controlled!Dispatch!CheckReference, ControlledFacts!Dispatch!CheckReference,
    Controlled!Dispatch!RefuseToSend, ControlledFacts!Dispatch!RefuseToSend,
    Controlled!Dispatch!Send, ControlledFacts!Dispatch!Send,
    Controlled!Dispatch!ReceiveAccepted, ControlledFacts!Dispatch!ReceiveAccepted,
    Controlled!Dispatch!ReceiveRejected, ControlledFacts!Dispatch!ReceiveRejected,
    Controlled!Dispatch!LoseAnswer, ControlledFacts!Dispatch!LoseAnswer,
    Controlled!Dispatch!PersistReference, ControlledFacts!Dispatch!PersistReference,
    Controlled!Dispatch!Acknowledge, ControlledFacts!Dispatch!Acknowledge,
    Controlled!Dispatch!RejectFinal, ControlledFacts!Dispatch!RejectFinal,
    Controlled!Dispatch!RecordOutcome, ControlledFacts!Dispatch!RecordOutcome,
    Controlled!Dispatch!MarkUnknown, ControlledFacts!Dispatch!MarkUnknown,
    Controlled!Dispatch!StoreFails, ControlledFacts!Dispatch!StoreFails,
    Controlled!Dispatch!Crash, ControlledFacts!Dispatch!Crash,
    Controlled!Dispatch!Begin, ControlledFacts!Dispatch!Begin,
    Controlled!Dispatch!Leave, ControlledFacts!Dispatch!Leave,
    Controlled!Dispatch!Goto, ControlledFacts!Dispatch!Goto,
    Controlled!Dispatch!WriteAttempt, ControlledFacts!Dispatch!WriteAttempt,
    Controlled!Dispatch!Moved, ControlledFacts!Dispatch!Moved,
    Controlled!Dispatch!NewAttempt, ControlledFacts!Dispatch!NewAttempt,
    Controlled!Dispatch!MayTransition, ControlledFacts!Dispatch!MayTransition,
    Controlled!Dispatch!NoCall, ControlledFacts!Dispatch!NoCall,
    Controlled!Dispatch!durable, ControlledFacts!Dispatch!durable,
    Controlled!Dispatch!wire, ControlledFacts!Dispatch!wire,
    Controlled!Dispatch!AttemptStates, ControlledFacts!Dispatch!AttemptStates,
    Controlled!Dispatch!AttemptSuccessors, ControlledFacts!Dispatch!AttemptSuccessors

LEMMA SamePortEnvironment ==
  /\ \A e, c : Controlled!Dispatch!PrepareAttempt(e, c)
               <=> ControlledFacts!Dispatch!PrepareAttempt(e, c)
  /\ \A e, target : Controlled!Dispatch!ReconcilerWrites(e, target)
                    <=> ControlledFacts!Dispatch!ReconcilerWrites(e, target)
  /\ Controlled!Dispatch!ReconcilerTargets = ControlledFacts!Dispatch!ReconcilerTargets
  /\ Controlled!Dispatch!ProviderStep <=> ControlledFacts!Dispatch!ProviderStep
  /\ Controlled!Dispatch!MissionMoves <=> ControlledFacts!Dispatch!MissionMoves
BY
DEF Controlled!Dispatch!PrepareAttempt, ControlledFacts!Dispatch!PrepareAttempt,
    Controlled!Dispatch!ReconcilerWrites, ControlledFacts!Dispatch!ReconcilerWrites,
    Controlled!Dispatch!ReconcilerTargets, ControlledFacts!Dispatch!ReconcilerTargets,
    Controlled!Dispatch!ProviderStep, ControlledFacts!Dispatch!ProviderStep,
    Controlled!Dispatch!ProviderDecides, ControlledFacts!Dispatch!ProviderDecides,
    Controlled!Dispatch!MissionMoves, ControlledFacts!Dispatch!MissionMoves,
    Controlled!Dispatch!WriteAttempt, ControlledFacts!Dispatch!WriteAttempt,
    Controlled!Dispatch!Moved, ControlledFacts!Dispatch!Moved,
    Controlled!Dispatch!NewAttempt, ControlledFacts!Dispatch!NewAttempt,
    Controlled!Dispatch!durable, ControlledFacts!Dispatch!durable,
    Controlled!Dispatch!wire, ControlledFacts!Dispatch!wire,
    Controlled!Dispatch!volatile, ControlledFacts!Dispatch!volatile,
    Controlled!Dispatch!AttemptStates, ControlledFacts!Dispatch!AttemptStates,
    Controlled!Dispatch!AttemptSuccessors, ControlledFacts!Dispatch!AttemptSuccessors

LEMMA SamePort ==
  /\ Controlled!Init => ControlledFacts!Init
  /\ Controlled!Next => ControlledFacts!Next
  /\ Controlled!vars = ControlledFacts!vars
<1>1. Controlled!Init => ControlledFacts!Init
  BY
  DEF Controlled!Init, ControlledFacts!Init, Controlled!Free, ControlledFacts!Free,
      Controlled!NoSimulation, ControlledFacts!NoSimulation,
      Controlled!NoPort, ControlledFacts!NoPort,
      Controlled!Dispatch!Init, ControlledFacts!Dispatch!Init,
      Controlled!Dispatch!Absent, ControlledFacts!Dispatch!Absent,
      Controlled!Dispatch!NoCall, ControlledFacts!Dispatch!NoCall
<1>2. Controlled!Next => ControlledFacts!Next
  <2>1. ASSUME NEW m \in Simulators, Controlled!SimulatorStep(m)
        PROVE  ControlledFacts!SimulatorStep(m)
    BY <2>1, SamePortEnvironment
    DEF Controlled!StartSimulation, ControlledFacts!StartSimulation,
        Controlled!ClaimSimulation, ControlledFacts!ClaimSimulation,
        Controlled!PostSimulation, ControlledFacts!PostSimulation,
        Controlled!EndSimulation, ControlledFacts!EndSimulation,
        Controlled!StopSimulation, ControlledFacts!StopSimulation,
        Controlled!Claim, ControlledFacts!Claim,
        Controlled!Finalize, ControlledFacts!Finalize,
        Controlled!Outcomes, ControlledFacts!Outcomes,
        Controlled!dispatch, ControlledFacts!dispatch,
        Controlled!Free, ControlledFacts!Free,
        Controlled!NoSimulation, ControlledFacts!NoSimulation,
        Controlled!SimulatorStep, ControlledFacts!SimulatorStep
  <2>2. ASSUME NEW d \in Dispatchers, Controlled!BroadcasterStep(d)
        PROVE  ControlledFacts!BroadcasterStep(d)
    BY <2>2, SamePortCalls
    DEF Controlled!BeginBroadcast, ControlledFacts!BeginBroadcast,
        Controlled!ClaimBroadcast, ControlledFacts!ClaimBroadcast,
        Controlled!RefuseBroadcast, ControlledFacts!RefuseBroadcast,
        Controlled!PostBroadcast, ControlledFacts!PostBroadcast,
        Controlled!EndBroadcast, ControlledFacts!EndBroadcast,
        Controlled!AroundPort, ControlledFacts!AroundPort,
        Controlled!Claim, ControlledFacts!Claim,
        Controlled!Finalize, ControlledFacts!Finalize,
        Controlled!Receipt, ControlledFacts!Receipt,
        Controlled!Outcomes, ControlledFacts!Outcomes,
        Controlled!dispatch, ControlledFacts!dispatch,
        Controlled!Free, ControlledFacts!Free, Controlled!NoPort, ControlledFacts!NoPort,
        Controlled!BroadcasterStep, ControlledFacts!BroadcasterStep
  <2>3. Controlled!OthersStep => ControlledFacts!OthersStep
    BY SamePortEnvironment DEF Controlled!OthersStep, ControlledFacts!OthersStep
  <2> QED
    BY <2>1, <2>2, <2>3 DEF Controlled!Next, ControlledFacts!Next
<1>3. Controlled!vars = ControlledFacts!vars
  BY DEF Controlled!vars, ControlledFacts!vars, Controlled!dispatch, ControlledFacts!dispatch
<1> QED
  BY <1>1, <1>2, <1>3

LEMMA ToolsRunTheController == OpSpec => ControlledFacts!Spec
<1>1. Controlled!Init => ControlledFacts!Init
  BY SamePort
<1>2. [UNCHANGED Controlled!vars \/ Controlled!Next]_(Controlled!vars)
        => [ControlledFacts!Next]_(ControlledFacts!vars)
  BY SamePort DEF Controlled!vars, ControlledFacts!vars,
     Controlled!dispatch, ControlledFacts!dispatch
<1> QED
  BY <1>1, <1>2, ToolsImplementControlled, PTL DEF RefinesControlled, ControlledFacts!Spec

LEMMA ControllerHolds ==
  OpSpec => [](ControlledFacts!ControlledInv /\ ControlledFacts!ApprovalInv
               /\ ControlledFacts!EveryPostIsApproved)
<1>1. ControlledFacts!Spec => []ControlledFacts!ControlledInv
  BY ControlledAssumed, ControlledFacts!ControlledSafety
<1>2. ControlledFacts!Spec => []ControlledFacts!ApprovalInv
  BY ControlledAssumed, ControlledFacts!ApprovalSafety
<1>3. ControlledFacts!Spec => []ControlledFacts!EveryPostIsApproved
  BY ControlledAssumed, ControlledFacts!PostsAreApproved
<1> QED
  BY <1>1, <1>2, <1>3, ToolsRunTheController, PTL

\* What the tools do to the provider and to the ledger, whichever tool it is and
\* however many terminals run it: no payment is simulated twice, none is broadcast
\* that was not simulated as it is, every request has an approval of its own, and
\* the ledger says of a broadcast what the provider did.
THEOREM ToolsAreControlled ==
  OpSpec => [](/\ Controlled!SimulatedAtMostOnce
               /\ Controlled!BroadcastWasSimulated
               /\ Controlled!EveryPostIsApproved
               /\ Controlled!LedgerTellsTheTruth)
<1>1. ControlledFacts!SimulatedAtMostOnce => Controlled!SimulatedAtMostOnce
  BY DEF ControlledFacts!SimulatedAtMostOnce, Controlled!SimulatedAtMostOnce
<1>2. ControlledFacts!BroadcastWasSimulated => Controlled!BroadcastWasSimulated
  BY DEF ControlledFacts!BroadcastWasSimulated, Controlled!BroadcastWasSimulated,
     ControlledFacts!Receipt, Controlled!Receipt
<1>3. ControlledFacts!EveryPostIsApproved => Controlled!EveryPostIsApproved
  BY DEF ControlledFacts!EveryPostIsApproved, Controlled!EveryPostIsApproved,
     ControlledFacts!Cardinality, Controlled!Cardinality
<1>4. ControlledFacts!LedgerTellsTheTruth => Controlled!LedgerTellsTheTruth
  BY DEF ControlledFacts!LedgerTellsTheTruth, Controlled!LedgerTellsTheTruth
<1>5. ControlledFacts!ControlledInv /\ ControlledFacts!ApprovalInv
        => /\ ControlledFacts!SimulatedAtMostOnce
           /\ ControlledFacts!BroadcastWasSimulated
           /\ ControlledFacts!LedgerTellsTheTruth
  BY DEF ControlledFacts!ControlledInv, ControlledFacts!ApprovalInv
<1> QED
  BY <1>1, <1>2, <1>3, <1>4, <1>5, ControllerHolds, PTL
-----------------------------------------------------------------------------
(***************************************************************************)
(* The next payment is never stranded.  What was claimed stays claimed,    *)
(* and only what was claimed has a reference, is followed up or has moved  *)
(* in the mission.                                                         *)
(***************************************************************************)
Claimed(e) == DispatchFacts!Claimed(e)

ClaimsInv ==
  /\ \A e \in Effects : references[e] # None => Claimed(e)
  /\ \A e \in Effects : e \in acknowledged \cup fresh => Claimed(e)
  /\ \A e \in Scope : mission.effects[e] # "PLANNED" => Claimed(e)

LEMMA DispatchMoves ==
  ASSUME OpInv, [OpNext]_opVars
  PROVE  /\ DispatchFacts!TypeOK /\ DispatchFacts!DispatchInv
         /\ [DispatchFacts!Next]_(DispatchFacts!vars)
<1>1. DispatchFacts!TypeOK /\ DispatchFacts!DispatchInv
  BY DEF OpInv, DispatchFacts!DispatchInv
<1>2. [DispatchFacts!Next]_(DispatchFacts!vars)
  BY LayersKeep, SameDispatch DEF Dispatch!vars, DispatchFacts!vars
<1> QED
  BY <1>1, <1>2

LEMMA ClaimsStay ==
  ASSUME OpInv, [OpNext]_opVars, NEW e \in Effects
  PROVE  /\ Claimed(e) => Claimed(e)'
         /\ attempts[e].state # "ABSENT" => attempts'[e].state # "ABSENT"
<1>1. Claimed(e) => Claimed(e)'
  BY DispatchMoves, DispatchAssumed, DispatchFacts!ClaimedStays DEF Claimed
<1>2. attempts[e].state # "ABSENT" => attempts'[e].state # "ABSENT"
  <2>1. CASE DispatchFacts!Next
    BY <2>1, DispatchMoves, DispatchAssumed, DispatchFacts!PlanIsKept
  <2>2. CASE UNCHANGED DispatchFacts!vars
    BY <2>2 DEF DispatchFacts!vars
  <2> QED
    BY <2>1, <2>2, DispatchMoves
<1> QED
  BY <1>1, <1>2

\* A payment comes to be followed up by its acknowledgement.
LEMMA WhoFollows ==
  ASSUME OpInv, [OpNext]_opVars, NEW e \in Effects,
         e \in acknowledged' \cup fresh', e \notin acknowledged \cup fresh
  PROVE  \E d \in Dispatchers :
           /\ Broadcast(d) /\ DispatcherActs(d)
           /\ attempts[e].state # "PROVIDER_ACKNOWLEDGED"
           /\ attempts'[e].state = "PROVIDER_ACKNOWLEDGED"
<1>1. ASSUME NEW d \in Dispatchers, Broadcast(d)
      PROVE  /\ DispatcherActs(d)
             /\ attempts[e].state # "PROVIDER_ACKNOWLEDGED"
             /\ attempts'[e].state = "PROVIDER_ACKNOWLEDGED"
  BY <1>1, BroadcastSteps DEF OpInv, DeskInv, Terminals, vars, DispatcherActs
<1>2. ASSUME NEW r \in Reconcilers, Verify(r)
      PROVE  FALSE
  <2>1. r \notin Effects
    BY RuntimeAssumption
  <2>2. UNCHANGED acknowledged /\ fresh' \subseteq fresh \cup {r}
    BY <1>2 DEF Verify, LoadMission, LookAt, ObserveTransfer, ObserveNothing, WriteMission,
       RereadMission, WriteReconciledAttempt, RereadAttempt, MoveRefused, ReconcilerStops,
       Proceed
  <2> QED
    BY <2>1, <2>2
<1>3. ASSUME NEW f \in Effects, FollowUp(f)
      PROVE  FALSE
  BY <1>3 DEF FollowUp, Advance
<1>4. ASSUME \/ PrepareStep \/ AdmitStep \/ Elsewhere \/ UNCHANGED opVars
             \/ \E m \in Simulators : Simulate(m)
             \/ \E m \in Simulators, f \in Effects : EnterSimulation(m, f)
             \/ \E d \in Dispatchers, f \in Effects : EnterBroadcast(d, f)
             \/ \E t \in Simulators \cup Dispatchers : GiveUp(t)
             \/ \E f \in Effects : CaptureBinding(f)
             \/ \E r \in Reconcilers, f \in Effects : EnterVerification(r, f)
      PROVE  FALSE
  BY <1>4 DEF PrepareStep, AdmitStep, AdmitVideo, AdmitRehearsal, AdmitAndPrepare,
     PrepareReconciling, PrepareReady, Prepare, Elsewhere, ProviderActs, TransferAppears,
     TransferConfirmed, opVars, Simulate, EnterSimulation, EnterBroadcast, GiveUp,
     CaptureBinding, EnterVerification, LoadAttempt, vars
<1> QED
  BY <1>1, <1>2, <1>3, <1>4 DEF OpNext

\* A payment comes to move in the mission through its own follow-up or verification.
LEMMA WhoMoves ==
  ASSUME OpInv, [OpNext]_opVars, NEW e \in Scope, mission'.effects[e] # mission.effects[e]
  PROVE  \/ e \in acknowledged \cup fresh
         \/ \E r \in Reconcilers : job[r].at = "step" /\ job[r].effect = e
<1>1. CASE PrepareReconciling \/ PrepareReady
  <2>1. mission'.effects = mission.effects
    BY <1>1, MissionFacts DEF OpInv, PrepareReconciling, PrepareReady, Prepare, Like, MissionOver
  <2> QED
    BY <2>1
<1>2. ASSUME NEW f \in Scope, Advance(f)
      PROVE  e \in acknowledged \cup fresh
  BY <1>2, AdvanceMoves DEF Advance
<1>3. ASSUME NEW r \in Reconcilers, WriteMission(r)
      PROVE  job[r].at = "step" /\ job[r].effect = e
  BY <1>3, WriteMissionShape DEF OpInv
<1> QED
  BY <1>1, <1>2, <1>3, MissionOps DEF OpInv, DeskInv

LEMMA ClaimsKeep ==
  ASSUME OpInv, BoundInv, ClaimsInv, [OpNext]_opVars
  PROVE  ClaimsInv'
<1>1. ASSUME NEW e \in Effects, references'[e] # None
      PROVE  Claimed(e)'
  BY <1>1, DispatchMoves, DispatchAssumed, DispatchFacts!StoredIsClaimed DEF ClaimsInv, Claimed
<1>2. ASSUME NEW e \in Effects, e \in acknowledged' \cup fresh'
      PROVE  Claimed(e)'
  <2>1. CASE e \in acknowledged \cup fresh
    BY <2>1, ClaimsStay DEF ClaimsInv
  <2>2. CASE e \notin acknowledged \cup fresh
    BY <1>2, <2>2, WhoFollows DEF Claimed, DispatchFacts!Claimed
  <2> QED
    BY <2>1, <2>2
<1>3. ASSUME NEW e \in Scope, mission'.effects[e] # "PLANNED"
      PROVE  Claimed(e)'
  <2>1. e \in Effects
    BY MissionFacts DEF OpInv
  <2>2. ASSUME NEW r \in Reconcilers, job[r].at = "step", job[r].effect = e
        PROVE  Claimed(e)
    BY <2>1, <2>2 DEF BoundInv, Bound, ClaimsInv
  <2>3. Claimed(e)
    BY <1>3, <2>1, <2>2, WhoMoves DEF ClaimsInv
  <2> QED
    BY <2>1, <2>3, ClaimsStay
<1> QED
  BY <1>1, <1>2, <1>3, LayersKeep DEF ClaimsInv

LEMMA ClaimsStart == OpInit => ClaimsInv
<1>1. OpInit => Dispatch!Init
  BY SameEnvironment DEF OpInit, Controlled!Init
<1> QED
  BY <1>1 DEF OpInit, ClaimsInv, Scope, Dispatch!Init
-----------------------------------------------------------------------------
(***************************************************************************)
(* The approvals of a payment are its own: a simulation holds the one of   *)
(* its payment, a broadcast the other, and what the ledger has of either   *)
(* was taken over an attempt that was made, or claimed, before.            *)
(***************************************************************************)
ApprovalsInv ==
  /\ \A m \in Simulators : simulation[m] # Controlled!NoSimulation =>
       /\ simulation[m].effect \in Effects
       /\ simulation[m].approval = <<"sim", simulation[m].effect>>
       /\ attempts[simulation[m].effect].state # "ABSENT"
  /\ \A d \in Dispatchers : pc[d] # "idle" => port[d].approval = <<"brd", call[d].effect>>
  /\ \A e \in Effects : ledger[<<"sim", e>>] # Controlled!Free => attempts[e].state # "ABSENT"
  /\ \A e \in Effects : ledger[<<"brd", e>>] # Controlled!Free => Claimed(e)

ControlTyped ==
  /\ ledger \in [Approvals -> Controlled!Authorization \cup {Controlled!Free}]
  /\ simulation \in [Simulators ->
       [at : {"claim", "post", "await"}, effect : Effects, content : Contents,
        approval : Approvals] \cup {Controlled!NoSimulation}]
  /\ port \in [Dispatchers ->
       [receipt : Approvals, approval : Approvals, claimed : BOOLEAN]
         \cup {Controlled!NoPort}]

LEMMA ControlIsTyped == ControlledFacts!ControlledInv => ControlTyped
BY DEF ControlledFacts!ControlledInv, ControlledFacts!TypeOK, ControlTyped,
   ControlledFacts!Authorization, Controlled!Authorization,
   ControlledFacts!Outcomes, Controlled!Outcomes, ControlledFacts!Free, Controlled!Free,
   ControlledFacts!NoSimulation, Controlled!NoSimulation,
   ControlledFacts!NoPort, Controlled!NoPort

LEMMA ControlSteps ==
  ASSUME [OpNext]_opVars
  PROVE  \/ UNCHANGED <<control, pc, call>>
         \/ \E m \in Simulators : Simulate(m)
         \/ \E d \in Dispatchers : Broadcast(d)
BY DEF OpNext, PrepareStep, AdmitStep, AdmitVideo, AdmitRehearsal, AdmitAndPrepare,
   PrepareReconciling, PrepareReady, Prepare, EnterSimulation, EnterBroadcast, GiveUp,
   FollowUp, Advance, CaptureBinding, Elsewhere, ProviderActs, TransferAppears,
   TransferConfirmed, EnterVerification, LoadAttempt, Verify, LoadMission, LookAt,
   ObserveTransfer, ObserveNothing, WriteMission, RereadMission, WriteReconciledAttempt,
   RereadAttempt, MoveRefused, ReconcilerStops, opVars, vars, dispatch, control,
   Dispatch!ProviderStep, Dispatch!ProviderDecides, Dispatch!volatile,
   Dispatch!ReconcilerWrites

LEMMA SimulationsMove ==
  ASSUME OpInv, ControlTyped, ApprovalsInv, [OpNext]_opVars,
         NEW m \in Simulators, simulation'[m] # Controlled!NoSimulation
  PROVE  /\ simulation'[m].effect \in Effects
         /\ simulation'[m].approval = <<"sim", simulation'[m].effect>>
         /\ attempts'[simulation'[m].effect].state # "ABSENT"
<1>1. CASE /\ simulation[m] # Controlled!NoSimulation
           /\ simulation'[m].effect = simulation[m].effect
           /\ simulation'[m].approval = simulation[m].approval
  BY <1>1, ClaimsStay DEF ApprovalsInv
<1>2. ASSUME NEW n \in Simulators, n # m, Simulate(n)
      PROVE  simulation'[m] = simulation[m]
  BY <1>2 DEF Simulate, Controlled!StartSimulation, Controlled!ClaimSimulation,
     Controlled!PostSimulation, Controlled!EndSimulation, Controlled!StopSimulation,
     ControlTyped
<1>3. ASSUME passed[m] # None,
             Controlled!StartSimulation(m, passed[m], Content, <<"sim", passed[m]>>)
      PROVE  /\ simulation'[m].effect \in Effects
             /\ simulation'[m].approval = <<"sim", simulation'[m].effect>>
             /\ attempts'[simulation'[m].effect].state # "ABSENT"
  <2>1. passed[m] \in Effects
    BY <1>3 DEF OpInv, DeskInv, Terminals
  <2>2. simulation'[m].effect = passed[m] /\ simulation'[m].approval = <<"sim", passed[m]>>
    BY <1>3 DEF Controlled!StartSimulation, ControlTyped
  <2>3. attempts'[passed[m]].state = "PREPARED"
    <3>1. CASE Controlled!Dispatch!PrepareAttempt(passed[m], Content)
      BY <2>1, <3>1 DEF Controlled!Dispatch!PrepareAttempt, Controlled!Dispatch!NewAttempt,
         OpInv, DispatchFacts!DispatchInv, DispatchFacts!TypeOK
    <3>2. CASE attempts[passed[m]].state = "PREPARED" /\ UNCHANGED Controlled!dispatch
      BY <3>2 DEF Controlled!dispatch
    <3> QED
      BY <1>3, <3>1, <3>2 DEF Controlled!StartSimulation
  <2> QED
    BY <2>1, <2>2, <2>3
<1>4. ASSUME \/ Controlled!ClaimSimulation(m) \/ Controlled!PostSimulation(m)
             \/ Controlled!StopSimulation(m)
             \/ \E outcome \in Controlled!Outcomes["SIMULATION"] :
                  Controlled!EndSimulation(m, outcome)
      PROVE  /\ simulation[m] # Controlled!NoSimulation
             /\ simulation'[m].effect = simulation[m].effect
             /\ simulation'[m].approval = simulation[m].approval
  BY <1>4 DEF Controlled!ClaimSimulation, Controlled!PostSimulation, Controlled!EndSimulation,
     Controlled!StopSimulation, Controlled!NoSimulation, ControlTyped
<1>5. ASSUME NEW d \in Dispatchers, Broadcast(d)
      PROVE  UNCHANGED simulation
  BY <1>5 DEF Broadcast, Controlled!BeginBroadcast, Controlled!ClaimBroadcast,
     Controlled!RefuseBroadcast, Controlled!PostBroadcast, Controlled!EndBroadcast,
     Controlled!AroundPort
<1>6. CASE \E n \in Simulators : Simulate(n)
  BY <1>1, <1>2, <1>3, <1>4, <1>6 DEF Simulate
<1> QED
  BY <1>1, <1>5, <1>6, ControlSteps DEF control

LEMMA PortsMove ==
  ASSUME OpInv, ControlTyped, ApprovalsInv, [OpNext]_opVars,
         NEW d \in Dispatchers, pc'[d] # "idle"
  PROVE  port'[d].approval = <<"brd", call'[d].effect>>
<1>1. CASE /\ pc[d] # "idle" /\ port'[d].approval = port[d].approval
           /\ call'[d].effect = call[d].effect
  BY <1>1 DEF ApprovalsInv
<1>2. ASSUME NEW x \in Dispatchers, x # d, Broadcast(x)
      PROVE  port'[d] = port[d] /\ pc'[d] = pc[d] /\ call'[d] = call[d]
  <2>1. port'[d] = port[d]
    BY <1>2 DEF Broadcast, Controlled!BeginBroadcast, Controlled!ClaimBroadcast,
       Controlled!RefuseBroadcast, Controlled!PostBroadcast, Controlled!EndBroadcast,
       Controlled!AroundPort, ControlTyped
  <2>2. UNCHANGED vars \/ DispatchFacts!DispatcherStep(x)
    BY <1>2, BroadcastSteps, SameStep DEF OpInv, DeskInv, Terminals, DispatcherActs
  <2>3. pc'[d] = pc[d] /\ call'[d] = call[d]
    BY <1>2, <2>2, DispatchMoves, DispatchAssumed, DispatchFacts!OthersStand DEF vars, dispatch
  <2> QED
    BY <2>1, <2>3
<1>3. ASSUME passed[d] # None,
             Controlled!BeginBroadcast(d, passed[d], Content, <<"sim", passed[d]>>,
                                       <<"brd", passed[d]>>)
      PROVE  port'[d].approval = <<"brd", call'[d].effect>>
  <2>1. port'[d].approval = <<"brd", passed[d]>>
    BY <1>3 DEF Controlled!BeginBroadcast, ControlTyped
  <2>2. call'[d].effect = passed[d]
    BY <1>3, DispatchMoves DEF Controlled!BeginBroadcast, Controlled!Dispatch!Begin,
       Controlled!Dispatch!NoCall, DispatchFacts!TypeOK
  <2> QED
    BY <2>1, <2>2
<1>4. ASSUME Controlled!ClaimBroadcast(d)
      PROVE  /\ pc[d] # "idle" /\ port'[d].approval = port[d].approval
             /\ call'[d].effect = call[d].effect
  BY <1>4 DEF Controlled!ClaimBroadcast, Controlled!dispatch, ControlTyped, Controlled!NoPort
<1>5. ASSUME Broadcast(d), Controlled!RefuseBroadcast(d) \/ Controlled!PostBroadcast(d)
               \/ Controlled!EndBroadcast(d) \/ Controlled!AroundPort(d)
      PROVE  /\ pc[d] # "idle" /\ port'[d].approval = port[d].approval
             /\ call'[d].effect = call[d].effect
  <2>1. Controlled!Dispatch!DispatcherStep(d) /\ pc[d] # "idle"
    BY <1>5, PortSteps
  <2>2. DispatchFacts!DispatcherStep(d)
    BY <2>1, SameDispatcher, SameStep
  <2>3. port'[d] = port[d]
    BY <1>5 DEF Controlled!RefuseBroadcast, Controlled!PostBroadcast, Controlled!EndBroadcast,
       Controlled!AroundPort
  <2>4. call'[d].effect = call[d].effect
    <3>1. \A e, c : ~DispatchFacts!Begin(d, e, c)
      BY <2>1 DEF DispatchFacts!Begin
    <3>2. DispatchFacts!DispatchInv
      BY DispatchMoves
    <3> QED
      BY <2>2, <3>1, <3>2, DispatchAssumed, DispatchFacts!DispatcherMovesOn
  <2> QED
    BY <2>1, <2>3, <2>4
<1>6. ASSUME NEW m \in Simulators, Simulate(m)
      PROVE  UNCHANGED <<port, pc, call>>
  BY <1>6, SimulateStep DEF Simulate, Controlled!StartSimulation, Controlled!ClaimSimulation,
     Controlled!PostSimulation, Controlled!EndSimulation, Controlled!StopSimulation, vars,
     dispatch, SimulationPrepares, Dispatch!PrepareAttempt, Dispatch!volatile
<1>7. CASE \E x \in Dispatchers : Broadcast(x)
  BY <1>1, <1>2, <1>3, <1>4, <1>5, <1>7 DEF Broadcast
<1> QED
  BY <1>1, <1>6, <1>7, ControlSteps DEF control

\* An approval is used by the simulation or by the broadcast that holds it.
LEMMA LedgerMoves ==
  ASSUME OpInv, ControlTyped, [OpNext]_opVars, NEW a \in Approvals,
         ledger[a] = Controlled!Free, ledger'[a] # Controlled!Free
  PROVE  \/ \E m \in Simulators : /\ simulation[m] # Controlled!NoSimulation
                                  /\ a = simulation[m].approval
         \/ \E d \in Dispatchers : pc[d] = "send" /\ a = port[d].approval
<1>1. ASSUME NEW b, NEW outcome, Controlled!Finalize(b, outcome)
      PROVE  FALSE
  BY <1>1 DEF Controlled!Finalize, Controlled!Free, ControlTyped
<1>2. ASSUME NEW b, NEW phase, NEW e, NEW c, Controlled!Claim(b, phase, e, c)
      PROVE  a = b
  BY <1>2 DEF Controlled!Claim, ControlTyped
<1>3. ASSUME NEW m \in Simulators, Simulate(m)
      PROVE  Controlled!ClaimSimulation(m)
  BY <1>1, <1>3 DEF Simulate, Controlled!StartSimulation, Controlled!PostSimulation,
     Controlled!EndSimulation, Controlled!StopSimulation
<1>4. ASSUME NEW m \in Simulators, Controlled!ClaimSimulation(m)
      PROVE  simulation[m] # Controlled!NoSimulation /\ a = simulation[m].approval
  BY <1>2, <1>4 DEF Controlled!ClaimSimulation, Controlled!NoSimulation
<1>5. ASSUME NEW d \in Dispatchers, Broadcast(d)
      PROVE  Controlled!ClaimBroadcast(d)
  BY <1>1, <1>5 DEF Broadcast, Controlled!BeginBroadcast, Controlled!RefuseBroadcast,
     Controlled!PostBroadcast, Controlled!EndBroadcast, Controlled!AroundPort
<1>6. ASSUME NEW d \in Dispatchers, Controlled!ClaimBroadcast(d)
      PROVE  pc[d] = "send" /\ a = port[d].approval
  BY <1>2, <1>6 DEF Controlled!ClaimBroadcast
<1> QED
  BY <1>3, <1>4, <1>5, <1>6, ControlSteps DEF control

LEMMA ApprovalsKeep ==
  ASSUME OpInv, ControlTyped, ApprovalsInv, [OpNext]_opVars
  PROVE  ApprovalsInv'
<1>1. \A e \in Effects : <<"sim", e>> \in Approvals /\ <<"brd", e>> \in Approvals
  BY DEF Approvals
<1>2. ASSUME NEW d \in Dispatchers, pc[d] = "send"
      PROVE  call[d].effect \in Effects /\ Claimed(call[d].effect)
  BY <1>2 DEF OpInv, DispatchFacts!DispatchInv, DispatchFacts!SafetyInv, DispatchFacts!CallInv,
     DispatchFacts!Knows, DispatchFacts!Owning, DispatchFacts!TypeOK, Claimed,
     DispatchFacts!Claimed
<1>3. ASSUME NEW e \in Effects, ledger'[<<"sim", e>>] # Controlled!Free
      PROVE  attempts'[e].state # "ABSENT"
  <2>1. attempts[e].state # "ABSENT"
    <3>1. ASSUME NEW d \in Dispatchers, pc[d] = "send"
          PROVE  <<"sim", e>> # port[d].approval
      BY <3>1 DEF ApprovalsInv
    <3>2. ASSUME NEW m \in Simulators, simulation[m] # Controlled!NoSimulation,
                 <<"sim", e>> = simulation[m].approval
          PROVE  attempts[e].state # "ABSENT"
      BY <3>2 DEF ApprovalsInv
    <3> QED
      BY <1>1, <1>3, <3>1, <3>2, LedgerMoves DEF ApprovalsInv
  <2> QED
    BY <2>1, ClaimsStay
<1>4. ASSUME NEW e \in Effects, ledger'[<<"brd", e>>] # Controlled!Free
      PROVE  Claimed(e)'
  <2>1. Claimed(e)
    <3>1. ASSUME NEW d \in Dispatchers, pc[d] = "send", <<"brd", e>> = port[d].approval
          PROVE  Claimed(e)
      BY <1>2, <3>1 DEF ApprovalsInv
    <3>2. ASSUME NEW m \in Simulators, simulation[m] # Controlled!NoSimulation
          PROVE  <<"brd", e>> # simulation[m].approval
      BY <3>2 DEF ApprovalsInv
    <3> QED
      BY <1>1, <1>4, <3>1, <3>2, LedgerMoves DEF ApprovalsInv
  <2> QED
    BY <2>1, ClaimsStay
<1>5. UNCHANGED <<Controlled!NoSimulation, Controlled!Free>>
  BY DEF Controlled!NoSimulation, Controlled!Free
<1> QED
  BY <1>3, <1>4, <1>5, SimulationsMove, PortsMove DEF ApprovalsInv

LEMMA ApprovalsStart == OpInit => ApprovalsInv
<1> SUFFICES ASSUME OpInit PROVE ApprovalsInv
  OBVIOUS
<1>1. Dispatch!Init
  BY SameEnvironment DEF OpInit, Controlled!Init
<1> QED
  BY <1>1 DEF OpInit, Controlled!Init, ApprovalsInv, Dispatch!Init, Approvals
-----------------------------------------------------------------------------
(***************************************************************************)
(* What leads the next payment on.  While no verification has written the  *)
(* mission over a broadcast: a broadcast is of a payment that is not       *)
(* confirmed, in a mission that is ready or being followed up; a mission   *)
(* that is being followed up still has a payment to confirm; and a         *)
(* verification that is about to record a payment has it to itself.        *)
(***************************************************************************)
UnderWay == {"READY_FOR_EXECUTION", "EXECUTING", "VERIFYING"}
Following == {"EXECUTING", "VERIFYING"}

Active(e) ==
  \/ e \in acknowledged \cup fresh
  \/ \E d \in Dispatchers : pc[d] \in DispatchFacts!Owning /\ call[d].effect = e

OnRecord(j) ==
  \/ j.at = "step"
  \/ j.at = "observe" /\ j.seen.state \in {"RECONCILING", "COMPLETED"}

BroadcastsLead ==
  \A e \in Effects : Broadcasting(e) =>
    /\ e \in Scope /\ mission.effects[e] # "CHAIN_CONFIRMED"
    /\ mission.state \in UnderWay

FollowingLeads ==
  mission.state \in Following =>
    \E f \in Scope : Claimed(f) /\ mission.effects[f] # "CHAIN_CONFIRMED"

RecordLeads(j) ==
  OnRecord(j) =>
    /\ ~Active(j.effect)
    /\ mission.effects[j.effect] = "CHAIN_CONFIRMED" \/ mission.state \notin Following

LeadInv ==
  ~overtaken =>
    /\ BroadcastsLead
    /\ FollowingLeads
    /\ \A r \in Reconcilers : RecordLeads(job[r])

AllInv == OpInv /\ BoundInv /\ ClaimsInv /\ LeadInv

\* Of two payments one comes before the other.
LEMMA InOrder ==
  ASSUME NEW e \in Effects, NEW f \in Effects, e # f
  PROVE  e \in Before(f) \/ f \in Before(e)
<1>1. PICK i \in 1..Len(Order) : e = Order[i]
  BY OperatorAssumption
<1>2. PICK j \in 1..Len(Order) : f = Order[j]
  BY OperatorAssumption
<1>3. i < j \/ j < i
  BY <1>1, <1>2, OperatorAssumption
<1> QED
  BY <1>1, <1>2, <1>3 DEF Before

LEMMA NotOvertaken ==
  ASSUME [OpNext]_opVars, ~overtaken'
  PROVE  /\ ~overtaken
         /\ \A r \in Reconcilers : Verify(r) /\ mission' # mission =>
              \A e \in Effects : ~Broadcasting(e)
<1>1. UNCHANGED overtaken \/ \E r \in Reconcilers : Verify(r)
  BY DEF OpNext, PrepareStep, AdmitStep, EnterSimulation, Simulate, EnterBroadcast,
     Broadcast, GiveUp, FollowUp, desk, CaptureBinding, EnterVerification, Elsewhere, opVars
<1>2. ASSUME NEW r \in Reconcilers, Verify(r)
      PROVE  overtaken' = (overtaken \/ (mission' # mission /\ \E e \in Effects : Broadcasting(e)))
  BY <1>2 DEF Verify
<1>3. ASSUME NEW r \in Reconcilers, Verify(r)
      PROVE  ~overtaken /\ (mission' # mission => \A e \in Effects : ~Broadcasting(e))
  BY <1>2, <1>3
<1> QED
  BY <1>1, <1>3

\* A broadcast begins with a payment that the mission shows ready.
LEMMA BroadcastBegins ==
  ASSUME OpInv, [OpNext]_opVars, NEW e \in Effects, Broadcasting(e)', ~Broadcasting(e)
  PROVE  e \in Dispatchable /\ UNCHANGED mission
<1>1. ASSUME NEW d \in Dispatchers, Broadcast(d)
      PROVE  /\ UNCHANGED mission
             /\ DispatchFacts!DispatchInv
             /\ UNCHANGED vars \/ DispatchFacts!DispatcherStep(d)
  BY <1>1, BroadcastSteps, SameStep, DispatchMoves
  DEF OpInv, DeskInv, Terminals, DispatcherActs, Broadcast
<1>2. CASE e \in acknowledged' \cup fresh'
  <2>1. PICK d \in Dispatchers :
           /\ Broadcast(d) /\ DispatcherActs(d)
           /\ attempts[e].state # "PROVIDER_ACKNOWLEDGED"
           /\ attempts'[e].state = "PROVIDER_ACKNOWLEDGED"
    BY <1>2, WhoFollows DEF Broadcasting
  <2>2. e = call[d].effect
    <3>1. DispatchFacts!DispatcherStep(d)
      BY <2>1, SameStep DEF DispatcherActs
    <3> QED
      BY <1>1, <2>1, <3>1, DispatchAssumed, DispatchFacts!DispatcherMovesOn
  <2> QED
    BY <2>2 DEF Broadcasting
<1>3. ASSUME NEW x \in Dispatchers, call'[x].effect = e
      PROVE  e \in Dispatchable /\ UNCHANGED mission
  <2>1. call[x].effect # e
    BY DEF Broadcasting
  <2>2. \E d \in Dispatchers : Broadcast(d)
    <3>1. ASSUME NEW m \in Simulators, Simulate(m)
          PROVE  UNCHANGED call
      BY <3>1, SimulateStep DEF vars, dispatch, SimulationPrepares, Dispatch!PrepareAttempt,
         Dispatch!volatile
    <3> QED
      BY <1>3, <2>1, <3>1, ControlSteps
  <2>3. PICK d \in Dispatchers : Broadcast(d)
    BY <2>2
  <2>4. DispatchFacts!DispatcherStep(d)
    BY <1>1, <1>3, <2>1, <2>3 DEF vars, dispatch
  <2>5. x = d
    BY <1>3, <2>1, <2>4, DispatchMoves, DispatchAssumed, DispatchFacts!OthersStand
  <2>6. \E c \in Contents : DispatchFacts!Begin(d, e, c)
    <3>1. e # None
      BY RuntimeAssumption
    <3>2. call'[d] # DispatchFacts!NoCall
      BY <1>3, <2>5, <3>1 DEF DispatchFacts!NoCall
    <3>3. \/ call'[d].effect = call[d].effect
          \/ call'[d] = DispatchFacts!NoCall
          \/ \E c \in Contents : DispatchFacts!Begin(d, call'[d].effect, c)
      BY <1>1, <2>3, <2>4, DispatchAssumed, DispatchFacts!DispatcherMovesOn
    <3> QED
      BY <1>3, <2>1, <2>5, <3>2, <3>3
  <2> QED
    BY <1>1, <2>3, <2>6 DEF DispatchFacts!Begin
<1> QED
  BY <1>2, <1>3 DEF Broadcasting

\* A dispatcher comes to own an attempt that nobody claimed before.
LEMMA ActivityBegins ==
  ASSUME OpInv, [OpNext]_opVars, NEW e \in Effects, Active(e)', ~Active(e)
  PROVE  ~Claimed(e)
<1>1. CASE e \in acknowledged' \cup fresh'
  <2>1. PICK d \in Dispatchers :
           /\ Broadcast(d) /\ DispatcherActs(d)
           /\ attempts[e].state # "PROVIDER_ACKNOWLEDGED"
           /\ attempts'[e].state = "PROVIDER_ACKNOWLEDGED"
    BY <1>1, WhoFollows DEF Active
  <2>2. DispatchFacts!DispatcherStep(d)
    BY <2>1, SameStep DEF DispatcherActs
  <2>3. pc[d] \in DispatchFacts!Owning /\ e = call[d].effect
    BY <2>1, <2>2, DispatchMoves, DispatchAssumed, DispatchFacts!DispatcherMovesOn
  <2> QED
    BY <2>3 DEF Active
<1>2. ASSUME NEW x \in Dispatchers, pc'[x] \in DispatchFacts!Owning, call'[x].effect = e
      PROVE  ~Claimed(e)
  <2>1. ~(pc[x] \in DispatchFacts!Owning /\ call[x].effect = e)
    BY DEF Active
  <2>2. \E d \in Dispatchers : Broadcast(d)
    <3>1. ASSUME NEW m \in Simulators, Simulate(m)
          PROVE  UNCHANGED <<pc, call>>
      BY <3>1, SimulateStep DEF vars, dispatch, SimulationPrepares, Dispatch!PrepareAttempt,
         Dispatch!volatile
    <3> QED
      BY <1>2, <2>1, <3>1, ControlSteps
  <2>3. PICK d \in Dispatchers : Broadcast(d)
    BY <2>2
  <2>4. DispatchFacts!DispatcherStep(d)
    <3>1. UNCHANGED vars \/ DispatchFacts!DispatcherStep(d)
      BY <2>3, BroadcastSteps, SameStep DEF OpInv, DeskInv, Terminals, DispatcherActs
    <3> QED
      BY <1>2, <2>1, <3>1 DEF vars, dispatch
  <2>5. x = d
    BY <1>2, <2>1, <2>4, DispatchMoves, DispatchAssumed, DispatchFacts!OthersStand
  <2>6. CASE pc[d] \notin DispatchFacts!Owning
    BY <1>2, <2>4, <2>5, <2>6, DispatchMoves, DispatchAssumed, DispatchFacts!DispatcherMovesOn
    DEF Claimed
  <2>7. CASE pc[d] \in DispatchFacts!Owning
    <3>1. /\ pc[d] # "idle" /\ pc'[d] # "idle"
      BY <1>2, <2>5, <2>7 DEF DispatchFacts!Owning
    <3>2. \A c \in Contents : ~DispatchFacts!Begin(d, call'[d].effect, c)
      BY <3>1 DEF DispatchFacts!Begin
    <3>3. call'[d].effect = call[d].effect
      BY <2>4, <3>1, <3>2, DispatchMoves, DispatchAssumed, DispatchFacts!DispatcherMovesOn
    <3> QED
      BY <1>2, <2>1, <2>5, <2>7, <3>3
  <2> QED
    BY <2>6, <2>7
<1> QED
  BY <1>1, <1>2 DEF Active

LEMMA ActiveBroadcasts ==
  ASSUME NEW e, Active(e)
  PROVE  Broadcasting(e)
BY DEF Active, Broadcasting

LEMMA BroadcastsKeep ==
  ASSUME OpInv, LeadInv, [OpNext]_opVars, ~overtaken'
  PROVE  BroadcastsLead'
<1>1. BroadcastsLead
  BY NotOvertaken DEF LeadInv
<1> SUFFICES ASSUME NEW e \in Effects, Broadcasting(e)'
             PROVE  /\ e \in Scope /\ mission'.effects[e] # "CHAIN_CONFIRMED"
                    /\ mission'.state \in UnderWay
  BY LayersKeep DEF BroadcastsLead
<1>2. CASE ~Broadcasting(e)
  BY <1>2, BroadcastBegins DEF Dispatchable, Scope, UnderWay
<1>3. CASE Broadcasting(e)
  <2>1. /\ e \in Scope /\ mission.effects[e] # "CHAIN_CONFIRMED"
        /\ mission.state \in UnderWay
    BY <1>1, <1>3 DEF BroadcastsLead
  <2>2. ASSUME NEW f \in Scope, Advance(f)
        PROVE  mission'.effects[e] # "CHAIN_CONFIRMED" /\ mission'.state \in UnderWay
    BY <2>1, <2>2, AdvanceMoves DEF UnderWay
  <2>3. \A r \in Reconcilers : Verify(r) => mission' = mission
    BY <1>3, NotOvertaken
  <2>4. ~PrepareReconciling /\ ~PrepareReady
    BY <2>1 DEF PrepareReconciling, PrepareReady, Prepare, UnderWay
  <2> QED
    BY <2>1, <2>2, <2>3, <2>4, MissionOps DEF OpInv, DeskInv
<1> QED
  BY <1>2, <1>3

\* What the jobs of the reconcilers may make of the mission's state.
LEMMA JobTargets ==
  ASSUME OpInv, NEW r \in Reconcilers, job[r].at \in MissionLabels \ {"step"}
  PROVE  job[r].target \notin Following
BY JobFacts DEF OpInv, JobOK, MissionLabels, Following

LEMMA FollowingKeeps ==
  ASSUME AllInv, [OpNext]_opVars, ~overtaken'
  PROVE  FollowingLeads'
<1>1. BroadcastsLead /\ FollowingLeads /\ \A r \in Reconcilers : RecordLeads(job[r])
  BY NotOvertaken DEF AllInv, LeadInv
<1>2. /\ OpInv /\ ClaimsInv /\ Scope' = Scope /\ Scope \subseteq Effects
  BY LayersKeep, MissionFacts DEF AllInv, OpInv
<1> SUFFICES ASSUME mission'.state \in Following
             PROVE  \E f \in Scope : Claimed(f)' /\ mission'.effects[f] # "CHAIN_CONFIRMED"
  BY <1>2 DEF FollowingLeads
<1>3. CASE mission.state = mission'.state
  <2>1. PICK f \in Scope : Claimed(f) /\ mission.effects[f] # "CHAIN_CONFIRMED"
    BY <1>1, <1>3 DEF FollowingLeads
  <2>2. ASSUME NEW r \in Reconcilers, job[r].at = "step", job[r].effect = f
        PROVE  FALSE
    BY <1>1, <1>3, <2>1, <2>2 DEF RecordLeads, OnRecord
  <2>3. mission'.effects[f] # "CHAIN_CONFIRMED"
    BY <1>2, <2>1, <2>2, WhoConfirms
  <2> QED
    BY <1>2, <2>1, <2>3, ClaimsStay
<1>4. ASSUME NEW f \in Scope, Advance(f)
      PROVE  Claimed(f)' /\ mission'.effects[f] # "CHAIN_CONFIRMED"
  <2>1. Claimed(f) /\ Broadcasting(f)
    BY <1>2, <1>4 DEF Advance, ClaimsInv, Broadcasting
  <2>2. mission.effects[f] # "CHAIN_CONFIRMED"
    BY <1>1, <1>2, <2>1 DEF BroadcastsLead
  <2>3. mission'.effects[f] # "CHAIN_CONFIRMED"
    BY <1>2, <1>4, <2>2, AdvanceMoves
  <2> QED
    BY <1>2, <2>1, <2>3, ClaimsStay
<1>5. ASSUME NEW r \in Reconcilers, job[r].at \in MissionLabels \ {"step"},
             mission'.state = job[r].target
      PROVE  FALSE
  BY <1>2, <1>5, JobTargets
<1> QED
  BY <1>2, <1>3, <1>4, <1>5, WhereItGoes DEF Following

LEMMA RecordCases ==
  ASSUME NEW j \in Job
  PROVE  /\ ~OnRecord(NoJob) /\ ~OnRecord(MarkingUnknown(j)) /\ ~OnRecord(MarkingVerified(j))
         /\ \A m : ~OnRecord(Reviewing(j, m))
         /\ ~OnRecord(Blocking(j)) /\ ~OnRecord(AfterAttempt(j))
         /\ \A m : OnRecord(Projecting(j, m)) => m.state \in {"RECONCILING", "COMPLETED"}
         /\ \A m : j.at \in MissionLabels /\ OnRecord(AfterMission(j, m)) =>
                     j.at \in {"enter", "step"}
<1>1. ~OnRecord(NoJob)
  BY DEF OnRecord, NoJob
<1>2. ASSUME NEW m, NEW at, NEW target, at \notin {"step", "observe"}
      PROVE  /\ ~OnRecord(OnMission(j, m, at, target))
             /\ ~OnRecord(OnAttempt(j, at, target))
             /\ ~OnRecord(OnAttempt([j EXCEPT !.seen = None], at, target))
  BY <1>2 DEF OnRecord, OnMission, OnAttempt, Job
<1>3. ~OnRecord(MarkingUnknown(j)) /\ ~OnRecord(MarkingVerified(j))
  BY <1>1, <1>2 DEF MarkingUnknown, MarkingVerified
<1>4. \A m : ~OnRecord(Reviewing(j, m))
  BY <1>1, <1>2 DEF Reviewing
<1>5. ~OnRecord(Blocking(j)) /\ ~OnRecord(AfterAttempt(j))
  BY <1>1, <1>2, <1>4 DEF Blocking, AfterAttempt
<1>6. ASSUME NEW m, OnRecord(Projecting(j, m))
      PROVE  m.state \in {"RECONCILING", "COMPLETED"}
  BY <1>1, <1>2, <1>6 DEF Projecting
<1>7. ASSUME NEW m, j.at \in MissionLabels, OnRecord(AfterMission(j, m))
      PROVE  j.at \in {"enter", "step"}
  BY <1>1, <1>3, <1>4, <1>7 DEF AfterMission, MissionLabels
<1> QED
  BY <1>1, <1>3, <1>4, <1>5, <1>6, <1>7

\* A verification comes to record its payment in a mission that was reopened.
LEMMA RecordBegins ==
  ASSUME OpInv, [OpNext]_opVars, NEW r \in Reconcilers, Verify(r), OnRecord(job'[r])
  PROVE  OnRecord(job[r]) \/ mission'.state \in {"RECONCILING", "COMPLETED"}
<1> DEFINE j == job[r]
<1>1. j \in Job /\ job \in [Reconcilers -> Job] /\ JobOK(j, mission)
  BY JobFacts DEF OpInv, RuntimeInv, JobsInv
<1>2. ASSUME NEW k, NEW current, Proceed(r, k, current)
      PROVE  job'[r] = k
  BY <1>1, <1>2 DEF Proceed
<1>3. CASE LoadMission(r)
  <2>1. job'[r] = OnMission(j, mission, "observe", None) /\ mission' = mission
    BY <1>1, <1>2, <1>3, RecordCases DEF LoadMission
  <2> QED
    BY <1>1, <2>1 DEF OnRecord, OnMission, Job
<1>4. CASE ObserveNothing(r) \/ MoveRefused(r) \/ ReconcilerStops(r)
  BY <1>1, <1>2, <1>4, RecordCases DEF ObserveNothing, MoveRefused, ReconcilerStops
<1>5. ASSUME NEW t, ObserveTransfer(r, t), t.deep \in BOOLEAN
      PROVE  OnRecord(j)
  <2>1. job'[r] = Evidence(j, t) /\ j.at = "observe"
    BY <1>2, <1>5 DEF ObserveTransfer
  <2>2. OnRecord(Projecting(j, j.seen))
    BY <1>1, <1>5, <2>1, EvidenceCases, RecordCases
  <2> QED
    BY <1>1, <2>1, <2>2, RecordCases DEF OnRecord
<1>6. CASE WriteMission(r)
  <2>1. job'[r] = AfterMission(j, mission') /\ j.at \in MissionLabels
    BY <1>2, <1>6 DEF WriteMission
  <2>2. CASE j.at = "enter"
    BY <1>1, <1>6, <2>2, MissionFacts
    DEF WriteMission, Applied, JobOK, OpInv, Like, MissionOver
  <2> QED
    BY <1>1, <2>1, <2>2, RecordCases DEF OnRecord
<1>7. CASE RereadMission(r)
  <2>1. j.at \in MissionLabels /\ mission' = mission
    BY <1>7 DEF RereadMission
  <2>2. CASE Reached(j, mission) /\ job'[r] = AfterMission(j, mission)
    BY <1>1, <2>1, <2>2, RecordCases DEF OnRecord, Reached, JobOK
  <2>3. CASE job'[r] = [j EXCEPT !.seen = mission]
    BY <1>1, <2>1, <2>3 DEF OnRecord, Job, MissionLabels
  <2> QED
    BY <1>2, <1>7, <2>2, <2>3 DEF RereadMission
<1>8. CASE WriteReconciledAttempt(r) \/ RereadAttempt(r)
  <2>1. ~OnRecord([j EXCEPT !.attempt = attempts[j.effect]])
    BY <1>1, <1>8 DEF OnRecord, Job, WriteReconciledAttempt, RereadAttempt, AttemptLabels
  <2> QED
    BY <1>1, <1>2, <1>8, <2>1, RecordCases DEF WriteReconciledAttempt, RereadAttempt
<1>9. ASSUME NEW look, LookAt(r, look)
      PROVE  OnRecord(j) \/ ObserveNothing(r)
  <2> DEFINE t == [terms |-> look.transfer,
                   deep  |-> look.confirmations >= MinimumConfirmations]
  <2>1. t.deep \in BOOLEAN
    OBVIOUS
  <2>2. ObserveTransfer(r, t) \/ ObserveNothing(r)
    BY <1>9 DEF LookAt
  <2> HIDE DEF t
  <2> QED
    BY <1>5, <2>1, <2>2
<1>10. CASE \E look \in Looks(j.effect) : LookAt(r, look)
  BY <1>4, <1>9, <1>10
<1> QED
  BY <1>3, <1>4, <1>6, <1>7, <1>8, <1>10 DEF Verify

LEMMA RecordsKeep ==
  ASSUME AllInv, [OpNext]_opVars, ~overtaken', NEW q \in Reconcilers
  PROVE  RecordLeads(job[q])'
<1>1. BroadcastsLead /\ RecordLeads(job[q])
  BY NotOvertaken DEF AllInv, LeadInv
<1>2. /\ OpInv /\ BoundInv /\ ClaimsInv /\ LeadInv
      /\ Scope \subseteq Effects /\ JobOK(job[q], mission)
  BY JobFacts DEF AllInv, OpInv
<1> SUFFICES ASSUME OnRecord(job'[q]), NEW x, x = job'[q].effect
             PROVE  /\ ~Active(x)'
                    /\ mission'.effects[x] = "CHAIN_CONFIRMED" \/ mission'.state \notin Following
  BY DEF RecordLeads, OnRecord, Active
<1>3. CASE OnRecord(job[q]) /\ job[q].effect = x
  <2>1. /\ ~Active(x)
        /\ mission.effects[x] = "CHAIN_CONFIRMED" \/ mission.state \notin Following
    BY <1>1, <1>3 DEF RecordLeads
  <2>2. job[q].at # "idle" /\ x \in Scope /\ x \in Effects
    BY <1>2, <1>3 DEF OnRecord, JobOK, Scope
  <2>3. Claimed(x)
    BY <1>2, <1>3, <2>2 DEF BoundInv, Bound, ClaimsInv
  <2>4. ~Active(x)'
    BY <1>2, <2>1, <2>2, <2>3, ActivityBegins
  <2>5. CASE mission.effects[x] = "CHAIN_CONFIRMED"
    BY <1>2, <2>2, <2>4, <2>5, LayersKeep
  <2>6. ASSUME mission.effects[x] # "CHAIN_CONFIRMED", NEW f \in Scope, Advance(f)
        PROVE  FALSE
    <3>1. Active(f) /\ f # x /\ f \in Effects
      BY <1>2, <2>1, <2>6 DEF Advance, Active
    <3>2. mission.effects[f] # "CHAIN_CONFIRMED"
      BY <1>1, <3>1, ActiveBroadcasts DEF BroadcastsLead
    <3>3. Claimed(f)
      BY <1>2, <2>6, <3>1 DEF Advance, ClaimsInv
    <3>4. Cleared(f) /\ Cleared(x)
      BY <1>2, <2>2, <2>3, <3>1, <3>3 DEF OpInv, GateInv, Claimed, DispatchFacts!Claimed
    <3> QED
      BY <2>2, <2>6, <3>1, <3>2, <3>4, InOrder DEF Cleared
  <2>7. ASSUME NEW r \in Reconcilers, job[r].at \in MissionLabels \ {"step"},
               mission'.state = job[r].target
        PROVE  mission'.state \notin Following
    BY <1>2, <2>7, JobTargets
  <2>8. CASE mission.effects[x] # "CHAIN_CONFIRMED"
    BY <1>2, <2>1, <2>4, <2>6, <2>7, <2>8, WhereItGoes DEF Following
  <2> QED
    BY <2>5, <2>8
<1>4. CASE mission'.state \in {"RECONCILING", "COMPLETED"} /\ x \in Effects
  <2>1. ~Broadcasting(x)'
    BY <1>2, <1>4, BroadcastsKeep DEF BroadcastsLead, UnderWay
  <2> QED
    BY <1>4, <2>1 DEF Active, Broadcasting, Following
<1>5. CASE job'[q] = job[q]
  BY <1>3, <1>5
<1>6. ASSUME NEW r \in Reconcilers, NEW e \in Effects, EnterVerification(r, e)
      PROVE  job'[q] = job[q]
  <2>1. job' = [job EXCEPT ![r] = [NoJob EXCEPT !.at = "load", !.effect = e,
                                                !.attempt = attempts[e]]]
    BY <1>6 DEF EnterVerification, LoadAttempt
  <2>2. job \in [Reconcilers -> Job]
    BY <1>2 DEF OpInv, RuntimeInv, JobsInv
  <2> QED
    BY <2>1, <2>2 DEF OnRecord, NoJob
<1>7. ASSUME NEW r \in Reconcilers, Verify(r), r # q
      PROVE  job'[q] = job[q]
  BY <1>2, <1>7, VerifyCarries DEF StaysWithPayment
<1>8. CASE Verify(q)
  <2>1. job'[q] # NoJob
    BY DEF OnRecord, NoJob
  <2>2. x = job[q].effect /\ job[q].at # "idle"
    BY <1>2, <1>8, <2>1, VerifyCarries DEF StaysWithPayment
  <2>3. OnRecord(job[q]) \/ mission'.state \in {"RECONCILING", "COMPLETED"}
    BY <1>2, <1>8, RecordBegins
  <2> QED
    BY <1>2, <1>3, <1>4, <2>2, <2>3 DEF JobOK, Scope
<1>9. \/ UNCHANGED job \/ \E r \in Reconcilers : Verify(r)
      \/ \E r \in Reconcilers, e \in Effects : EnterVerification(r, e)
  BY DEF OpNext, PrepareStep, AdmitStep, AdmitVideo, AdmitRehearsal, AdmitAndPrepare,
     PrepareReconciling, PrepareReady, Prepare, EnterSimulation, Simulate, EnterBroadcast,
     Broadcast, GiveUp, FollowUp, Advance, CaptureBinding, Elsewhere, ProviderActs,
     TransferAppears, TransferConfirmed, opVars, vars
<1> QED
  BY <1>5, <1>6, <1>7, <1>8, <1>9

LEMMA LeadKeeps == AllInv /\ [OpNext]_opVars => LeadInv'
<1> SUFFICES ASSUME AllInv, [OpNext]_opVars, ~overtaken'
             PROVE  /\ BroadcastsLead' /\ FollowingLeads'
                    /\ \A r \in Reconcilers : RecordLeads(job[r])'
  BY DEF LeadInv
<1>1. BroadcastsLead' /\ FollowingLeads'
  BY BroadcastsKeep, FollowingKeeps DEF AllInv
<1>2. \A r \in Reconcilers : RecordLeads(job[r])'
  BY RecordsKeep
<1> QED
  BY <1>1, <1>2

LEMMA LeadStart == OpInit => LeadInv
<1> SUFFICES ASSUME OpInit PROVE LeadInv
  OBVIOUS
<1>1. Dispatch!Init
  BY SameEnvironment DEF OpInit, Controlled!Init
<1>2. ASSUME NEW e \in Effects
      PROVE  ~Broadcasting(e)
  BY <1>1, RuntimeAssumption DEF OpInit, Broadcasting, Dispatch!Init, Dispatch!NoCall
<1>3. \A r \in Reconcilers : ~OnRecord(job[r])
  BY DEF OpInit, OnRecord, NoJob
<1> QED
  BY <1>2, <1>3 DEF OpInit, LeadInv, BroadcastsLead, FollowingLeads, RecordLeads, Following

LEMMA LeadSafety == OpSpec => [](AllInv /\ ControlTyped /\ ApprovalsInv)
<1>1. OpInit => AllInv /\ ApprovalsInv
  BY OpStart, BoundStart, ClaimsStart, LeadStart, ApprovalsStart DEF AllInv
<1>2. AllInv /\ [OpNext]_opVars => AllInv'
  BY OpKeeps, BoundKeeps, ClaimsKeep, LeadKeeps DEF AllInv
<1>3. AllInv /\ ControlTyped /\ ApprovalsInv /\ [OpNext]_opVars => ApprovalsInv'
  BY ApprovalsKeep DEF AllInv
<1>4. OpSpec => []ControlTyped
  BY ControllerHolds, ControlIsTyped, PTL
<1> QED
  BY <1>1, <1>2, <1>3, <1>4, PTL DEF OpSpec

\* Unless some verification wrote the mission while a broadcast was under way or
\* followed up, the next payment can always be made: for any sequence of payments
\* and any number of terminals, however the commands were killed.
THEOREM NextIsNeverStranded ==
  ASSUME Faithful
  PROVE  OpSpec => []NextStaysExecutable
<1>1. ASSUME AllInv, ApprovalsInv, UndisputedInv, ControlTyped
      PROVE  NextStaysExecutable
  <2> SUFFICES ASSUME ~overtaken, tool = "video", NEW e \in MissionEffects,
                      attempts[e].state \in {"ABSENT", "PREPARED"},
                      \A f \in Before(e) : mission.effects[f] = "CHAIN_CONFIRMED"
               PROVE  /\ mission.effects[e] = "PLANNED"
                      /\ \/ mission.state = "READY_FOR_EXECUTION"
                         \/ mission.state \in {"PERSISTED", "RECONCILING"} /\ Preparable
                      /\ Controlled!Receipt(<<"sim", e>>) => BroadcastPreflight(e)
    BY DEF NextStaysExecutable
  <2>1. /\ MissionEffects = Effects /\ Scope = Effects
        /\ OpInv /\ ClaimsInv /\ FollowingLeads
    BY <1>1 DEF MissionEffects, AllInv, OpInv, DeskInv, LeadInv
  <2>2. ~Claimed(e)
    BY DEF Claimed, DispatchFacts!Claimed
  <2>3. mission.effects[e] = "PLANNED"
    BY <2>1, <2>2 DEF ClaimsInv
  <2>4. ASSUME NEW f \in Effects, mission.effects[f] # "CHAIN_CONFIRMED"
        PROVE  ~Claimed(f) /\ mission.effects[f] = "PLANNED"
    <3>1. f = e \/ e \in Before(f)
      BY <2>1, <2>4, InOrder
    <3>2. ~Claimed(f)
      BY <2>1, <2>2, <2>3, <2>4, <3>1
      DEF OpInv, GateInv, Cleared, Claimed, DispatchFacts!Claimed
    <3> QED
      BY <2>1, <2>4, <3>2 DEF ClaimsInv
  <2>5. Preparable
    BY <2>1, <2>4 DEF Preparable
  <2>6. mission.state \in {"PERSISTED", "RECONCILING", "READY_FOR_EXECUTION"}
    <3>1. mission.state \in ReachedMissionStates
      BY <2>1, MissionFacts DEF OpInv, Like, MissionOver
    <3>2. mission.state \notin Following
      BY <2>1, <2>4 DEF FollowingLeads
    <3>3. mission.state # "COMPLETED"
      BY <2>1, <2>3 DEF OpInv, RuntimeInv, CompletedIsConfirmed
    <3>4. mission.state # "MANUAL_REVIEW_REQUIRED"
      BY <1>1 DEF UndisputedInv
    <3> QED
      BY <3>1, <3>2, <3>3, <3>4 DEF ReachedMissionStates, Following
  <2>7. ASSUME Controlled!Receipt(<<"sim", e>>)
        PROVE  BroadcastPreflight(e)
    <3>1. ledger[<<"sim", e>>] # Controlled!Free
      BY <2>7 DEF Controlled!Receipt, Controlled!Free
    <3>2. attempts[e].state = "PREPARED"
      BY <1>1, <2>1, <3>1 DEF ApprovalsInv
    <3>3. ledger[<<"brd", e>>] = Controlled!Free
      BY <1>1, <2>1, <2>2 DEF ApprovalsInv
    <3>4. references[e] = None
      BY <2>1, <2>2 DEF ClaimsInv
    <3> QED
      BY <2>7, <3>2, <3>3, <3>4 DEF BroadcastPreflight
  <2> QED
    BY <2>3, <2>5, <2>6, <2>7
<1>2. OpInv /\ UndisputedInv /\ [OpNext]_opVars => UndisputedInv'
  BY UndisputedKeeps
<1> QED
  BY <1>1, <1>2, OpStart, OpKeeps, UndisputedStart, LeadSafety, PTL DEF OpSpec
=============================================================================
