----------------------- MODULE ControlledExecutionProofs -----------------------
(***************************************************************************)
(* The controlled port, for any number of processes, effects and approvals.*)
(***************************************************************************)
EXTENDS ControlledExecution, FiniteSetTheorems, TLAPS

\* What is proved of ExecutionDispatch, for the variables of this module.
DispatchFacts == INSTANCE ExecutionDispatchProofs

\* Every step of this module is a step of ExecutionDispatch, or none.
LEMMA ControlledStep == [Next]_vars => [Dispatch!Next]_(Dispatch!vars)
<1> SUFFICES ASSUME [Next]_vars PROVE Dispatch!Next \/ UNCHANGED Dispatch!vars
  OBVIOUS
<1>1. ASSUME NEW m \in Simulators, SimulatorStep(m)
      PROVE  Dispatch!Next \/ UNCHANGED Dispatch!vars
  BY <1>1 DEF SimulatorStep, StartSimulation, ClaimSimulation, PostSimulation,
              EndSimulation, StopSimulation, dispatch, Dispatch!Next, Dispatch!vars
<1>2. ASSUME NEW d \in Dispatchers, BroadcasterStep(d)
      PROVE  Dispatch!Next \/ UNCHANGED Dispatch!vars
  <2>1. Dispatch!DispatcherStep(d) \/ UNCHANGED Dispatch!vars
    BY <1>2 DEF BroadcasterStep, BeginBroadcast, ClaimBroadcast, RefuseBroadcast,
                PostBroadcast, EndBroadcast, AroundPort, dispatch, Dispatch!vars,
                Dispatch!DispatcherStep
  <2> QED
    BY <2>1 DEF Dispatch!Next
<1>3. CASE OthersStep
  BY <1>3 DEF OthersStep, Dispatch!Next
<1>4. CASE UNCHANGED vars
  BY <1>4 DEF vars, dispatch, Dispatch!vars
<1> QED
  BY <1>1, <1>2, <1>3, <1>4 DEF Next

\* The controlled port keeps to what ExecutionDispatch says of a delegate, so
\* that whatever is proved of that module holds of this one.
THEOREM ControlledImplementsDispatch == Spec => RefinesDispatch
<1>1. Init => Dispatch!Init
  BY DEF Init
<1> QED
  BY <1>1, ControlledStep, PTL DEF Spec, RefinesDispatch, Dispatch!Spec

\* Both instances of ExecutionDispatch are the same specification.
LEMMA SameDispatch ==
  /\ Dispatch!Init => DispatchFacts!Init
  /\ Dispatch!Next => DispatchFacts!Next
  /\ Dispatch!vars = DispatchFacts!vars
<1>1. Dispatch!Init => DispatchFacts!Init
  BY DEF Dispatch!Init, DispatchFacts!Init, Dispatch!Absent, DispatchFacts!Absent,
         Dispatch!NoCall, DispatchFacts!NoCall
<1>2. Dispatch!Next => DispatchFacts!Next
  BY DEF Dispatch!Next, DispatchFacts!Next, Dispatch!DispatcherStep,
         DispatchFacts!DispatcherStep, Dispatch!ProviderStep,
         DispatchFacts!ProviderStep, Dispatch!PrepareAttempt,
         DispatchFacts!PrepareAttempt, Dispatch!ReconcilerWrites,
         DispatchFacts!ReconcilerWrites, Dispatch!MissionMoves,
         DispatchFacts!MissionMoves, Dispatch!ReconcilerTargets,
         DispatchFacts!ReconcilerTargets, Dispatch!Begin, DispatchFacts!Begin,
         Dispatch!CreateAttempt, DispatchFacts!CreateAttempt,
         Dispatch!ClaimAttempt, DispatchFacts!ClaimAttempt,
         Dispatch!CheckReference, DispatchFacts!CheckReference,
         Dispatch!RefuseToSend, DispatchFacts!RefuseToSend,
         Dispatch!RejectUnsent, DispatchFacts!RejectUnsent, Dispatch!Send,
         DispatchFacts!Send, Dispatch!ReceiveAccepted,
         DispatchFacts!ReceiveAccepted, Dispatch!ReceiveRejected,
         DispatchFacts!ReceiveRejected, Dispatch!LoseAnswer,
         DispatchFacts!LoseAnswer, Dispatch!PersistReference,
         DispatchFacts!PersistReference, Dispatch!Acknowledge,
         DispatchFacts!Acknowledge, Dispatch!RejectFinal,
         DispatchFacts!RejectFinal, Dispatch!RecordOutcome,
         DispatchFacts!RecordOutcome, Dispatch!MarkUnknown,
         DispatchFacts!MarkUnknown, Dispatch!StoreFails,
         DispatchFacts!StoreFails, Dispatch!Crash, DispatchFacts!Crash,
         Dispatch!ProviderDecides, DispatchFacts!ProviderDecides,
         Dispatch!Leave, DispatchFacts!Leave, Dispatch!Goto,
         DispatchFacts!Goto, Dispatch!WriteAttempt, DispatchFacts!WriteAttempt,
         Dispatch!Moved, DispatchFacts!Moved, Dispatch!NewAttempt,
         DispatchFacts!NewAttempt, Dispatch!MayTransition,
         DispatchFacts!MayTransition, Dispatch!NoCall, DispatchFacts!NoCall,
         Dispatch!durable, DispatchFacts!durable, Dispatch!wire,
         DispatchFacts!wire, Dispatch!volatile, DispatchFacts!volatile,
         Dispatch!AttemptStates, DispatchFacts!AttemptStates,
         Dispatch!AttemptSuccessors, DispatchFacts!AttemptSuccessors
<1>3. Dispatch!vars = DispatchFacts!vars
  BY DEF Dispatch!vars, DispatchFacts!vars
<1> QED
  BY <1>1, <1>2, <1>3

LEMMA DispatchAssumed == DispatchFacts!DispatchAssumption
  BY ControlledAssumption DEF DispatchFacts!DispatchAssumption

\* So the invariants of ExecutionDispatch hold here.
THEOREM DispatchHolds == Spec => []DispatchFacts!DispatchInv
<1>2. DispatchFacts!Spec => []DispatchFacts!DispatchInv
  BY DispatchAssumed, DispatchFacts!DispatchSafety
<1>3. [Dispatch!Next]_(Dispatch!vars) => [DispatchFacts!Next]_(DispatchFacts!vars)
  BY SameDispatch DEF Dispatch!vars, DispatchFacts!vars
<1> QED
  BY <1>2, <1>3, SameDispatch, ControlledImplementsDispatch, PTL
  DEF RefinesDispatch, Dispatch!Spec, DispatchFacts!Spec
-----------------------------------------------------------------------------
(***************************************************************************)
(* The ledger only grows: claims stay what they were made for, and a       *)
(* receipt stays one.                                                      *)
(***************************************************************************)
LedgerOK == ledger \in [Approvals -> Authorization \cup {Free}]

Grows ==
  \A a \in Approvals :
    /\ ledger[a] # Free =>
         /\ ledger'[a].phase = ledger[a].phase
         /\ ledger'[a].effect = ledger[a].effect
         /\ ledger'[a].content = ledger[a].content
    /\ Receipt(a) => Receipt(a)'

LEMMA Authorizations ==
  ASSUME NEW x
  PROVE  x \in Authorization <=>
           \E p \in {"SIMULATION", "BROADCAST"} :
             x \in [phase : {p}, effect : Effects, content : Contents,
                    state : {"CLAIMED"} \cup Outcomes[p]]
  BY DEF Authorization

LEMMA ClaimGrows ==
  ASSUME LedgerOK, NEW b \in Approvals, NEW p \in {"SIMULATION", "BROADCAST"},
         NEW e \in Effects, NEW c \in Contents, Claim(b, p, e, c)
  PROVE  LedgerOK' /\ Grows
<1> DEFINE x == [phase |-> p, effect |-> e, content |-> c, state |-> "CLAIMED"]
<1>1. x \in Authorization
  BY Authorizations
<1>2. ledger' = [ledger EXCEPT ![b] = x] /\ ledger[b] = Free
  BY DEF Claim
<1>3. ~Receipt(b)
  BY <1>2 DEF Receipt, Free
<1> HIDE DEF x
<1> QED
  BY <1>1, <1>2, <1>3 DEF LedgerOK, Grows, Receipt

LEMMA FinalizeGrows ==
  ASSUME LedgerOK, NEW b \in Approvals, NEW outcome, Finalize(b, outcome)
  PROVE  LedgerOK' /\ Grows
<1>1. CASE UNCHANGED ledger
  BY <1>1 DEF LedgerOK, Grows, Receipt
<1>2. CASE /\ ledger[b].state = "CLAIMED"
           /\ outcome \in Outcomes[ledger[b].phase]
           /\ ledger' = [ledger EXCEPT ![b].state = outcome]
  <2>1. ledger[b] \in Authorization
    BY <1>2 DEF LedgerOK, Free
  <2>2. PICK p \in {"SIMULATION", "BROADCAST"} :
          ledger[b] \in [phase : {p}, effect : Effects, content : Contents,
                         state : {"CLAIMED"} \cup Outcomes[p]]
    BY <2>1, Authorizations
  <2> DEFINE x == [ledger[b] EXCEPT !.state = outcome]
  <2>3. /\ x \in [phase : {p}, effect : Effects, content : Contents,
                  state : {"CLAIMED"} \cup Outcomes[p]]
        /\ x.phase = ledger[b].phase
        /\ x.effect = ledger[b].effect
        /\ x.content = ledger[b].content
    BY <1>2, <2>2
  <2>4. x \in Authorization
    BY <2>3, Authorizations
  <2>5. ledger' = [ledger EXCEPT ![b] = x]
    BY <1>2
  <2>6. ~Receipt(b)
    BY <1>2 DEF Receipt
  <2> HIDE DEF x
  <2> QED
    BY <2>3, <2>4, <2>5, <2>6 DEF LedgerOK, Grows, Receipt
<1> QED
  BY <1>1, <1>2 DEF Finalize

LEMMA UnchangedGrows == UNCHANGED ledger => Grows
  BY DEF Grows, Receipt
-----------------------------------------------------------------------------
\* What a step may rely on.
StepAssumption ==
  /\ ControlledInv
  /\ DispatchFacts!DispatchInv
  /\ DispatchFacts!DispatchInv'

\* A simulation that runs, and a call that runs, name real things.
LEMMA Running ==
  ASSUME StepAssumption
  PROVE  /\ \A m \in Simulators :
              simulation[m].at \in {"claim", "post", "await"} =>
                /\ simulation[m].approval \in Approvals
                /\ simulation[m].effect \in Effects
                /\ simulation[m].content \in Contents
         /\ \A d \in Dispatchers :
              pc[d] # "idle" =>
                /\ port[d].approval \in Approvals
                /\ port[d].receipt \in Approvals
                /\ call[d].effect \in Effects
                /\ call[d].content \in Contents
  BY DEF StepAssumption, ControlledInv, TypeOK, NoSimulation, DispatchFacts!DispatchInv,
         DispatchFacts!TypeOK

LEMMA LedgerStep ==
  ASSUME StepAssumption, [Next]_vars
  PROVE  LedgerOK' /\ Grows
<1>1. LedgerOK
  BY DEF StepAssumption, ControlledInv, TypeOK, LedgerOK
<1>2. CASE UNCHANGED ledger
  BY <1>1, <1>2, UnchangedGrows DEF LedgerOK
<1>3. ASSUME NEW m \in Simulators, SimulatorStep(m)
      PROVE  LedgerOK' /\ Grows
  <2>1. CASE ClaimSimulation(m)
    BY <1>1, <2>1, Running, ClaimGrows DEF ClaimSimulation
  <2>2. ASSUME NEW o, EndSimulation(m, o)
        PROVE  LedgerOK' /\ Grows
    BY <1>1, <2>2, Running, FinalizeGrows DEF EndSimulation
  <2> QED
    BY <1>2, <1>3, <2>1, <2>2
    DEF SimulatorStep, StartSimulation, PostSimulation, StopSimulation
<1>4. ASSUME NEW d \in Dispatchers, BroadcasterStep(d)
      PROVE  LedgerOK' /\ Grows
  <2>1. CASE ClaimBroadcast(d)
    BY <1>1, <2>1, Running, ClaimGrows DEF ClaimBroadcast
  <2>2. CASE EndBroadcast(d)
    <3>1. pc[d] # "idle"
      BY <2>2 DEF EndBroadcast, Dispatch!ReceiveAccepted, Dispatch!ReceiveRejected,
                  Dispatch!LoseAnswer
    <3> QED
      BY <1>1, <2>2, <3>1, Running, FinalizeGrows DEF EndBroadcast
  <2> QED
    BY <1>2, <1>4, <2>1, <2>2
    DEF BroadcasterStep, BeginBroadcast, RefuseBroadcast, PostBroadcast, AroundPort
<1> QED
  BY <1>2, <1>3, <1>4 DEF Next, OthersStep, vars

\* Every step of this module is a step of ExecutionDispatch, or none.
LEMMA DispatchSteps ==
  ASSUME [Next]_vars
  PROVE  DispatchFacts!Next \/ UNCHANGED dispatch
<1>1. Dispatch!Next \/ UNCHANGED dispatch
  BY ControlledStep DEF Dispatch!vars, dispatch
<1> QED
  BY <1>1, SameDispatch

\* Only the POST of a simulator counts a simulation, only the POST of a
\* broadcaster a payment.
LEMMA SimulationStep ==
  ASSUME StepAssumption, [Next]_vars
  PROVE  /\ simulation' \in [Simulators ->
              [at : {"claim", "post", "await"}, effect : Effects, content : Contents,
               approval : Approvals] \cup {NoSimulation}]
         /\ simulated' \in [Effects -> Nat]
         /\ SimulatorInv'
         /\ SimulatedAtMostOnce'
<1> DEFINE Running1 == [at : {"claim", "post", "await"}, effect : Effects,
                        content : Contents, approval : Approvals]
           Goal == /\ simulation' \in [Simulators -> Running1 \cup {NoSimulation}]
                   /\ simulated' \in [Effects -> Nat]
                   /\ SimulatorInv'
                   /\ SimulatedAtMostOnce'
<1>1. /\ simulation \in [Simulators -> Running1 \cup {NoSimulation}]
      /\ simulated \in [Effects -> Nat]
      /\ SimulatorInv
      /\ SimulatedAtMostOnce
  BY DEF StepAssumption, ControlledInv, TypeOK
<1>2. \A e \in Effects : Simulating(e) => Simulating(e)'
  BY LedgerStep, ControlledAssumption DEF Grows, Simulating, Free
<1>3. CASE UNCHANGED <<simulation, simulated>>
  BY <1>1, <1>2, <1>3 DEF SimulatorInv, SimulatedAtMostOnce, NoSimulation
<1>4. ASSUME NEW m \in Simulators, NEW x \in Running1 \cup {NoSimulation},
             x.at \notin {"post", "await"},
             simulation' = [simulation EXCEPT ![m] = x], UNCHANGED simulated
      PROVE  Goal
  BY <1>1, <1>2, <1>4 DEF SimulatorInv, SimulatedAtMostOnce, NoSimulation
<1>5. ASSUME NEW m \in Simulators, NEW e \in Effects, NEW c \in Contents,
             NEW a \in Approvals, StartSimulation(m, e, c, a)
      PROVE  Goal
  <2> DEFINE x == [at |-> "claim", effect |-> e, content |-> c, approval |-> a]
  <2>1. x \in Running1 /\ x.at = "claim"
    OBVIOUS
  <2>2. simulation' = [simulation EXCEPT ![m] = x] /\ UNCHANGED simulated
    BY <1>5 DEF StartSimulation
  <2> HIDE DEF x
  <2> QED
    BY <1>4, <2>1, <2>2
<1>6. ASSUME NEW m \in Simulators, ClaimSimulation(m)
      PROVE  Goal
  <2> DEFINE e == simulation[m].effect
  <2>1. simulation[m] \in Running1
    BY <1>1, <1>6 DEF ClaimSimulation, NoSimulation
  <2>2. ~Simulating(e) /\ Simulating(e)'
    BY <1>6, <2>1 DEF ClaimSimulation, Claim, Simulating, StepAssumption,
                      ControlledInv, TypeOK
  <2>3. [simulation[m] EXCEPT !.at = "post"] \in Running1
    BY <2>1
  <2>4. simulation' = [simulation EXCEPT ![m] = [simulation[m] EXCEPT !.at = "post"]]
    BY <1>6 DEF ClaimSimulation
  <2>5. /\ simulation'[m].at = "post" /\ simulation'[m].effect = e
        /\ \A n \in Simulators \ {m} : simulation'[n] = simulation[n]
        /\ simulated' = simulated
    BY <1>1, <1>6, <2>1, <2>4 DEF ClaimSimulation
  <2>6. simulated[e] = 0 /\ \A n \in Simulators :
          simulation[n].at \in {"post", "await"} => simulation[n].effect # e
    BY <1>1, <2>1, <2>2 DEF SimulatorInv
  <2>7. simulation' \in [Simulators -> Running1 \cup {NoSimulation}]
    BY <1>1, <2>3, <2>4
  <2> QED
    BY <1>1, <1>2, <2>2, <2>5, <2>6, <2>7 DEF SimulatorInv, SimulatedAtMostOnce, NoSimulation
<1>7. ASSUME NEW m \in Simulators, PostSimulation(m)
      PROVE  Goal
  <2> DEFINE e == simulation[m].effect
  <2>1. simulation[m] \in Running1 /\ simulation[m].at = "post"
    BY <1>1, <1>7 DEF PostSimulation, NoSimulation
  <2>2. simulated[e] = 0 /\ Simulating(e)
    BY <1>1, <2>1 DEF SimulatorInv
  <2>3. [simulation[m] EXCEPT !.at = "await"] \in Running1
    BY <2>1
  <2>4. simulation' = [simulation EXCEPT ![m] = [simulation[m] EXCEPT !.at = "await"]]
    BY <1>7 DEF PostSimulation
  <2>5. /\ simulation'[m].at = "await" /\ simulation'[m].effect = e
        /\ \A n \in Simulators \ {m} : simulation'[n] = simulation[n]
    BY <1>1, <2>1, <2>4
  <2>6. simulated' = [simulated EXCEPT ![e] = 1]
    BY <1>1, <1>7, <2>1, <2>2 DEF PostSimulation
  <2>7. simulation' \in [Simulators -> Running1 \cup {NoSimulation}]
    BY <1>1, <2>3, <2>4
  <2> QED
    BY <1>1, <1>2, <2>1, <2>2, <2>5, <2>6, <2>7
    DEF SimulatorInv, SimulatedAtMostOnce, NoSimulation
<1>8. ASSUME NEW m \in Simulators, NEW o, EndSimulation(m, o) \/ StopSimulation(m)
      PROVE  Goal
  BY <1>4, <1>8 DEF EndSimulation, StopSimulation, NoSimulation
<1>9. ASSUME NEW d \in Dispatchers, BroadcasterStep(d)
      PROVE  UNCHANGED <<simulation, simulated>>
  BY <1>9 DEF BroadcasterStep, BeginBroadcast, ClaimBroadcast, RefuseBroadcast,
              PostBroadcast, EndBroadcast, AroundPort
<1> QED
  BY <1>3, <1>5, <1>6, <1>7, <1>8, <1>9 DEF Next, SimulatorStep, OthersStep, vars

\* What a step does to the port and to the place of one broadcaster.
PortKeeps(d) == port'[d] = port[d] /\ (pc'[d] = "idle" <=> pc[d] = "idle")

PortEnds(d) == port'[d] = NoPort /\ pc'[d] = "idle"

PortStarts(d) ==
  /\ pc[d] = "idle" /\ pc'[d] # "idle"
  /\ UNCHANGED ledger
  /\ \E receipt, a \in Approvals :
       /\ Receipt(receipt)
       /\ port'[d] = [receipt |-> receipt, approval |-> a, claimed |-> FALSE]

PortClaims(d) ==
  /\ pc[d] # "idle" /\ pc'[d] # "idle"
  /\ ledger[port[d].receipt].effect = call[d].effect
  /\ ledger[port[d].receipt].content = call[d].content
  /\ port'[d] = [port[d] EXCEPT !.claimed = TRUE]
  /\ ledger'[port[d].approval].phase = "BROADCAST"
  /\ ledger'[port[d].approval].effect = call[d].effect
  /\ UNCHANGED pc

LEMMA PortCases ==
  ASSUME StepAssumption, [Next]_vars, NEW d \in Dispatchers
  PROVE  PortKeeps(d) \/ PortEnds(d) \/ PortStarts(d) \/ PortClaims(d)
<1>1. /\ pc \in [Dispatchers -> DispatchFacts!Labels]
      /\ port \in [Dispatchers ->
           [receipt : Approvals, approval : Approvals, claimed : BOOLEAN] \cup {NoPort}]
  BY DEF StepAssumption, ControlledInv, TypeOK, DispatchFacts!DispatchInv, DispatchFacts!TypeOK
<1>2. CASE UNCHANGED <<port, pc>>
  BY <1>2 DEF PortKeeps
<1>3. ASSUME NEW m \in Simulators, SimulatorStep(m)
      PROVE  UNCHANGED <<port, pc>>
  BY <1>3 DEF SimulatorStep, StartSimulation, ClaimSimulation, PostSimulation, EndSimulation,
              StopSimulation, dispatch, Dispatch!PrepareAttempt, Dispatch!volatile
<1>4. CASE OthersStep
  BY <1>2, <1>4 DEF OthersStep, Dispatch!ProviderStep, Dispatch!ProviderDecides,
     Dispatch!ReconcilerWrites, Dispatch!MissionMoves, Dispatch!volatile
<1>5. ASSUME NEW x \in Dispatchers, BroadcasterStep(x)
      PROVE  PortKeeps(d) \/ PortEnds(d) \/ PortStarts(d) \/ PortClaims(d)
  <2>1. ASSUME NEW e \in Effects, NEW c \in Contents, NEW receipt \in Approvals,
               NEW a \in Approvals, BeginBroadcast(x, e, c, receipt, a)
        PROVE  PortKeeps(d) \/ PortStarts(d)
    BY <1>1, <2>1 DEF BeginBroadcast, Dispatch!Begin, Dispatch!Goto, PortKeeps, PortStarts
  <2>2. CASE ClaimBroadcast(x)
    <3>1. /\ pc' = pc /\ pc[x] = "send"
          /\ port' = [port EXCEPT ![x] = [port[x] EXCEPT !.claimed = TRUE]]
          /\ ledger[port[x].receipt].effect = call[x].effect
          /\ ledger[port[x].receipt].content = call[x].content
      BY <2>2 DEF ClaimBroadcast, dispatch
    <3>4. /\ ledger'[port[x].approval].phase = "BROADCAST"
          /\ ledger'[port[x].approval].effect = call[x].effect
      <4>1. port[x].approval \in Approvals
        BY <3>1, Running
      <4> QED
        BY <2>2, <4>1 DEF ClaimBroadcast, Claim, StepAssumption, ControlledInv, TypeOK
    <3>2. CASE d = x
      BY <1>1, <3>1, <3>2, <3>4 DEF PortClaims
    <3>3. CASE d # x
      BY <1>1, <3>1, <3>3 DEF PortKeeps
    <3> QED
      BY <3>2, <3>3
  <2>3. CASE RefuseBroadcast(x)
    BY <1>1, <2>3 DEF RefuseBroadcast, Dispatch!RefuseToSend, Dispatch!Goto, PortKeeps
  <2>4. CASE PostBroadcast(x)
    BY <1>1, <2>4 DEF PostBroadcast, Dispatch!Send, Dispatch!Goto, PortKeeps
  <2>5. CASE EndBroadcast(x)
    BY <1>1, <2>5 DEF EndBroadcast, Dispatch!ReceiveAccepted, Dispatch!ReceiveRejected,
       Dispatch!LoseAnswer, Dispatch!Goto, PortKeeps
  <2>6. CASE AroundPort(x)
    <3>1. /\ pc[x] # "idle"
          /\ \E label : pc' = [pc EXCEPT ![x] = label]
      BY <2>6 DEF AroundPort, Dispatch!CreateAttempt, Dispatch!ClaimAttempt,
         Dispatch!CheckReference, Dispatch!PersistReference, Dispatch!Acknowledge,
         Dispatch!RejectFinal, Dispatch!RecordOutcome, Dispatch!MarkUnknown,
         Dispatch!StoreFails, Dispatch!Crash, Dispatch!Leave, Dispatch!Goto
    <3>2. port' = IF pc'[x] = "idle" THEN [port EXCEPT ![x] = NoPort] ELSE port
      BY <2>6 DEF AroundPort
    <3> QED
      BY <1>1, <3>1, <3>2 DEF PortKeeps, PortEnds
  <2> QED
    BY <1>5, <2>1, <2>2, <2>3, <2>4, <2>5, <2>6 DEF BroadcasterStep
<1> QED
  BY <1>2, <1>3, <1>4, <1>5 DEF Next, vars, dispatch

LEMMA PortStep ==
  ASSUME StepAssumption, [Next]_vars
  PROVE  /\ port' \in [Dispatchers ->
              [receipt : Approvals, approval : Approvals, claimed : BOOLEAN] \cup {NoPort}]
         /\ \A d \in Dispatchers : port'[d] = NoPort <=> pc'[d] = "idle"
         /\ PortInv'
<1> DEFINE Port == [receipt : Approvals, approval : Approvals, claimed : BOOLEAN]
<1>1. /\ port \in [Dispatchers -> Port \cup {NoPort}]
      /\ \A d \in Dispatchers : port[d] = NoPort <=> pc[d] = "idle"
      /\ PortInv
  BY DEF StepAssumption, ControlledInv, TypeOK
<1>2. DOMAIN port' = Dispatchers /\ port' = [d \in Dispatchers |-> port'[d]]
  BY <1>1 DEF Next, SimulatorStep, BroadcasterStep, OthersStep, StartSimulation,
     ClaimSimulation, PostSimulation, EndSimulation, StopSimulation, BeginBroadcast,
     ClaimBroadcast, RefuseBroadcast, PostBroadcast, EndBroadcast, AroundPort, vars
<1>3. None \notin Approvals
  BY ControlledAssumption
<1>4. ASSUME NEW d \in Dispatchers
      PROVE  /\ port'[d] \in Port \cup {NoPort}
             /\ port'[d] = NoPort <=> pc'[d] = "idle"
             /\ pc'[d] # "idle" =>
                  /\ port'[d].receipt \in Approvals
                  /\ Receipt(port[d].receipt)'
                  /\ port'[d].claimed =>
                       /\ ledger'[port'[d].receipt].effect = call'[d].effect
                       /\ ledger'[port'[d].receipt].content = call'[d].content
  <2>1. pc[d] # "idle" =>
          /\ port[d] \in Port /\ port[d] # NoPort
          /\ Receipt(port[d].receipt)
          /\ ledger[port[d].receipt] # Free
    BY <1>1 DEF PortInv, Receipt, Free
  <2>2. pc[d] # "idle" /\ pc'[d] # "idle" =>
          /\ call'[d].effect = call[d].effect
          /\ call'[d].content = call[d].content
    <3>1. CASE DispatchFacts!Next
      BY <3>1, DispatchFacts!CallKeepsPlan, DispatchAssumed
      DEF StepAssumption, DispatchFacts!DispatchInv
    <3>2. CASE UNCHANGED dispatch
      BY <3>2 DEF dispatch
    <3> QED
      BY <3>1, <3>2, DispatchSteps
  <2>3. CASE PortKeeps(d)
    BY <1>1, <2>1, <2>2, <2>3, LedgerStep DEF PortKeeps, PortInv, Grows
  <2>4. CASE PortEnds(d)
    BY <2>4 DEF PortEnds
  <2>5. CASE PortStarts(d)
    BY <1>3, <2>5 DEF PortStarts, NoPort, Receipt
  <2>6. CASE PortClaims(d)
    <3>1. /\ port'[d] \in Port /\ port'[d].receipt = port[d].receipt
      BY <2>1, <2>6 DEF PortClaims
    <3> QED
      BY <1>3, <2>1, <2>2, <2>6, <3>1, LedgerStep DEF PortClaims, Grows, NoPort
  <2> QED
    BY <2>3, <2>4, <2>5, <2>6, PortCases
<1>5. port' \in [Dispatchers -> Port \cup {NoPort}]
  BY <1>2, <1>4
<1>6. PortInv'
  BY <1>4 DEF PortInv
<1> QED
  BY <1>4, <1>5, <1>6

LEMMA BroadcastStep ==
  ASSUME StepAssumption, [Next]_vars
  PROVE  BroadcastWasSimulated'
<1> SUFFICES ASSUME NEW e \in Effects, posts'[e] > 0
             PROVE  \E a \in Approvals :
                      /\ Receipt(a)'
                      /\ ledger'[a].effect = e
                      /\ ledger'[a].content = attempts'[e].content
  BY DEF BroadcastWasSimulated
<1>1. CASE posts[e] > 0
  <2>1. PICK a \in Approvals : /\ Receipt(a)
                               /\ ledger[a].effect = e
                               /\ ledger[a].content = attempts[e].content
    BY <1>1 DEF StepAssumption, ControlledInv, BroadcastWasSimulated
  <2>2. ledger[a] # Free
    BY <2>1 DEF Receipt, Free
  <2>3. attempts[e].state # "ABSENT"
    BY <1>1 DEF StepAssumption, DispatchFacts!DispatchInv, DispatchFacts!SafetyInv,
                DispatchFacts!NeverSentUnclaimed
  <2>4. attempts'[e].content = attempts[e].content
    <3>1. CASE DispatchFacts!Next
      BY <2>3, <3>1, DispatchFacts!PlanIsKept, DispatchAssumed
      DEF StepAssumption, DispatchFacts!DispatchInv
    <3>2. CASE UNCHANGED dispatch
      BY <3>2 DEF dispatch
    <3> QED
      BY <3>1, <3>2, DispatchSteps
  <2> QED
    BY <2>1, <2>2, <2>4, LedgerStep DEF Grows
<1>2. CASE ~(posts[e] > 0)
  <2>1. PICK d \in Dispatchers : PostBroadcast(d)
    BY <1>2 DEF Next, SimulatorStep, BroadcasterStep, OthersStep, StartSimulation,
     ClaimSimulation, PostSimulation, EndSimulation, StopSimulation, BeginBroadcast,
     ClaimBroadcast, RefuseBroadcast, EndBroadcast, AroundPort, vars, dispatch,
     Dispatch!PrepareAttempt, Dispatch!ProviderStep, Dispatch!ProviderDecides,
     Dispatch!ReconcilerWrites, Dispatch!MissionMoves, Dispatch!Begin,
     Dispatch!CreateAttempt, Dispatch!ClaimAttempt, Dispatch!CheckReference,
     Dispatch!RefuseToSend, Dispatch!ReceiveAccepted, Dispatch!ReceiveRejected,
     Dispatch!LoseAnswer, Dispatch!PersistReference, Dispatch!Acknowledge,
     Dispatch!RejectFinal, Dispatch!RecordOutcome, Dispatch!MarkUnknown,
     Dispatch!StoreFails, Dispatch!Crash, Dispatch!wire
  <2>2. /\ posts' = [posts EXCEPT ![call[d].effect] = @ + 1]
        /\ pc[d] = "send" /\ port[d].claimed
        /\ UNCHANGED <<ledger, attempts>>
    BY <2>1 DEF PostBroadcast, Dispatch!Send, Dispatch!durable
  <2>3. call[d].effect = e
    BY <1>2, <2>2 DEF StepAssumption, DispatchFacts!DispatchInv, DispatchFacts!TypeOK
  <2>4. attempts[e].content = call[d].content
    BY <2>2, <2>3 DEF StepAssumption, DispatchFacts!DispatchInv, DispatchFacts!SafetyInv,
      DispatchFacts!SentAsJournaled, DispatchFacts!Owning
  <2> QED
    BY <2>2, <2>3, <2>4 DEF StepAssumption, ControlledInv, PortInv, Receipt
<1> QED
  BY <1>1, <1>2

\* The inductive invariant of the controlled port.
THEOREM ControlledSafety == Spec => []ControlledInv
<1>1. Init => ControlledInv
  BY ControlledAssumption
  DEF Init, ControlledInv, TypeOK, Dispatch!Init, Free, NoSimulation, NoPort, SimulatorInv,
      PortInv, SimulatedAtMostOnce, BroadcastWasSimulated
<1>2. StepAssumption /\ [Next]_vars => ControlledInv'
  BY LedgerStep, SimulationStep, PortStep, BroadcastStep DEF ControlledInv, TypeOK, LedgerOK
<1> QED
  BY <1>1, <1>2, DispatchHolds, PTL DEF Spec, StepAssumption

\* No effect is simulated twice, whoever asks and wherever they die.
THEOREM OneSimulation == Spec => []SimulatedAtMostOnce
  BY ControlledSafety, PTL DEF ControlledInv

\* Nothing is broadcast that was not simulated as it is, and found eligible.
THEOREM NoBroadcastUnsimulated == Spec => []BroadcastWasSimulated
  BY ControlledSafety, PTL DEF ControlledInv
-----------------------------------------------------------------------------
(***************************************************************************)
(* Approvals: a claim is made before anything is sent under it, and only   *)
(* its owner finalizes it, with what the provider did.                     *)
(***************************************************************************)
ApprovalAssumption == StepAssumption /\ ControlledInv' /\ ApprovalInv

\* What the provider has decided stays decided: only a first request makes it
\* pending again, and there is none after a decision.
LEMMA DecisionsStay ==
  ASSUME StepAssumption, [Next]_vars, NEW e \in Effects
  PROVE  provider[e] \in {"accepted", "rejected"} => provider'[e] = provider[e]
<1> SUFFICES ASSUME provider[e] \in {"accepted", "rejected"}
             PROVE  provider'[e] = provider[e]
  OBVIOUS
<1>1. CASE UNCHANGED provider
  BY <1>1
<1>2. ASSUME NEW d \in Dispatchers, PostBroadcast(d)
      PROVE  provider'[e] = provider[e]
  <2>1. pc[d] = "send" /\ provider' = [provider EXCEPT ![call[d].effect] = "pending"]
    BY <1>2 DEF PostBroadcast, Dispatch!Send
  <2>2. call[d].effect \in Effects /\ posts[call[d].effect] = 0
    BY <2>1 DEF StepAssumption, DispatchFacts!DispatchInv, DispatchFacts!TypeOK,
                DispatchFacts!SafetyInv, DispatchFacts!CallInv, DispatchFacts!Knows
  <2>3. provider[call[d].effect] = "idle"
    BY <2>2 DEF StepAssumption, DispatchFacts!DispatchInv, DispatchFacts!SafetyInv,
                DispatchFacts!WireInv
  <2> QED
    BY <2>1, <2>3 DEF StepAssumption, DispatchFacts!DispatchInv, DispatchFacts!TypeOK
<1>3. ASSUME NEW f \in Effects, NEW verdict, Dispatch!ProviderDecides(f, verdict)
      PROVE  provider'[e] = provider[e]
  BY <1>3 DEF Dispatch!ProviderDecides, StepAssumption, DispatchFacts!DispatchInv,
              DispatchFacts!TypeOK
<1>4. ASSUME NEW m \in Simulators, SimulatorStep(m)
      PROVE  UNCHANGED provider
  BY <1>4 DEF SimulatorStep, StartSimulation, ClaimSimulation, PostSimulation, EndSimulation,
              StopSimulation, dispatch, Dispatch!PrepareAttempt, Dispatch!wire
<1>5. ASSUME NEW d \in Dispatchers, BroadcasterStep(d)
      PROVE  PostBroadcast(d) \/ UNCHANGED provider
  BY <1>5 DEF BroadcasterStep, BeginBroadcast, ClaimBroadcast, RefuseBroadcast, EndBroadcast,
     AroundPort, dispatch, Dispatch!Begin, Dispatch!CreateAttempt, Dispatch!ClaimAttempt,
     Dispatch!CheckReference, Dispatch!RefuseToSend, Dispatch!ReceiveAccepted,
     Dispatch!ReceiveRejected, Dispatch!LoseAnswer, Dispatch!PersistReference,
     Dispatch!Acknowledge, Dispatch!RejectFinal, Dispatch!RecordOutcome, Dispatch!MarkUnknown,
     Dispatch!StoreFails, Dispatch!Crash, Dispatch!wire
<1>6. CASE OthersStep
  BY <1>1, <1>3, <1>6 DEF OthersStep, Dispatch!ProviderStep, Dispatch!ReconcilerWrites,
     Dispatch!MissionMoves, Dispatch!wire
<1> QED
  BY <1>1, <1>2, <1>4, <1>5, <1>6 DEF Next, vars, dispatch

\* What a step writes to the ledger: a new claim, the end of a simulation, or
\* the end of a broadcast, which says what the provider did.
EndsTruly(d, a) ==
  /\ pc[d] = "await" /\ a = port[d].approval
  /\ ledger'[a].state = "ACCEPTED" => provider[call[d].effect] = "accepted"
  /\ ledger'[a].state = "REJECTED_FINAL" => provider[call[d].effect] = "rejected"

LEMMA LedgerMoves ==
  ASSUME ApprovalAssumption, [Next]_vars, NEW a \in Approvals
  PROVE  \/ ledger'[a] = ledger[a]
         \/ ledger'[a].state = "CLAIMED"
         \/ ledger'[a].phase = "SIMULATION"
         \/ \E d \in Dispatchers : EndsTruly(d, a)
<1> DEFINE Goal == \/ ledger'[a] = ledger[a]
                   \/ ledger'[a].state = "CLAIMED"
                   \/ ledger'[a].phase = "SIMULATION"
                   \/ \E d \in Dispatchers : EndsTruly(d, a)
<1>1. StepAssumption /\ ledger \in [Approvals -> Authorization \cup {Free}]
  BY DEF ApprovalAssumption, StepAssumption, ControlledInv, TypeOK
<1>2. CASE UNCHANGED ledger
  BY <1>2
<1>3. ASSUME NEW b \in Approvals, NEW p, NEW e, NEW c, Claim(b, p, e, c)
      PROVE  Goal
  BY <1>1, <1>3 DEF Claim
<1>4. ASSUME NEW b \in Approvals, NEW outcome, Finalize(b, outcome)
      PROVE  /\ a # b => ledger'[a] = ledger[a]
             /\ ledger'[b] = ledger[b] \/ ledger'[b].state = outcome
  <2>1. CASE UNCHANGED ledger
    BY <2>1
  <2>2. CASE ledger[b].state = "CLAIMED" /\ ledger' = [ledger EXCEPT ![b].state = outcome]
    <3>1. ledger[b] \in Authorization
      BY <1>1, <2>2 DEF Free
    <3>2. PICK p \in {"SIMULATION", "BROADCAST"} :
            ledger[b] \in [phase : {p}, effect : Effects, content : Contents,
                           state : {"CLAIMED"} \cup Outcomes[p]]
      BY <3>1, Authorizations
    <3>3. [ledger[b] EXCEPT !.state = outcome].state = outcome
      BY <3>2
    <3> QED
      BY <1>1, <2>2, <3>3
  <2> QED
    BY <1>4, <2>1, <2>2 DEF Finalize
<1>5. ASSUME NEW m \in Simulators, SimulatorStep(m)
      PROVE  Goal
  <2>1. CASE ClaimSimulation(m)
    BY <1>1, <1>3, <2>1, Running DEF ClaimSimulation
  <2>2. ASSUME NEW o, EndSimulation(m, o)
        PROVE  Goal
    <3>1. /\ simulation[m].at = "await" /\ simulation[m].approval \in Approvals
          /\ simulation[m].effect \in Effects
      BY <1>1, <2>2, Running DEF EndSimulation
    <3>2. /\ ledger[simulation[m].approval].phase = "SIMULATION"
          /\ ledger[simulation[m].approval].effect \in Effects
      BY <3>1 DEF ApprovalAssumption, ApprovalInv
    <3>3. ledger'[simulation[m].approval].phase = "SIMULATION"
      BY <1>1, <3>1, <3>2, LedgerStep, ControlledAssumption DEF Grows, Free
    <3> QED
      BY <1>4, <2>2, <3>1, <3>3 DEF EndSimulation
  <2> QED
    BY <1>2, <1>5, <2>1, <2>2
    DEF SimulatorStep, StartSimulation, PostSimulation, StopSimulation
<1>6. ASSUME NEW d \in Dispatchers, BroadcasterStep(d)
      PROVE  Goal
  <2>1. CASE ClaimBroadcast(d)
    BY <1>1, <1>3, <2>1, Running DEF ClaimBroadcast
  <2>2. CASE EndBroadcast(d)
    <3>1. pc[d] = "await" /\ port[d].approval \in Approvals
      BY <1>1, <2>2, Running DEF EndBroadcast, Dispatch!ReceiveAccepted,
         Dispatch!ReceiveRejected, Dispatch!LoseAnswer
    <3>2. \/ /\ provider[call[d].effect] = "accepted"
             /\ Finalize(port[d].approval, "ACCEPTED")
          \/ /\ provider[call[d].effect] = "rejected"
             /\ Finalize(port[d].approval, "REJECTED_FINAL")
          \/ Finalize(port[d].approval, "OUTCOME_UNKNOWN")
      BY <2>2 DEF EndBroadcast, Dispatch!ReceiveAccepted, Dispatch!ReceiveRejected
    <3> QED
      BY <1>4, <3>1, <3>2 DEF EndsTruly
  <2> QED
    BY <1>2, <1>6, <2>1, <2>2
    DEF BroadcasterStep, BeginBroadcast, RefuseBroadcast, PostBroadcast, AroundPort
<1> QED
  BY <1>2, <1>5, <1>6 DEF Next, OthersStep, vars

\* A POST is awaited only by whoever put it on the wire.
LEMMA AwaitedWasPosted ==
  ASSUME ApprovalAssumption, [Next]_vars, NEW d \in Dispatchers, pc'[d] = "await"
  PROVE  pc[d] = "await" \/ (PostBroadcast(d) /\ port'[d] = port[d])
<1>1. pc \in [Dispatchers -> DispatchFacts!Labels]
  BY DEF ApprovalAssumption, StepAssumption, DispatchFacts!DispatchInv, DispatchFacts!TypeOK
<1>2. CASE UNCHANGED pc
  BY <1>2
<1>3. ASSUME NEW m \in Simulators, SimulatorStep(m)
      PROVE  UNCHANGED pc
  BY <1>3 DEF SimulatorStep, StartSimulation, ClaimSimulation, PostSimulation, EndSimulation,
              StopSimulation, dispatch, Dispatch!PrepareAttempt, Dispatch!volatile
<1>4. CASE OthersStep
  BY <1>2, <1>4 DEF OthersStep, Dispatch!ProviderStep, Dispatch!ProviderDecides,
     Dispatch!ReconcilerWrites, Dispatch!MissionMoves, Dispatch!volatile
<1>5. ASSUME NEW x \in Dispatchers, BroadcasterStep(x)
      PROVE  pc[d] = "await" \/ (PostBroadcast(d) /\ port'[d] = port[d])
  <2>1. CASE PostBroadcast(x)
    BY <1>1, <2>1 DEF PostBroadcast, Dispatch!Send, Dispatch!Goto
  <2>2. PostBroadcast(x) \/ UNCHANGED pc
          \/ \E label : label # "await" /\ pc' = [pc EXCEPT ![x] = label]
    BY <1>5 DEF BroadcasterStep, BeginBroadcast, ClaimBroadcast, RefuseBroadcast, EndBroadcast,
       AroundPort, dispatch, Dispatch!Begin, Dispatch!CreateAttempt, Dispatch!ClaimAttempt,
       Dispatch!CheckReference, Dispatch!RefuseToSend, Dispatch!ReceiveAccepted,
       Dispatch!ReceiveRejected, Dispatch!LoseAnswer, Dispatch!PersistReference,
       Dispatch!Acknowledge, Dispatch!RejectFinal, Dispatch!RecordOutcome,
       Dispatch!MarkUnknown, Dispatch!StoreFails, Dispatch!Crash, Dispatch!Leave, Dispatch!Goto
  <2> QED
    BY <1>1, <2>1, <2>2
<1> QED
  BY <1>2, <1>3, <1>4, <1>5 DEF Next, vars, dispatch

\* Only the POST of a broadcaster counts a payment, and it holds a claim.
LEMMA PostsAreClaimed ==
  ASSUME ApprovalAssumption, [Next]_vars, NEW e \in Effects, posts'[e] > 0
  PROVE  posts[e] > 0 \/ Broadcasting(e)
<1> SUFFICES ASSUME ~(posts[e] > 0) PROVE Broadcasting(e)
  OBVIOUS
<1>1. PICK d \in Dispatchers : PostBroadcast(d)
  BY DEF Next, SimulatorStep, BroadcasterStep, OthersStep, StartSimulation,
     ClaimSimulation, PostSimulation, EndSimulation, StopSimulation, BeginBroadcast,
     ClaimBroadcast, RefuseBroadcast, EndBroadcast, AroundPort, vars, dispatch,
     Dispatch!PrepareAttempt, Dispatch!ProviderStep, Dispatch!ProviderDecides,
     Dispatch!ReconcilerWrites, Dispatch!MissionMoves, Dispatch!Begin,
     Dispatch!CreateAttempt, Dispatch!ClaimAttempt, Dispatch!CheckReference,
     Dispatch!RefuseToSend, Dispatch!ReceiveAccepted, Dispatch!ReceiveRejected,
     Dispatch!LoseAnswer, Dispatch!PersistReference, Dispatch!Acknowledge,
     Dispatch!RejectFinal, Dispatch!RecordOutcome, Dispatch!MarkUnknown,
     Dispatch!StoreFails, Dispatch!Crash, Dispatch!wire
<1>2. /\ posts' = [posts EXCEPT ![call[d].effect] = @ + 1]
      /\ pc[d] = "send" /\ port[d].claimed
  BY <1>1 DEF PostBroadcast, Dispatch!Send
<1>3. call[d].effect = e
  BY <1>2 DEF ApprovalAssumption, StepAssumption, DispatchFacts!DispatchInv,
              DispatchFacts!TypeOK
<1>4. StepAssumption /\ ApprovalInv
  BY DEF ApprovalAssumption
<1> QED
  BY <1>2, <1>3, <1>4, Running DEF ApprovalInv, Broadcasting

LEMMA ApprovalStep ==
  ASSUME ApprovalAssumption, [Next]_vars
  PROVE  ApprovalInv'
<1>1. StepAssumption /\ ApprovalInv /\ Grows /\ None \notin Effects
  BY LedgerStep, ControlledAssumption DEF ApprovalAssumption
<1>2. ASSUME NEW m \in Simulators, simulation'[m].at \in {"post", "await"}
      PROVE  /\ ledger'[simulation'[m].approval].phase = "SIMULATION"
             /\ ledger'[simulation'[m].approval].effect = simulation'[m].effect
  <2>1. CASE ClaimSimulation(m)
    <3>1. simulation[m].approval \in Approvals
      BY <1>1, <2>1, Running DEF ClaimSimulation
    <3>2. /\ simulation'[m].approval = simulation[m].approval
          /\ simulation'[m].effect = simulation[m].effect
      BY <1>1, <2>1 DEF ClaimSimulation, StepAssumption, ControlledInv, TypeOK
    <3> QED
      BY <1>1, <2>1, <3>1, <3>2
      DEF ClaimSimulation, Claim, StepAssumption, ControlledInv, TypeOK
  <2>2. CASE ~ClaimSimulation(m)
    <3>1. /\ simulation[m].at \in {"post", "await"}
          /\ simulation'[m].approval = simulation[m].approval
          /\ simulation'[m].effect = simulation[m].effect
      <4>1. simulation \in [Simulators ->
              [at : {"claim", "post", "await"}, effect : Effects, content : Contents,
               approval : Approvals] \cup {NoSimulation}]
        BY <1>1 DEF StepAssumption, ControlledInv, TypeOK
      <4>2. CASE UNCHANGED simulation
        BY <1>2, <4>2
      <4>3. ASSUME NEW n \in Simulators, SimulatorStep(n)
            PROVE  n # m => simulation'[m] = simulation[m]
        BY <4>1, <4>3 DEF SimulatorStep, StartSimulation, ClaimSimulation, PostSimulation,
                          EndSimulation, StopSimulation
      <4>4. CASE PostSimulation(m)
        BY <4>1, <4>4 DEF PostSimulation
      <4>5. SimulatorStep(m) => PostSimulation(m)
        BY <1>2, <2>2, <4>1 DEF SimulatorStep, StartSimulation, EndSimulation,
           StopSimulation, NoSimulation
      <4> QED
        BY <1>2, <4>2, <4>3, <4>4, <4>5 DEF Next, vars, BroadcasterStep, OthersStep,
           BeginBroadcast, ClaimBroadcast, RefuseBroadcast, PostBroadcast, EndBroadcast,
           AroundPort
    <3>2. simulation[m].approval \in Approvals /\ simulation[m].effect \in Effects
      BY <1>1, <3>1, Running
    <3> QED
      BY <1>1, <3>1, <3>2 DEF ApprovalInv, Grows, Free
  <2> QED
    BY <2>1, <2>2
<1>3. ASSUME NEW d \in Dispatchers
      PROVE  /\ pc'[d] = "await" => port'[d].claimed
             /\ pc'[d] # "idle" /\ port'[d].claimed =>
                  /\ ledger'[port'[d].approval].phase = "BROADCAST"
                  /\ ledger'[port'[d].approval].effect = call'[d].effect
  <2>1. /\ pc[d] # "idle" =>
             /\ port[d] \in [receipt : Approvals, approval : Approvals, claimed : BOOLEAN]
             /\ call[d].effect \in Effects
        /\ pc[d] # "idle" /\ pc'[d] # "idle" => call'[d].effect = call[d].effect
    <3>1. CASE DispatchFacts!Next
      BY <1>1, <3>1, DispatchFacts!CallKeepsPlan, DispatchAssumed, Running
      DEF StepAssumption, DispatchFacts!DispatchInv, ControlledInv, TypeOK
    <3>2. CASE UNCHANGED dispatch
      BY <1>1, <3>2, Running DEF dispatch, StepAssumption, ControlledInv, TypeOK
    <3> QED
      BY <3>1, <3>2, DispatchSteps
  <2>2. CASE PortKeeps(d)
    <3>1. pc'[d] = "await" => port'[d].claimed
      BY <1>1, <2>2, AwaitedWasPosted DEF PortKeeps, ApprovalInv, PostBroadcast
    <3> QED
      BY <1>1, <2>1, <2>2, <3>1 DEF PortKeeps, ApprovalInv, Grows, Free
  <2>3. CASE PortEnds(d)
    BY <2>3 DEF PortEnds
  <2>4. CASE PortStarts(d)
    BY <1>1, <2>4, AwaitedWasPosted DEF PortStarts, PostBroadcast, Dispatch!Send
  <2>5. CASE PortClaims(d)
    BY <1>1, <2>1, <2>5 DEF PortClaims
  <2> QED
    BY <1>1, <2>2, <2>3, <2>4, <2>5, PortCases
<1>4. ASSUME NEW e \in Effects, posts'[e] > 0
      PROVE  Broadcasting(e)'
  BY <1>1, <1>4, PostsAreClaimed DEF ApprovalInv, Broadcasting, Grows, Free
<1>5. ASSUME NEW a \in Approvals, ledger'[a].phase = "BROADCAST"
      PROVE  /\ ledger'[a].state = "ACCEPTED" => provider'[ledger'[a].effect] = "accepted"
             /\ ledger'[a].state = "REJECTED_FINAL" =>
                  provider'[ledger'[a].effect] = "rejected"
  <2>1. CASE ledger'[a] = ledger[a]
    <3>1. ledger[a].state \in {"ACCEPTED", "REJECTED_FINAL"} => ledger[a].effect \in Effects
      <4>1. SUFFICES ASSUME ledger[a].state \in {"ACCEPTED", "REJECTED_FINAL"}
                     PROVE  ledger[a].effect \in Effects
        OBVIOUS
      <4>2. ledger[a] \in Authorization
        BY <1>1, <4>1 DEF StepAssumption, ControlledInv, TypeOK, Free
      <4> QED
        BY <4>2, Authorizations
    <3> QED
      BY <1>1, <1>5, <2>1, <3>1, DecisionsStay DEF ApprovalInv, LedgerTellsTheTruth
  <2>2. CASE ledger'[a].state = "CLAIMED"
    BY <2>2
  <2>3. CASE \E d \in Dispatchers : EndsTruly(d, a)
    <3>1. PICK d \in Dispatchers : EndsTruly(d, a)
      BY <2>3
    <3>2. call[d].effect \in Effects /\ ledger[a].effect = call[d].effect
      BY <1>1, <3>1, Running DEF EndsTruly, ApprovalInv
    <3>3. ledger'[a].effect = call[d].effect
      BY <1>1, <3>2 DEF Grows, Free
    <3> QED
      BY <1>1, <3>1, <3>2, <3>3, DecisionsStay DEF EndsTruly
  <2> QED
    BY <1>5, <2>1, <2>2, <2>3, LedgerMoves
<1> QED
  BY <1>2, <1>3, <1>4, <1>5 DEF ApprovalInv, LedgerTellsTheTruth

\* Whoever sends or finalizes holds a claim of its own, for any number of
\* processes and approvals.
THEOREM ApprovalSafety == Spec => []ApprovalInv
<1>1. Init => ApprovalInv
  BY ControlledAssumption
  DEF Init, ApprovalInv, Dispatch!Init, Free, NoSimulation, NoPort, LedgerTellsTheTruth
<1>2. ControlledInv /\ ControlledInv' /\ DispatchFacts!DispatchInv
        /\ DispatchFacts!DispatchInv' /\ ApprovalInv /\ [Next]_vars => ApprovalInv'
  BY ApprovalStep DEF ApprovalAssumption, StepAssumption
<1> QED
  BY <1>1, <1>2, ControlledSafety, DispatchHolds, PTL DEF Spec

\* The ledger says of a broadcast what the provider did.
THEOREM LedgerIsTrue == Spec => []LedgerTellsTheTruth
  BY ApprovalSafety, PTL DEF ApprovalInv

\* Every POST of either phase has an approval of its own in the ledger.
THEOREM PostsAreApproved == Spec => []EveryPostIsApproved
<1>1. ASSUME ControlledInv, ApprovalInv, DispatchFacts!DispatchInv
      PROVE  EveryPostIsApproved
  <2> SUFFICES ASSUME NEW e \in Effects
               PROVE  /\ posts[e] <= Cardinality({a \in Approvals :
                            ledger[a].phase = "BROADCAST" /\ ledger[a].effect = e})
                      /\ simulated[e] <= Cardinality({a \in Approvals :
                            ledger[a].phase = "SIMULATION" /\ ledger[a].effect = e})
    BY DEF EveryPostIsApproved
  <2> DEFINE B == {a \in Approvals : ledger[a].phase = "BROADCAST" /\ ledger[a].effect = e}
             S == {a \in Approvals : ledger[a].phase = "SIMULATION" /\ ledger[a].effect = e}
  <2>1. IsFiniteSet(B) /\ IsFiniteSet(S)
    BY ControlledAssumption, FS_Subset
  <2>2. Cardinality(B) \in Nat /\ (B # {} => Cardinality(B) # 0)
    BY <2>1, FS_CardinalityType, FS_EmptySet
  <2>3. Cardinality(S) \in Nat /\ (S # {} => Cardinality(S) # 0)
    BY <2>1, FS_CardinalityType, FS_EmptySet
  <2>4. /\ posts[e] \in Nat /\ posts[e] <= 1 /\ (posts[e] > 0 => B # {})
        /\ simulated[e] \in Nat /\ simulated[e] <= 1 /\ (simulated[e] > 0 => S # {})
    BY <1>1 DEF ControlledInv, ApprovalInv, DispatchFacts!DispatchInv, DispatchFacts!TypeOK,
       DispatchFacts!SafetyInv, DispatchFacts!PaidAtMostOnce, TypeOK, SimulatorInv,
       SimulatedAtMostOnce, Simulating, Broadcasting
  <2> HIDE DEF B, S
  <2>5. posts[e] <= Cardinality(B) /\ simulated[e] <= Cardinality(S)
    BY <2>2, <2>3, <2>4
  <2> QED
    BY <2>5 DEF B, S
<1> QED
  BY <1>1, ControlledSafety, ApprovalSafety, DispatchHolds, PTL

\* The controlled port's own state has the shape TypeOK gives it.
THEOREM ControlledTypeCorrect == Spec => []TypeOK
  BY ControlledSafety, PTL DEF ControlledInv
=============================================================================
