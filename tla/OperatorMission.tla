--------------------------- MODULE OperatorMission ---------------------------
(***************************************************************************)
(* The operator's tools: commands over one run directory that prepare a    *)
(* mission, simulate and broadcast its payments one approval at a time,    *)
(* bind each to the transaction the provider names, and verify it.         *)
(*                                                                         *)
(*   "video"     tools/anna_mark_video_mission.py (and, with a sequence of *)
(*               three, tools/anna_mark_leo_video_mission.py): several     *)
(*               payments, each after the one before is confirmed          *)
(*   "rehearsal" tools/keeperhub_rehearsal_execution.py, tools/capture_    *)
(*               keeperhub_provider_transaction_binding.py and tools/      *)
(*               reconcile_keeperhub_rehearsal_chain.py: one payment       *)
(*   "one_shot"  tools/keeperhub_one_shot_simulation.py, "canary" tools/   *)
(*               keeperhub_runtime_evidence_canary.py: one simulation      *)
(*                                                                         *)
(* It puts MissionRuntime and ControlledExecution together: dispatch() is  *)
(* called with the controlled port, and reconcile() only with a verifier   *)
(* of the bound transaction.  Commands run in as many terminals as there   *)
(* are simulators, dispatchers and reconcilers, and may be killed anywhere.*)
(* A mission that is not in the store yet is one in PERSISTED: every       *)
(* command refuses it either way.                                          *)
(***************************************************************************)
EXTENDS MissionRuntime, Sequences, ChainObservation, TransferAmounts

CONSTANTS
  Simulators,  \* terminals that may run the simulate command
  Tools,       \* the tools, of the four above, whose runs are explored
  Order,       \* the sequence of the video mission
  Decimals,    \* the decimals of the token
  Extras       \* per effect: what else the transaction that pays it transfers

Content == CHOOSE c \in Contents : TRUE  \* the plan on the action sheet
Approvals == {"sim", "brd"} \X Effects

ASSUME OperatorAssumption ==
  /\ Contents = {Content}
  /\ None \notin Approvals
  /\ Tools \subseteq {"video", "rehearsal", "one_shot", "canary"}
  /\ Order \in Seq(Effects) /\ Order # <<>>
  /\ Effects = {Order[i] : i \in 1..Len(Order)}
  /\ \A i, j \in 1..Len(Order) : Order[i] = Order[j] => i = j
  /\ Decimals \in Nat
  /\ \A e \in Effects :
       /\ Terms[e].amount \in Nat \ {0}
       /\ Terms[e] = [token |-> Terms[e].token, recipient |-> Terms[e].recipient,
                      amount |-> Terms[e].amount]
       /\ Extras[e] \in Seq([transfer : Outside, sound : BOOLEAN])

VARIABLES
  tool,      \* whose run directory this is
  sheet,     \* private_action_sheet.json: "none", "torn" or "complete"
  preparing, \* whether a prepare command that cannot be repeated is under way
  passed,    \* the effect each terminal's command has passed the gate for
  binding,   \* the transaction binding file of each effect
  overtaken, \* whether a mission was reconciled over a broadcast under way
  ledger, simulation, simulated, port  \* as in ControlledExecution

control == <<ledger, simulation, simulated, port>>
files   == <<tool, sheet, binding>>
desk    == <<files, preparing, passed, overtaken>>
opVars  == <<vars, control, desk>>

Controlled == INSTANCE ControlledExecution WITH dispatchable <- Dispatchable

MissionEffects == IF tool = "video" THEN Effects ELSE {Order[1]}

OpInit ==
  /\ tool \in Tools
  /\ mission = [state |-> "PERSISTED", effects |-> [e \in MissionEffects |-> "PLANNED"]]
  /\ Controlled!Init
  /\ fresh = {}
  /\ acknowledged = {}
  /\ job = [r \in Reconcilers |-> NoJob]
  /\ chain = [e \in Effects |-> "none"]
  /\ sheet = "none"
  /\ preparing = FALSE
  /\ passed = [t \in Simulators \cup Dispatchers |-> None]
  /\ binding = [e \in Effects |-> "none"]
  /\ overtaken = FALSE
-----------------------------------------------------------------------------
(***************************************************************************)
(* prepare.  A file is created with O_EXCL and written afterwards: a       *)
(* process that dies in between leaves a torn file that nobody may replace *)
(* and nobody can read.                                                    *)
(***************************************************************************)
\* The action sheet can be read, and is the one the tool writes for its run.
VideoSheet     == tool = "video" /\ sheet = "complete"
RehearsalSheet == tool = "rehearsal" /\ sheet = "complete"
OneShotSheet   == tool = "one_shot" /\ sheet = "complete"
CanarySheet    == tool = "canary" /\ sheet = "complete"

ExclusiveWrite(file, new) == file = "none" /\ new \in {"torn", "complete"}

\* prepare_video_mission: it may be run again over a readable sheet as long as
\* the mission is not ready, so that one is always ready to admit it.
PrepareVideo ==
  /\ tool = "video"
  /\ ExclusiveWrite(sheet, sheet')
  /\ UNCHANGED preparing

\* prepare_action_sheet of the rehearsal: once, whatever became of it.
PrepareRehearsal ==
  /\ tool = "rehearsal"
  /\ ExclusiveWrite(sheet, sheet')
  /\ preparing' = (sheet' = "complete")

\* prepare_action_sheet of the one-shot simulation: no mission at all.
PrepareOneShot ==
  /\ tool = "one_shot"
  /\ ExclusiveWrite(sheet, sheet')
  /\ UNCHANGED preparing

\* The canary admits its mission before it looks for the sheet, and again when
\* it validates the sheet to execute it.
AdmitCanary ==
  /\ tool = "canary"
  /\ preparing' = TRUE
  /\ UNCHANGED sheet

MissingCanary(e) ==
  /\ mission.state = "READY_FOR_EXECUTION"
  /\ mission.effects[e] = "PLANNED"
  /\ attempts[e].state \in {"ABSENT", "PREPARED"}

PrepareCanary ==
  /\ tool = "canary"
  /\ preparing
  /\ MissingCanary(Order[1])
  /\ ExclusiveWrite(sheet, sheet')
  /\ preparing' = FALSE

\* The command ends, or is killed.
EndPrepare ==
  /\ preparing
  /\ preparing' = FALSE
  /\ UNCHANGED sheet

PrepareStep ==
  /\ PrepareVideo \/ PrepareRehearsal \/ PrepareOneShot \/ AdmitCanary
     \/ PrepareCanary \/ EndPrepare
  /\ UNCHANGED <<vars, control, tool, binding, passed, overtaken>>

\* Mutation: only a mission without a payment yet is made ready.
PreparableAtFirst ==
  \A e \in MissionEffects : mission.effects[e] = "PLANNED"

Preparable ==
  \A e \in MissionEffects : mission.effects[e] \in {"PLANNED", "CHAIN_CONFIRMED"}

\* _admit_ready_mission of the video mission, of the rehearsal, and
\* admit_and_prepare_mission of the canary.
AdmitVideo ==
  /\ VideoSheet
  /\ PrepareReconciling \/ (Preparable /\ PrepareReady)
  /\ UNCHANGED preparing

AdmitRehearsal ==
  /\ tool = "rehearsal" /\ preparing
  /\ PrepareReconciling \/ PrepareReady
  /\ preparing' = (mission'.state = "RECONCILING")

AdmitAndPrepare ==
  /\ tool = "canary" /\ preparing
  /\ PrepareReconciling \/ PrepareReady
  /\ UNCHANGED preparing

AdmitStep ==
  /\ AdmitVideo \/ AdmitRehearsal \/ AdmitAndPrepare
  /\ UNCHANGED <<control, files, passed, overtaken>>
-----------------------------------------------------------------------------
(***************************************************************************)
(* The gate of the two-payment mission, passed on one read of the mission. *)
(***************************************************************************)
Before(e) == {f \in Effects : \E i, j \in 1..Len(Order) : i < j /\ f = Order[i] /\ e = Order[j]}

\* Mutation: the sequence not enforced.
GateAnyPlanned(e) ==
  /\ mission.state = "READY_FOR_EXECUTION"
  /\ mission.effects[e] = "PLANNED"

Gate(e) ==
  /\ mission.state = "READY_FOR_EXECUTION"
  /\ mission.effects[e] = "PLANNED"
  /\ \A f \in Before(e) : mission.effects[f] = "CHAIN_CONFIRMED"

\* execute_simulation, execute, execute_action_sheet up to simulate().
MaySimulateVideo(e)     == VideoSheet /\ Gate(e) /\ ~Controlled!Receipt(<<"sim", e>>)
MaySimulateRehearsal(e) == RehearsalSheet /\ e = Order[1]
MaySimulateOneShot(e)   == OneShotSheet /\ e = Order[1]
MaySimulateCanary(e)    == CanarySheet /\ e = Order[1] /\ MissingCanary(e)

EnterSimulation(m, e) ==
  /\ passed[m] = None /\ simulation[m] = Controlled!NoSimulation
  /\ \/ MaySimulateVideo(e)
     \/ MaySimulateRehearsal(e)
     \/ MaySimulateOneShot(e)
     \/ MaySimulateCanary(e)
  /\ passed' = [passed EXCEPT ![m] = e]
  /\ UNCHANGED <<vars, control, files, preparing, overtaken>>

\* simulate(), under the one approval the sheet has for the effect.
Simulate(m) ==
  /\ UNCHANGED <<mission, fresh, acknowledged, job, chain>>
  /\ \/ /\ passed[m] # None
        /\ Controlled!StartSimulation(m, passed[m], Content, <<"sim", passed[m]>>)
     \/ passed[m] = None /\ Controlled!ClaimSimulation(m)
     \/ passed[m] = None /\ Controlled!PostSimulation(m)
     \/ /\ passed[m] = None
        /\ \E outcome \in Controlled!Outcomes["SIMULATION"] :
             Controlled!EndSimulation(m, outcome)
     \/ passed[m] = None /\ Controlled!StopSimulation(m)
  /\ passed' = [passed EXCEPT ![m] = None]
  /\ UNCHANGED <<files, preparing, overtaken>>

\* execute_broadcast up to dispatch().  The rehearsal leaves everything but the
\* receipt to dispatch() itself.
MayBroadcastVideo(e) ==
  /\ VideoSheet
  /\ Gate(e)
  /\ references[e] = None
  /\ attempts[e].state \in {"ABSENT", "PREPARED"}

MayBroadcastRehearsal(e) == RehearsalSheet /\ e = Order[1]

EnterBroadcast(d, e) ==
  /\ passed[d] = None /\ pc[d] = "idle"
  /\ MayBroadcastVideo(e) \/ MayBroadcastRehearsal(e)
  /\ Controlled!Receipt(<<"sim", e>>)
  /\ passed' = [passed EXCEPT ![d] = e]
  /\ UNCHANGED <<vars, control, files, preparing, overtaken>>

\* dispatch() with the controlled port, under the broadcast approval derived
\* from the receipt; it reads the mission again.
Broadcast(d) ==
  /\ UNCHANGED <<mission, fresh, job, chain>>
  /\ \/ /\ passed[d] # None
        /\ Controlled!BeginBroadcast(d, passed[d], Content,
                                     <<"sim", passed[d]>>, <<"brd", passed[d]>>)
     \/ /\ passed[d] = None
        /\ \/ Controlled!ClaimBroadcast(d)
           \/ Controlled!RefuseBroadcast(d)
           \/ Controlled!PostBroadcast(d)
           \/ Controlled!EndBroadcast(d)
           \/ Controlled!AroundPort(d)
  /\ passed' = [passed EXCEPT ![d] = None]
  /\ acknowledged' = acknowledged \cup
       {e \in Effects : /\ attempts[e].state # "PROVIDER_ACKNOWLEDGED"
                        /\ attempts'[e].state = "PROVIDER_ACKNOWLEDGED"}
  /\ UNCHANGED <<files, preparing, overtaken>>

\* A command that passed its gate is refused or killed before it goes on.
GiveUp(t) ==
  /\ passed[t] # None
  /\ passed' = [passed EXCEPT ![t] = None]
  /\ UNCHANGED <<vars, control, files, preparing, overtaken>>

\* _advance_after_ack, and the broadcast killed during it.
FollowUp(e) ==
  /\ e \in MissionEffects
  /\ \/ Advance(e)
     \/ /\ e \in acknowledged \cup fresh
        /\ acknowledged' = acknowledged \ {e}
        /\ fresh' = fresh \ {e}
        /\ UNCHANGED <<mission, job, chain, dispatch>>
  /\ UNCHANGED <<control, desk>>
-----------------------------------------------------------------------------
(***************************************************************************)
(* capture-binding: the provider is asked about the stored reference, and  *)
(* names the transaction of that execution once it is there.               *)
(***************************************************************************)
\* KeeperHubExecutionStatusObserver.observe: completed, with a transaction.
ShowsTransaction(e) == provider[e] = "accepted" /\ chain[e] # "none"

CaptureVideo(e)     == VideoSheet /\ references[e] # None
CaptureRehearsal(e) == RehearsalSheet /\ references[e] # None

CaptureBinding(e) ==
  /\ CaptureVideo(e) \/ CaptureRehearsal(e)
  /\ ShowsTransaction(e)
  /\ \E new \in {"torn", "complete"} :
       ExclusiveWrite(binding[e], new) /\ binding' = [binding EXCEPT ![e] = new]
  /\ UNCHANGED <<vars, control, tool, sheet, preparing, passed, overtaken>>

(***************************************************************************)
(* verify-chain: reconcile() with a verifier of the bound transaction.     *)
(***************************************************************************)
\* Mutation: any transaction of the wallet, without a binding.
BoundToAny(e) == references[e] # None

\* _load_binding, _load_transaction_binding: a binding that can be read, of
\* this attempt and its reference.
Bound(e) == references[e] # None /\ binding[e] = "complete"

Verifiable(e) == attempts[e].state \notin {"FAILED_FINAL", "BLOCKED"}

\* verify_effect_chain, reconcile_rehearsal_chain up to reconcile().
MayVerifyVideo(e)     == VideoSheet /\ Bound(e) /\ Verifiable(e)
MayVerifyRehearsal(e) == RehearsalSheet /\ Bound(e) /\ Verifiable(e)

EnterVerification(r, e) ==
  /\ MayVerifyVideo(e) \/ MayVerifyRehearsal(e)
  /\ LoadAttempt(r, e)
  /\ UNCHANGED <<control, desk>>

(***************************************************************************)
(* The transaction of an accepted payment, in block 1: the transfer of     *)
(* what the provider read in the request, and whatever else it transfers.  *)
(* `chain` says how high the chain is by now; the RPC node may be behind.  *)
(***************************************************************************)
MinimumConfirmations == 2

Height(e) ==
  CASE chain[e] = "none"      -> 0
    [] chain[e] = "recent"    -> 1
    [] chain[e] = "confirmed" -> MinimumConfirmations

Paid(e) ==
  [Terms[e] EXCEPT !.amount = BaseUnits(DecimalString(@, Decimals), Decimals)]

TransactionReceipt(e) ==
  IF chain[e] = "none"
  THEN NoReceipt
  ELSE [found |-> TRUE, succeeded |-> TRUE, block |-> 1,
        logs |-> Append(Extras[e], [transfer |-> Paid(e), sound |-> TRUE])]

\* Mutation: the confirmations of whichever transaction has those terms.
LooksAtTwins(e) ==
  UNION {{Observe(Terms[e], TransactionReceipt(f), head) : head \in 0..Height(f)} :
           f \in Effects}

Looks(e) == {Observe(Terms[e], TransactionReceipt(e), head) : head \in 0..Height(e)}

LookAt(r, look) ==
  IF look.status = "VERIFIED_TRANSFER"
  THEN ObserveTransfer(r, [terms |-> look.transfer,
                           deep  |-> look.confirmations >= MinimumConfirmations])
  ELSE ObserveNothing(r)

\* The broadcast of e has yet to return, or its follow-up to end.
Broadcasting(e) ==
  \/ e \in acknowledged \cup fresh
  \/ \E d \in Dispatchers : call[d].effect = e

Verify(r) ==
  /\ \/ LoadMission(r)
     \/ job[r].at = "observe" /\ \E look \in Looks(job[r].effect) : LookAt(r, look)
     \/ ObserveNothing(r)
     \/ WriteMission(r)
     \/ RereadMission(r)
     \/ WriteReconciledAttempt(r)
     \/ RereadAttempt(r)
     \/ MoveRefused(r)
     \/ ReconcilerStops(r)
  /\ overtaken' = (overtaken \/ (mission' # mission /\ \E e \in Effects : Broadcasting(e)))
  /\ UNCHANGED <<control, files, preparing, passed>>

Elsewhere ==
  /\ \/ ProviderActs
     \/ \E e \in Effects : TransferAppears(e) \/ TransferConfirmed(e)
  /\ UNCHANGED <<control, desk>>

OpNext ==
  \/ PrepareStep
  \/ AdmitStep
  \/ \E m \in Simulators, e \in Effects : EnterSimulation(m, e)
  \/ \E m \in Simulators : Simulate(m)
  \/ \E d \in Dispatchers, e \in Effects : EnterBroadcast(d, e)
  \/ \E d \in Dispatchers : Broadcast(d)
  \/ \E t \in Simulators \cup Dispatchers : GiveUp(t)
  \/ \E e \in Effects : FollowUp(e)
  \/ \E e \in Effects : CaptureBinding(e)
  \/ \E r \in Reconcilers, e \in Effects : EnterVerification(r, e)
  \/ \E r \in Reconcilers : Verify(r)
  \/ Elsewhere

OpSpec == OpInit /\ [][OpNext]_opVars
-----------------------------------------------------------------------------
\* The next payment is asked for only when the ones before it are confirmed,
\* and were each paid once: the gate reads the mission before dispatch() does,
\* but nothing it relies on is ever taken back.
PaidInSequence ==
  \A e \in MissionEffects : posts[e] > 0 =>
    \A f \in Before(e) : mission.effects[f] = "CHAIN_CONFIRMED" /\ posts[f] = 1

\* No payment is confirmed but through the transaction the provider named for
\* its own execution, durably bound: a torn binding confirms nothing.
ConfirmedIsBound ==
  \A e \in MissionEffects :
    mission.effects[e] = "CHAIN_CONFIRMED" =>
      /\ binding[e] = "complete"
      /\ \A f \in Effects : references[f] = references[e] => f = e

\* broadcast_preflight of the operator's wrapper.
BroadcastPreflight(e) ==
  /\ Controlled!Receipt(<<"sim", e>>)
  /\ ledger[<<"brd", e>>] = Controlled!Free
  /\ references[e] = None
  /\ attempts[e].state = "PREPARED"

\* The next payment is never stranded.  A payment whose attempt shows that it was
\* not sent, after ones that are confirmed, can still be made: the mission is
\* ready or prepare makes it so, and the preflight lets its broadcast through
\* once it is simulated.  It needs that no verification writes the mission while
\* a broadcast is under way, or is still following its payment up.
NextStaysExecutable ==
  ~overtaken /\ tool = "video" =>
    \A e \in MissionEffects :
      /\ attempts[e].state \in {"ABSENT", "PREPARED"}
      /\ \A f \in Before(e) : mission.effects[f] = "CHAIN_CONFIRMED"
      => /\ mission.effects[e] = "PLANNED"
         /\ \/ mission.state = "READY_FOR_EXECUTION"
            \/ mission.state \in {"PERSISTED", "RECONCILING"} /\ Preparable
         /\ Controlled!Receipt(<<"sim", e>>) => BroadcastPreflight(e)

\* A payment is never disputed by its own transaction: neither the decimal
\* string that carried its amount to the provider nor anything else that the
\* transaction transfers makes the verifier show another payment.
PaidIsNotDisputed ==
  \A e \in MissionEffects : attempts[e].state # "BLOCKED"

\* The tools keep to the controlled port: all that is proved of
\* ControlledExecution and of ExecutionDispatch holds of them.
\* (The stutter, which is what most steps are to it, is looked at first.)
RefinesControlled ==
  /\ Controlled!Init
  /\ [][UNCHANGED Controlled!vars \/ Controlled!Next]_(Controlled!vars)
=============================================================================
