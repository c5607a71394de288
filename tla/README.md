# A verification development of Nexus Vector

Nexus Vector executes missions that pay several economic effects through an
external provider (KeeperHub). Its promise is "the agent can retry, the money
cannot duplicate": processes may crash, time out, run twice and race, and an
effect must still be paid at most once, with a durable record that never says
less, or more, than what happened.

Everything hard about it is control: which SQLite transaction comes before
which network message, which revision a compare-and-set is made over, what a
restarted process may conclude from what it finds. These modules model that
control step by step, check it with TLC on small instances, and prove the most
important properties with TLAPS for any number of processes, effects, plans and
approvals.

Paths below are relative to the repository; `app/` stands for
`src/nexus_vector/application/`, `store/` for `src/nexus_vector/persistence/`,
`dom/` for `src/nexus_vector/domain/`, `int/` for
`src/nexus_vector/integrations/`.

## 1. Inventory

| Component | State it keeps | Operations | Correct when |
|---|---|---|---|
| Lifecycle tables (`dom/mission_models.py`, `dom/mission_transitions.py`, `dom/execution_attempts.py`) | none | three closed transition tables, the guard of COMPLETED | terminal states are final; COMPLETED needs every effect confirmed |
| Mission store (`store/sqlite_mission_store.py`) | mission record with a revision: state, plan, state of each effect | `create`, `get`, `transition_mission`, `transition_effect` | every write is over the current revision and along the table |
| Attempt journal (`store/sqlite_execution_attempt_store.py`) | one attempt per effect, with plan, state, revision, timestamps | `create` (idempotent for an equal plan), `get`, `transition`, `list_recovery_candidates` | one attempt per effect; one claim per attempt |
| Reference store (`store/sqlite_provider_execution_reference_store.py`) | provider execution id per attempt | `create`, `get` | ids are not shared, and never replaced |
| Dispatch (`app/execution_dispatch.py`) | locals of `dispatch()` | create, claim, call the port, write the outcome | at most one request per effect; doubt is kept as doubt |
| Reference port (`app/provider_reference_port.py`) | none | check, delegate, persist | the reference is durable before the acknowledgement |
| Reconciliation (`app/execution_reconciliation.py`) | locals of `reconcile()` | observe the chain, project the evidence into mission and journal | a confirmation is paid for; the journal never runs ahead of the mission; interrupted work can be finished |
| Admission (`app/mission_admission.py`, `app/runtime_evidence_plan.py`) | locals of `admit()` | create, advance by compare-and-set, prepare | a key stands for one content; no mission is taken back; the bounded loop suffices |
| Controlled execution (`int/keeperhub_controlled_execution.py`) | simulation receipt, broadcast port | `simulate`, the approved broadcast port | one simulation per effect; nothing is broadcast that was not simulated as it is |
| Authorization ledger (`store/sqlite_keeperhub_authorization_ledger.py`) | what each approval reference was consumed for | claim, transition, get | a reference is used once; an attempt is claimed once per phase |
| Direct execution (`int/keeperhub_direct_execution.py`) | none | one POST, classification of the answer | anything unclear is unknown, never a failure |
| Operator tools (`tools/anna_mark_video_mission.py`, its variant with three payments, its preflight; the rehearsal, one-shot and canary tools) | a run directory: action sheet, transaction bindings, and the five stores | prepare, simulate, broadcast with its follow-up, bind, verify | payments are made in sequence, each is confirmed by its own transaction, and the next one is never stranded |
| Surface gate (`app/execution_surface_gate.py`, `store/sqlite_execution_surface_binding_store.py`) | the surface each effect is bound to | bind, check | one surface per effect |
| Continuation planner, execution doctor (`app/continuation_planner.py`, `app/execution_doctor.py`) | none | classify what the stores hold, and compare it with provider and chain | never advises to send what may have been sent; asks for a human only when there is cause; COMPLETE is true |
| Identity and amounts (`dom/mission_identity.py`, `int/keeperhub_request_key.py`, ...) | none | hashes, canonical JSON, base units | equal identifiers exactly for equal contents; the amount paid is the amount asked for |
| Chain verification (`int/base_sepolia_rpc_verification.py`) | none | one look at a transaction | shows the payment asked for exactly when the transaction makes it once |
| Transport, status (`int/keeperhub_http_transport.py`, `int/keeperhub_execution_status.py`, ...) | none | one request each | errors are told from answers |
| Probes, OAuth, console, front end | evidence files | show, or ask read-only | - |

How they interact. There is no server and no in-process concurrency: operators
and schedulers start processes, and processes meet in five SQLite databases
(missions, attempts, references, authorizations, surface bindings). There is no transaction over
two of them, so every operation that touches two is a sequence of commits with
a gap in between. `dispatch()` reads the mission once, creates and claims the
attempt, calls a port and writes its outcome; the reconciler reads attempt and
mission, asks a verifier about the chain, and then writes the mission effect by
effect and the attempt last; admission and the operator tool move the mission's
own state. All of them write by compare-and-set on a revision.

Hard behaviours, in the order of what they can cost: two processes at the claim
of one effect; a crash between the claim and the answer; an answer that is lost
or late; a reconciler that works on the effect meanwhile; a crash between the
two databases of one confirmation; stale snapshots and the retry loops around
them; a second plan for an effect already claimed; approvals consumed by rival
processes. `PROJECT.json` lists each at its line, with the properties that are
there for it.

## 2. The modules

```
SinglePayment  <-- implements -- ExecutionDispatch <-- implements -- MissionRuntime
                                         ^                           ^           ^
                                         |                        extends     extends
                                     implements                      |           |
                                         |           ContinuationPlanning        |
                                ControlledExecution <-- implements -- OperatorMission
                                                                         | extends
                                                     ChainObservation, TransferAmounts

MissionAdmission    SurfaceBinding    Lifecycles (tables, extended by all but SurfaceBinding)
```

**Lifecycles** has the three transition tables as functions from a state to the
set of its successors, and the guard of COMPLETED. No variables.

**SinglePayment** is the abstract specification of the execution layer: per
effect a journal phase, at most one permit, a count of payments. No processes,
no revisions. Its one theorem-worthy fact is that no effect is paid twice.

**ExecutionDispatch** is `dispatch()` and `ProviderReferencePersistingPort`
over the journal and the reference store. `attempts`, `references` are the
durable records; `posts`, `provider` the wire; `pc`, `call` the position and
the locals of each process in `dispatch()`. One step is one transaction or one
message:

| Step | Code |
|---|---|
| `Begin` | the reads of the mission at the top of `dispatch()` |
| `CreateAttempt` | `attempt_store.create` and the check that it is PREPARED |
| `ClaimAttempt` | the transition to IN_FLIGHT |
| `CheckReference`, `PersistReference` | the reference port before and after its delegate |
| `RefuseToSend`, `RejectUnsent`, `Send`, `Receive...`, `LoseAnswer` | what a delegate port may do |
| `Acknowledge`, `RejectFinal`, `MarkUnknown` | the outcome, over the claimed revision |
| `StoreFails`, `Crash` | any transaction refused; the process gone at any point |

The end of the module is the environment: reconcilers that move an attempt
along the table, simulations that prepare one, a mission that changes under the
dispatchers. It is as free as the journal itself lets it be, so that the
theorems hold whatever the other components do.

**MissionRuntime** replaces that environment by the real one: the mission
record, the processes that prepare it, the follow-up of an acknowledged
dispatch, the chain, and `reconcile()` with every helper and both
compare-and-set loops. A reconciler's position is the store operation it will
try next (`job.at`), with the snapshots it holds; `Evidence`, `Projecting`,
`Stepping`, `Finishing`, `Reviewing`, `Blocking`, `MarkingVerified` and
`MarkingUnknown` are the code's helpers, as functions from a job and a snapshot
to the next operation. Mission revisions are not numbers: `fresh` is the set of
processes whose snapshot is of the current revision. Revisions only grow, so a
snapshot is current until somebody writes and never again: the set says all a
compare-and-set can see, and keeps the state space finite.

**MissionAdmission** is `admit()` with its loop of four passes, the preparation
that follows, and execution moving the mission meanwhile.

**ControlledExecution** is the port that really pays: `simulate()`, the
approved broadcast port and the authorization ledger, composed with the
dispatch layer. Its port steps are those of ExecutionDispatch with the ledger's
claims and outcomes around them.

**SurfaceBinding** is the gate that binds an effect to one provider surface
before anything of that surface is called, over its own store. Its ports trust
nobody else: any number of them may hold an IN_FLIGHT attempt of an effect at
once, which is more than the journal ever hands out. Inside a dispatch a gate
that refuses is `RefuseToSend`, and one that does not is invisible.

**ContinuationPlanning** runs the planner and the doctor beside MissionRuntime.
`snapshot` is the mission somebody read before and handed to `plan()`;
`ClassifyEffect` reads one attempt and decides (`Classified` is `_classify`,
`Continued` its part for a mission that may be planned for); `SelectMissing`
prepares what a plan found missing; `Diagnose` compares a finished plan with one
observation per effect (`Diagnosed`, `Overall`), each of which may be unknown, not
have been made, come from a node that is behind, or be held against another
minimum of confirmations than the reconcilers'. Dispatchers and reconcilers go on between any two of
these steps.

**ChainObservation** and **TransferAmounts** are pure: the verifier's `observe()`
as a function of a receipt and of the height the RPC node answers with, and the
decimal string an amount in base units is sent as. The provider's reading of that
string is external.

**OperatorMission** is what an operator really does, and puts the others
together: commands over one run directory, in as many terminals as there are
simulators, dispatchers and reconcilers, killed anywhere.

| Action | Code |
|---|---|
| `PrepareStep`, `AdmitStep` | the prepare commands of the four tools: the action sheet, created with O_EXCL and written afterwards; `_admit_ready_mission` |
| `EnterSimulation`, `Simulate` | the gate on one read of the mission; `simulate()` as in ControlledExecution |
| `EnterBroadcast`, `Broadcast`, `FollowUp`, `GiveUp` | the same for `dispatch()` with the controlled port; `_advance_after_ack` |
| `CaptureBinding` | the transaction the provider names for the stored reference, bound in a file |
| `EnterVerification`, `Verify` | `reconcile()` of MissionRuntime, with a verifier that looks at the bound transaction only (`Looks`) |
| `Elsewhere` | the provider decides, the chain grows |

`tool` says whose run directory it is: the mission of two payments ("video"; the
variant with three is the same module with another `Order`), the rehearsal with one,
and the two tools that only simulate. The transaction of a payment transfers
what the provider read in the request (`Paid`) among other things (`Extras`), so
that a mistake in the amount string or in the selection of logs shows as
a payment disputed by its own transaction: a look shows whatever was selected,
also terms that no effect has, and the attempt is then blocked. The mutants of
`PaidIsNotDisputed` are one mistake of each kind.

The MC modules only add symmetry sets, terms, other transfers, the restarts that
two runs start from, and an assumption about amounts that TLC evaluates. The
definitions whose comment calls them mutations are used by no specification:
each is a plausible mistake in the code, and putting it in the place of the
definition it varies makes TLC find the listed property violated.

## 3. What is checked

All runs check for deadlock but `OperatorMission`, whose runs really end:
a torn action sheet, a simulation that was all there was to do, a mission
completed. Bounds are the sizes of the constant sets; no
counter is capped by a constraint. Attempt revisions stay finite because the
attempt table has no cycle.

| Run | Instance | States | Shows |
|---|---|---|---|
| `ExecutionDispatch` | 2 dispatchers, 2 effects, 2 plans, 2 references | 397,101 | Paid at most once; claim before request; what is sent is what is journaled; an acknowledgement is traceable; FAILED_FINAL is a proof; references are not shared; implements SinglePayment |
| `MissionRuntime` | 1 dispatcher, 1 reconciler, 2 effects | 1,547,874 | types; a completed mission was paid in full |
| `MissionRivals` | 1 dispatcher, 2 reconcilers, 1 effect, evidence with other terms | 1,107,713 | the journal never ahead of the mission; confirmations are paid for |
| `MissionDispatch` | 2 dispatchers, 2 plans, 1 reconciler, 1 effect, evidence with other terms, a planner and a doctor | 380,635 | implements ExecutionDispatch; a planned execution was never sent; a manual review has its cause; what is planned as verified was paid, whoever disputes it; COMPLETE is true |
| `MissionRestart` | 2 reconcilers, 2 effects, started with both payments made and neither verified | 3,365,634 | no interleaving or crash leaves all attempts verified in an open mission |
| `MissionRecovery` | 1 reconciler, 2 effects, started from an execution interrupted anywhere, fairness | 110,106 | a payment deep in the chain is eventually recorded, or handed to a human |
| `MissionAdmission` | 3 processes, 2 contents | 290,190 | four passes suffice; one content per key; never taken back |
| `ControlledExecution` | 2 simulators, 2 broadcasters, 3 approvals, 2 plans, 1 effect | 60,850 | one simulation; only what was simulated is broadcast; every request has its approval; the ledger is true; implements ExecutionDispatch |
| `SurfaceBinding` | 3 ports, 2 effects, 2 missions, 2 surfaces, 2 references | 16,941 | one surface and one mission per effect; a reference binds once; bindings are for good |
| `OperatorMission` | 2 payments on equal terms, 1 terminal per command, all four tools | 374,716 | payments in sequence; each confirmed through its own bound transaction; none disputed; the next one never stranded; implements ControlledExecution |
| `ConfirmedIsNotSent` | 1 of each, a transfer made outside | violated | finding (a) |
| `TwinEffects` | 2 effects on equal terms | violated | finding (b) |

Why the bounds are enough. Two processes per role give every race the code
distinguishes: a compare-and-set has a winner and a loser, and a third process
adds another loser. Admission has three because its loop counts passes and each
rival can cost one. Two effects are needed wherever effects share something
(the reference store, the completion of a mission), and one where they do not.
Two plans are a plan and a rival, three approvals are two for the phases and
one for a rival. Attempts have at most five states in a row, so the journal's
behaviour over one effect is complete. What the bounds leave out is what the
proofs below are for: every invariant, action property and refinement of the
passing runs is proved for all values of the constants, under the hypotheses
section 4 names. With one effect the ControlledExecution run cannot
meet a receipt of another effect; the same module with two effects and without
the refinement passes as well (1.73 million states), and the proof of
`BroadcastWasSimulated` covers any number.

In `OperatorMission` the two payments have the same terms, so that nothing but
their bindings tells them apart; the amount, 1050 units of a token with three
decimals, has a zero right after the point and one at its end; one transaction
also moves another token and the other also pays a fee in the same token; and
the RPC node may be behind at each look. One terminal per command already gives
every interleaving of the commands with each other; two terminals in the same
command are the subject of `ControlledExecution`, which the tools implement, and
of `MissionRivals`.

The strings of all other amounts, up to 2100 units in tokens of up to three
decimals, are read back and compared when the run `ControlledExecution` starts, whose
port sends them (`AmountsAreFaithful`); amounts of up to four digits and three
decimals have every shape of padding and stripping.

In `MissionDispatch` reconcilers do not crash (`Crashes` is FALSE): a crashed
one leaves no state that one which stopped reading does not leave, the crashes are
those of `MissionRuntime`, `MissionRivals` and `MissionRestart`, and
dispatchers crash everywhere.

What is not bounded away: crashes are allowed at every step of every process
and any number of times, every transaction may fail, every answer may be lost,
and rejections and acceptances may reach the provider after their sender died.

`MissionRestart` and `MissionRecovery` start from a restart rather than from the
beginning, which makes two effects, and in the first also two reconcilers, fit in a
run. `RestartInit` of MissionRuntime is every restart: no process is anywhere, and
the stores are in the order that the code's writes guarantee (`StoresInOrder`).
That a crash in any reachable state leaves just that is the theorem
`EveryCrashIsARestart`. TLC cannot enumerate it, so MCMissionRuntime starts from some
of it (`LeftIn`):

- `MissionRecovery`: a mission in READY_FOR_EXECUTION, EXECUTING, VERIFYING,
  RECONCILING or COMPLETED, its effects in any state; attempts PREPARED, IN_FLIGHT,
  PROVIDER_ACKNOWLEDGED with a reference, EXECUTION_UNKNOWN or VERIFIED; payments
  accepted or never sent, and transfers missing, recent or deep. Left out are
  payments still pending or rejected, attempts ABSENT, FAILED_FINAL or BLOCKED and
  missions in PERSISTED or under review: there a payment was not made, or the
  property holds of it already. A pending payment that is accepted later is
  an accepted one whose transfer appears later.
- `MissionRestart`, with two reconcilers that crash again: both payments deep in the
  chain, their attempts PROVIDER_ACKNOWLEDGED or EXECUTION_UNKNOWN; EXECUTING is left
  out, which the reconciler treats as VERIFYING, and IN_FLIGHT, which it treats as
  PROVIDER_ACKNOWLEDGED. The theorems `RestartVerifiesInOrder` and
  `RecoveredIsCompleted` are about every restart.

In both, an effect has left PLANNED only if its payment was accepted, and is
confirmed only if it was paid, as in every execution of effects on terms of their
own. An attempt has the revision of the shortest way to its state; revisions are only
ever compared for equality.

### Fairness

`MissionRecovery` is the only run with fairness, `RecoveryFairness`:

- weak fairness of a reconciler's own steps: a `reconcile()` nobody kills goes
  on. The run sets `Crashes` to FALSE: it asks for progress after the last crash;
- strong fairness of starting on a recovery candidate: an operator who runs the
  recovery listing again and again does not pass over the same attempt for ever;
- strong fairness of seeing a transfer that is there: a verifier may fail any
  number of times, but not every time;
- strong fairness of the completing write. Without it TLC finds a livelock: a
  process that keeps preparing the mission again moves RECONCILING to
  READY_FOR_EXECUTION just before each completion, which the table then refuses.
  The code gives up and raises in that case; that such a process does not come
  back every time is an assumption about operators, and it is stated here.

Nothing is assumed of dispatchers, of the provider, or of the chain.

### What planner and doctor may say

`ManualIsGrounded` is about plans whose mission snapshot is current when the attempt
is read. An older one may show the planner a planned effect with a verified
attempt, which it reports as PLANNED_EFFECT_ATTEMPT_CONTRADICTION: a false alarm,
and a safe one. `MissingWasNotSent` has no such condition, because the attempt
is read by the planner itself. Between the plan and the diagnosis an effect may be
sent, and a doctor that asked neither provider nor chain still says
EXECUTE_MISSING of it; whoever acts on that meets the claim in `dispatch()`, and
`PaidAtMostOnce` holds.

The doctor may also dispute an effect that was planned as verified, and with
nothing wrong: it returns MANUAL_REVIEW when the node it asked has not found the
transfer, and WAIT_FOR_CONFIRMATIONS when it has fewer confirmations than this call
asks for (`execution_doctor.py:168-188`; `tests/test_execution_doctor.py:100`).
`VerifiedDisputesAreFalse` says that such a dispute is about the observer and never
about the payment: that was asked for once and is deep in the chain, and the
dispute rests on a missing, shallow or foreign transfer, never on the provider's
rejection. COMPLETE needs no caution: it takes undisputed effects, and
`ReportedCompleteIsPaid` shows that it is true when it is said and afterwards.

### The stranded mission

`NextStaysExecutable` holds as long as no verification writes the mission while
a broadcast is under way, from its first read to the end of its follow-up
(`~overtaken`). Without that condition TLC finds this
order: the broadcast of anna is acknowledged; in another terminal the operator
binds its transaction and verifies it before `_advance_after_ack` has read the
mission; the reconciler confirms anna, verifies the attempt and leaves the mission in
READY_FOR_EXECUTION, or prepare makes it so; the late follow-up moves
READY_FOR_EXECUTION to EXECUTING and, anna's effect being neither PLANNED nor
RESERVED, on to VERIFYING. Mark is PLANNED without an attempt, the gate asks for
READY_FOR_EXECUTION, prepare admits no mission in VERIFYING, and verify needs
an attempt. Nothing is lost or paid twice, but the mission cannot go on, which
is not what the restart matrix (`docs/STATE_MACHINES.md`: "no attempt, effect
`PLANNED`: evaluate policy gates") leads one to expect.

The verification need not be of the payment that is being broadcast. The attempt
to prove the property for any sequence, with a condition about the same payment
only, failed, and TLC shows why with the three payments of the leo variant: the
verification of anna was killed between its two databases, so that anna is
confirmed and its attempt is still acknowledged. While mark is broadcast, anna is
verified again; that moves the mission from READY_FOR_EXECUTION to RECONCILING,
and it is killed again. Mark is acknowledged and bound, and its verification
starts; prepare makes the mission ready; the follow-up of mark moves it to
EXECUTING and is killed. The verification now confirms mark in a mission that is
EXECUTING, from where the table has no way back to READY_FOR_EXECUTION, and leo
is PLANNED. So the condition speaks of every verification that writes the mission.
With two payments there is nothing left to strand after the second one, which is
why the run alone could not tell the two conditions apart. With the condition as
it stands TLC finds no stranding among the three payments either, from the state
in which anna is confirmed but still acknowledged (4.27 million states); that was
a check of its own, and the theorem covers any number.

A smaller remark: the preflight wrapper stops a second broadcast of a payment
that is under way or done, where the tool's own `broadcast` answers with a skip
that makes no network call.

### Findings

(a) `ConfirmedIsNotSent`. `dispatch()` reads the mission once. If a reconciler
confirms the still PREPARED attempt by a matching transfer made outside the
system after that read (which the code supports and tests), the dispatcher still claims and
sends, because the reconciler writes the mission first and the attempt last.
`docs/STATE_MACHINES.md` says that a confirmed effect must never receive
another execution attempt.

(b) `EachConfirmationHasItsTransfer`. Evidence is matched by chain, token,
sender, recipient and amount, and no record is kept of the transfer an effect
was confirmed by: one transfer confirms two effects on equal terms.
`docs/MISSION_RESILIENCE_LAB.md` says that equal amounts do not make two effects
interchangeable. For the same reason the other MissionRuntime runs give each
effect its own terms, which is the assumption `ConfirmedWasPaid` needs.

## 4. What is proved

The theorems hold for all constants that satisfy the modules' assumptions:
`None` is a value apart (`DispatchAssumption`, `AdmissionAssumption`,
`ControlledAssumption`, `BindingAssumption`), the set of approvals is finite
(`ControlledAssumption`, which is only needed for its cardinality), the planner's
constants are the ones its code answers with (`PlanningAssumption`), and
`OperatorAssumption` says what a run directory is: one content, a sequence that is
not empty and names each payment once (`_SEQUENCE` of
`tools/anna_mark_video_mission.py` and of its leo variant), terms that are a
token, a recipient and an amount, and transactions whose other transfers are of
other terms.

Some theorems have a hypothesis besides, named in the statement. Each holds in the
instances of the passing runs that check the property:

- `Effects # {}`, for what is said of a finished mission: the mission model
  refuses one without effects (`dom/mission_models.py`).
- `DistinctTerms`, for what evidence matched by its terms alone shows: no two
  effects, and no payment made elsewhere, have the same terms. It is necessary,
  as `TwinEffects` and `ConfirmedIsNotSent` show. No theorem of OperatorMission needs it.
- `Faithful`, for what a transaction shows of its own payment: each amount comes
  back from the decimal string it was sent as. That it does is an induction over
  digits, out of the prover's reach; TLC compares all amounts within the bounds of
  `AmountsAreFaithful`.

**SinglePaymentProofs.** `PermitInv`: an open journal has neither permit nor
payment, and an unused permit means no payment. At most one payment follows.

**ExecutionDispatchProofs.** `DispatchInv` is `TypeOK /\ SafetyInv`. None of
the six safety properties is inductive alone; what they need is
(1) *one owner*: two processes past the claim of one effect are the same process,
because the claim moved the attempt out of PREPARED and the revision with it;
(2) *knowledge*: an owner's `call.revision` is either the attempt's revision, and
then the attempt is still IN_FLIGHT, or older, and then every write of the owner
is refused; and (3) *the wire*: what `posts`, `provider` and `references` may
be for each place the owner can be in. The steps are grouped by what they
disturb (`QuietTurn`, `JournalMoves`, `ProviderMoves`, and one lemma for each
of the creating, claiming, sending and persisting steps), and
`SafetyDispatcherStep` has one case per action. `PlanIsKept` and `CallKeepsPlan`
say that an attempt's plan never changes, and that an owner's plan is its own.

In the same module, every step of the dispatch layer is a step or
a stutter of SinglePayment under `Journal` and `Permits`
(`DispatchImplementsSinglePayment`): claiming issues the
permit, sending uses it, crashing or refusing before the request drops it.
Two places need the invariant: an acknowledgement needs that something was sent,
a final rejection that no permit is left. Its last lemmas are what the modules
above it ask of any step: final states, references and claims stay
(`FinalStays`, `ReferenceStays`, `ClaimedStays`), one step works on one effect
(`OthersStand`), a dispatcher never blocks an attempt (`DispatchNeverBlocks`), and
goes from place to place as `DispatcherMovesOn` lists.

**MissionAdmissionProofs.** `PassInv` bounds the passes by what was seen: none
while RECEIVED is seen, one at VALIDATED, two afterwards; and a stale snapshot
of an unadmitted mission is of an earlier stage than the mission. So each lost
revision pays for itself with an advance, and four passes suffice for any
number of rivals. `NeverTakenBack` follows from snapshots that are current when
written over, and from a table without a way back.

**ControlledExecutionProofs.** First every step of the controlled port is a step
or stutter of ExecutionDispatch (`ControlledImplementsDispatch`), so the
dispatch layer's invariant holds of it (`DispatchHolds`). On top of that,
`SimulatorInv` (a simulator past its claim is the only one for its effect, and
the claim outlives it) and `PortInv` (a port that claimed its broadcast holds
the receipt of that very plan) make `SimulatedAtMostOnce` and
`BroadcastWasSimulated` inductive; final receipts and claims never change,
which is `LedgerStep`.

**SurfaceBindingProofs.** `BindingInv`: every port past its transaction, and every
call made, agrees with a binding that is there. A port acts long after its
transaction, so the agreement has to survive whatever other ports do meanwhile;
it does because a binding is never replaced, and `OneSurfacePerEffect` follows
from any two calls agreeing with the same binding.

The inductive invariants of the dispatch layer, of admission, of the controlled
port and of the gate were checked by TLC over the runs' instances before they
were proved.

For the approvals, `ApprovalInv` adds that whoever may send or finalize holds a
claim of its own phase and effect. `LedgerTellsTheTruth` then needs that a
decision of the provider stays (`DecisionsStay`: it is undone only by another
request, and a port past its claim finds none made), and `EveryPostIsApproved`
compares counts that are at most one with the size of a set that is not empty.

**MissionRuntimeProofs.** In four layers.
(1) `RuntimeInv`: the mission has the shape of `Mission`, and every reconciler's
job is one that the code can be in: what its snapshot shows as confirmed is
confirmed, a job about to write an attempt has one of the three targets the
journal's environment allows, and a job about to write VERIFIED stands behind a
confirmed effect. The dispatch layer's invariant is used through
`RuntimeImplementsDispatch`: every step of the mission layer is a step of
ExecutionDispatch's environment, or a stutter. `TypeOK` and
`VerifiedIsConfirmed` follow; a confirmation is never undone because the effect
table has no way out of CHAIN_CONFIRMED.
(2) `PaidInv`: a transfer is on the chain only for an accepted payment, a job
whose evidence was conclusive is about an effect whose transfer is deep, and a
confirmed effect is one of those. It assumes `DistinctTerms`;
OperatorMission does without it, by looking at a bound transaction only.
(3) `CompletedIsPaid` from the guard of COMPLETED.
(4) `LastInv`, for `AllVerifiedIsCompleted`. Neither the states of the attempts
nor the mission alone say who will complete it. What is inductive is a claim
about a witness: once every effect is confirmed and the mission is still open,
some effect has an attempt that is not verified, and every reconciler that works
on it `Closes`, which is to say that it has not yet passed the completion, and
that its snapshot, if it shows the effect confirmed at all, shows them all
confirmed. The witness is the effect confirmed last: its confirmation was written
over the current revision, so whoever wrote it saw all the others; any other
reconciler of the same effect lost a revision to it and has to read again.
Restarts. `EveryCrashIsARestart` says that every reachable state, of the first
execution or of a recovery, has its stores in order, so that a crash of all
processes leaves a state of `RestartInit`. Besides the invariants above it needs
`TracedInv`: only of an accepted payment is there a reference or a transfer.
Conversely `RestartInit` implies these invariants (`RestartRuntime`,
`RestartDispatch`, `RestartLast`), which therefore hold in any recovery
(`RestartSafety`), and with them `RestartVerifiesInOrder` and `RecoveredIsCompleted`.

**ContinuationPlanningProofs.** `PlanningIsPassive`: a planner's or doctor's step is
a step of MissionRuntime or none of it, so everything above holds beside them.
`PlanInv` connects what was decided earlier with what the stores hold now: a plan
to skip, and a report of COMPLETE, mean verified attempts, and a verified attempt
is final (`FinalStays`). Three lemmas say of the tables of
`_classify`, `_diagnose_effect` and `_overall_action` what the proofs need of them
(`ClassifiedTable`, `DiagnosedTable`, `OverallTable`). `MissingWasNotSent` and
`ManualIsGrounded` are about the moment of the decision, from the dispatch layer's
and the runtime's invariant in the state the attempt is read in;
`VerifiedDisputesAreFalse` and `ReportedCompleteIsPaid` are about any time after it,
by `VerifiedIsConfirmed` and `ConfirmedWasPaid`.

**OperatorMissionProofs.** Any sequence of payments, whichever tool it is, any
number of terminals.
(1) `OpInv`. `GateInv` says that whatever passed the gate stays cleared: the
payments it comes after are confirmed. The gate reads the mission once and the
request may be sent much later, but a confirmation is never undone, so the fact
is carried from the gate to the call, and from the call to the attempt. With the
wire's part of `DispatchInv`, `PaidInSequence` follows.
(2) `ConfirmedWasPaid` by `PaidInv` again, but with any terms: a look at the bound
transaction can only show a payment that was made (`LookShowsThePayment`,
`VerifyIsGrounded`), and `ConfirmedIsBound` by `BoundInv`: every verification under
way is of a payment bound completely, and a binding is never replaced.
(3) `PaidIsNotDisputed`: `SelectionShowsExactlyOne` is about the logs of any
receipt, by cases on how many of them are of the expected token;
`LookShowsThePayment` says of a payment's own transaction that what is
selected is this payment, given `Faithful`; and `UndisputedInv` that no job ever
comes to block an attempt or to put the mission to manual review.
(4) `RefinesControlled` action by action (`ToolsKeepToThePort`). Since the
environment of ControlledExecution includes what the mission does meanwhile,
its theorems can be cited for the tools: `ToolsAreControlled`.
(5) `NextIsNeverStranded`, from four invariants. `ClaimsInv`: only a payment whose
attempt was claimed has a reference, is followed up, or has left PLANNED in the
mission. `ApprovalsInv`: the ledger holds a broadcast approval only of a claimed
payment, so that the preflight of one that was not sent finds it free.
`UndisputedInv`: the mission is not under review. `LeadInv`, as long as nothing was
overtaken: a broadcast is of a payment that is not confirmed, in a mission that
is ready or being followed up; a mission in EXECUTING or VERIFYING still has a
claimed payment to confirm, which is the first of those that are not confirmed
because payments are in sequence; and a verification that is about to record a
payment has it to itself. A payment that was not sent, after ones that are all
confirmed, then finds the mission ready, or where prepare makes it so. The theorem
is stronger than what was checked before it: it does not ask that all
terminals be at rest.

### Only model-checked

- `IsFaithful` of the amount strings: it is an induction over digits, and
  induction over data (what a recursive definition computes for every input) is
  out of the prover's reach.
- `ConfirmedIsRecorded`: liveness under fairness, and ENABLED, are out of its
  reach too.
- The two violated properties, which are false.

## 5. What is abstracted, and what is not modelled

- **Contents.** A plan, request, receipt or mission content is one opaque value;
  two are equal exactly when the code's fingerprints are. Hash collisions are
  not considered. An attempt is indexed by its effect because the attempt id is
  a hash of the effect id.
- **Time.** Timestamps have two effects: a transition older than its record is
  refused, which is a `StoreFails`. `dispatch()` takes one timestamp for claim and
  outcome, so a slow clock is refused at the claim, before anything is sent. And an authorization window may be over,
  which is a refusal at any moment. Since the code compares the window with the
  attempt's timestamp and not with the clock, nothing stronger would be true.
- **Stores.** Schema checks, migrations and row validation are a store that may
  fail. SQLite's transactions are taken to be atomic and durable.
- **Unreached branches.** Reconciler branches on effect states that nothing in
  the system writes (EXECUTION_UNKNOWN, FAILED_FINAL and BLOCKED of an effect)
  are left out, and `TypeOK` of MissionRuntime shows that they are unreached.
  `dispatch()` writes nothing to the mission.
- **Chain.** Transactions are not reorganised: what is in a block stays there, as
  the code assumes that two confirmations are final. Reverted transactions and
  malformed logs are errors of `Observe`; the instance has none, because a
  payment's own transaction is neither.
- **Terminals.** A command that passed its gate may go on at any later time, or
  never. Locks on files are not there in the code either: O_EXCL is all.
- **Loops.** The reconciler's loops give up after twelve passes. Giving up is a
  `ReconcilerStops` at any pass; that twelve suffice is not claimed.
- **Not modelled:** the classification of HTTP answers and the transport (pure
  I/O, whose outcomes the models enumerate); JSON-RPC requests and hex decoding
  (an observation that may fail); identity, canonical JSON and the sums of
  amounts over a plan's classes (pure functions of immutable contents); probes,
  wallet preflight and OAuth tools (read-only, one process, none of the stores);
  console and front end (presentation).

## 6. Plan

Done, in this order: Lifecycles, SinglePayment, ExecutionDispatch with its
proofs and refinement, MissionRuntime with proofs, MissionAdmission with proofs,
ControlledExecution with proofs, SurfaceBinding with proofs,
ContinuationPlanning, ChainObservation with proofs, TransferAmounts,
OperatorMission; then the proofs about ContinuationPlanning and OperatorMission,
and those about completion and restarts in MissionRuntime.

Next:

1. That giving up is rare: twelve passes of the reconciler's loops suffice when
   only a bounded number of rivals write, as four do for admission.
2. The action properties behind the invariants as properties of their own: a
   confirmation, a binding of a transaction and a final attempt are for good, for
   every step of every tool.
3. The sums of amounts over a plan's classes, against the mission's total.
