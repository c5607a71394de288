--------------------------- MODULE MissionRuntime ---------------------------
(***************************************************************************)
(* The dispatch layer composed with the rest of the runtime: the durable   *)
(* mission, the reconcilers (application/execution_reconciliation.py), the *)
(* process that makes a mission ready (application/runtime_evidence_       *)
(* plan.py), the follow-up of an acknowledged broadcast (tools/anna_mark_  *)
(* video_mission.py) and the chain the reconcilers observe.                *)
(*                                                                         *)
(* One step is one transaction of one store, so the mission, the attempt   *)
(* journal and the chain change independently, as the code's two databases *)
(* do.  A mission revision is abstracted to the set `fresh` of the         *)
(* processes whose snapshot has the current revision: revisions only grow, *)
(* so a snapshot is current until anybody writes and never again.          *)
(***************************************************************************)
EXTENDS Naturals, FiniteSets, Lifecycles

CONSTANTS
  Effects, Contents, References, Dispatchers, None,  \* as in ExecutionDispatch
  Reconcilers,  \* processes that may call reconcile()
  Terms,        \* per effect: chain, token, recipient and amount it stands for
  Outside,      \* terms of transfers the wallet made outside this system
  Crashes       \* whether reconcilers may still crash

ASSUME RuntimeAssumption ==
  /\ None \notin Effects \cup Contents \cup References
  /\ Effects \cap Reconcilers = {}
  /\ DOMAIN Terms = Effects
  /\ Crashes \in BOOLEAN

VARIABLES
  mission,      \* the durable mission: its state and that of each effect
  fresh,        \* processes whose mission snapshot is the current revision
  acknowledged, \* effects whose acknowledged dispatch() has yet to be followed up
  job,          \* what each reconciler is doing
  chain,        \* the transfer each accepted payment became
  attempts, references, posts, provider, pc, call  \* as in ExecutionDispatch

dispatch == <<attempts, references, posts, provider, pc, call>>
vars == <<mission, fresh, acknowledged, job, chain, dispatch>>

\* What dispatch() finds when it reads the mission.
Dispatchable ==
  {e \in DOMAIN mission.effects :
                   /\ mission.state = "READY_FOR_EXECUTION"
                   /\ mission.effects[e] = "PLANNED"}

Dispatch == INSTANCE ExecutionDispatch WITH dispatchable <- Dispatchable

ReachedMissionStates ==
  {"PERSISTED", "RECONCILING", "READY_FOR_EXECUTION", "EXECUTING", "VERIFYING",
   "COMPLETED", "MANUAL_REVIEW_REQUIRED"}

ReachedEffectStates == {"PLANNED", "RESERVED", "SUBMITTED", "CHAIN_CONFIRMED"}

NoJob == [at |-> "idle", effect |-> None, attempt |-> None, seen |-> None,
          target |-> None]

Init ==
  /\ mission = [state |-> "PERSISTED", effects |-> [e \in Effects |-> "PLANNED"]]
  /\ Dispatch!Init
  /\ fresh = {}
  /\ acknowledged = {}
  /\ job = [r \in Reconcilers |-> NoJob]
  /\ chain = [e \in Effects |-> "none"]
-----------------------------------------------------------------------------
(***************************************************************************)
(* Preparing: PERSISTED -> RECONCILING -> READY_FOR_EXECUTION, whatever    *)
(* the effects are.  A process that loses the revision gives up, so each   *)
(* move reads and writes the current mission.                              *)
(***************************************************************************)
\* Mutation: a rewrite that forgets to increment the revision.
PrepareKeepingRevision(from, target) ==
  /\ mission.state = from
  /\ mission' = [mission EXCEPT !.state = target]
  /\ UNCHANGED <<fresh, acknowledged, job, chain, dispatch>>

Prepare(from, target) ==
  /\ mission.state = from
  /\ mission' = [mission EXCEPT !.state = target]
  /\ fresh' = {}
  /\ UNCHANGED <<acknowledged, job, chain, dispatch>>

PrepareReconciling == Prepare("PERSISTED", "RECONCILING")
PrepareReady       == Prepare("RECONCILING", "READY_FOR_EXECUTION")

(***************************************************************************)
(* _advance_after_ack(e): a chain of moves, each over the revision the     *)
(* last one produced; the first lost revision ends it.  The effect stands  *)
(* for the process that follows up its dispatch.                           *)
(***************************************************************************)
Advanced(m, e) ==
  LET state == m.effects[e] IN
  CASE m.state = "READY_FOR_EXECUTION" -> [m EXCEPT !.state = "EXECUTING"]
    [] m.state # "READY_FOR_EXECUTION" /\ state = "PLANNED" ->
         [m EXCEPT !.effects[e] = "RESERVED"]
    [] m.state # "READY_FOR_EXECUTION" /\ state = "RESERVED" ->
         [m EXCEPT !.effects[e] = "SUBMITTED"]
    [] m.state = "EXECUTING" /\ state \notin {"PLANNED", "RESERVED"} ->
         [m EXCEPT !.state = "VERIFYING"]
    [] OTHER -> m

Advance(e) ==
  /\ e \in acknowledged \cup fresh
  /\ mission' = Advanced(mission, e)
  /\ fresh' = IF mission' = mission THEN fresh \ {e} ELSE {e}
  /\ acknowledged' = acknowledged \ {e}
  /\ UNCHANGED <<job, chain, dispatch>>

(***************************************************************************)
(* The dispatchers.  The one that acknowledges an effect follows it up.    *)
(***************************************************************************)
DispatcherActs(d) ==
  /\ UNCHANGED <<mission, fresh, job, chain>>
  /\ Dispatch!DispatcherStep(d)
  /\ acknowledged' = acknowledged \cup
       {e \in Effects : /\ attempts[e].state # "PROVIDER_ACKNOWLEDGED"
                        /\ attempts'[e].state = "PROVIDER_ACKNOWLEDGED"}

\* A controlled simulation prepares the attempt, whatever the mission is.
SimulationPrepares(e, c) ==
  /\ UNCHANGED <<mission, fresh, acknowledged, job, chain>>
  /\ Dispatch!PrepareAttempt(e, c)

ProviderActs ==
  /\ UNCHANGED <<mission, fresh, acknowledged, job, chain>>
  /\ Dispatch!ProviderStep

\* An accepted payment becomes a transfer, and gathers its confirmations.
TransferAppears(e) ==
  /\ provider[e] = "accepted"
  /\ chain[e] = "none"
  /\ chain' = [chain EXCEPT ![e] = "recent"]
  /\ UNCHANGED <<mission, fresh, acknowledged, job, dispatch>>

TransferConfirmed(e) ==
  /\ chain[e] = "recent"
  /\ chain' = [chain EXCEPT ![e] = "confirmed"]
  /\ UNCHANGED <<mission, fresh, acknowledged, job, dispatch>>
-----------------------------------------------------------------------------
(***************************************************************************)
(* A reconciler's decisions, each on a job j and a mission snapshot m: the *)
(* store operation it will try next, or NoJob when reconcile() returns or  *)
(* raises.  An effect is only ever PLANNED, RESERVED, SUBMITTED or         *)
(* CHAIN_CONFIRMED here (TypeOK), so the branches of the code on the other *)
(* effect states have no counterpart.                                      *)
(***************************************************************************)
Reconcilable ==
  {"PERSISTED", "READY_FOR_EXECUTION", "EXECUTING", "VERIFYING",
   "EXECUTION_UNKNOWN", "VERIFICATION_FAILED"}

OnMission(j, m, at, target) ==
  [j EXCEPT !.at = at, !.seen = m, !.target = target]

OnAttempt(j, at, target) == [j EXCEPT !.at = at, !.target = target]

\* _mark_unknown, _mark_verified.
MarkingUnknown(j) ==
  IF j.attempt.state \in {"IN_FLIGHT", "PROVIDER_ACKNOWLEDGED"}
  THEN OnAttempt([j EXCEPT !.seen = None], "unknown", "EXECUTION_UNKNOWN")
  ELSE NoJob

MarkingVerified(j) ==
  IF j.attempt.state = "VERIFIED"
  THEN NoJob
  ELSE OnAttempt([j EXCEPT !.seen = None], "verify", "VERIFIED")

\* _mark_manual_review, through _ensure_reconciling.
Reviewing(j, m) ==
  CASE m.state = "RECONCILING" ->
         OnMission(j, m, "review", "MANUAL_REVIEW_REQUIRED")
    [] m.state \in Reconcilable -> OnMission(j, m, "reopen", "RECONCILING")
    [] OTHER -> NoJob

\* _block_attempt, then _mark_manual_review.
Blocking(j) ==
  IF j.attempt.state \in {"BLOCKED", "VERIFIED", "FAILED_FINAL"}
  THEN Reviewing(j, j.seen)
  ELSE OnAttempt(j, "block", "BLOCKED")

\* _project_confirmed_effect once the effect is CHAIN_CONFIRMED.
\* (FinishingInReady is a mutation: completion left to somebody else.)
FinishingInReady(j, m) ==
  IF m.state = "RECONCILING"
  THEN OnMission(j, m, "finish", "READY_FOR_EXECUTION")
  ELSE MarkingVerified(j)

Finishing(j, m) ==
  LET states == {m.effects[e] : e \in DOMAIN m.effects}
      target == IF states = {"CHAIN_CONFIRMED"}
                THEN "COMPLETED" ELSE "READY_FOR_EXECUTION"
  IN  IF m.state = target \/ states \cap {"RESERVED", "SUBMITTED"} # {}
      THEN MarkingVerified(j)
      ELSE OnMission(j, m, "finish", target)

\* _project_confirmed_effect, one effect transition at a time.
Stepping(j, m) ==
  LET state == m.effects[j.effect] IN
  CASE state = "PLANNED"         -> OnMission(j, m, "step", "RESERVED")
    [] state = "RESERVED"        -> OnMission(j, m, "step", "SUBMITTED")
    [] state = "SUBMITTED"       -> OnMission(j, m, "step", "CHAIN_CONFIRMED")
    [] state = "CHAIN_CONFIRMED" -> Finishing(j, m)

\* _ensure_reconciling, then the projection.  (The first is a mutation: only a
\* mission somebody already reopened is projected.)
ProjectingIfReopened(j, m) ==
  IF m.state \in {"RECONCILING", "COMPLETED"} THEN Stepping(j, m) ELSE NoJob

Projecting(j, m) ==
  CASE m.state \in {"RECONCILING", "COMPLETED"} -> Stepping(j, m)
    [] m.state \in Reconcilable -> OnMission(j, m, "enter", "RECONCILING")
    [] OTHER -> NoJob

\* What comes after the mission operation j was at, the record now being m.
AfterMission(j, m) ==
  CASE j.at \in {"enter", "step"} -> Stepping(j, m)
    [] j.at = "finish"            -> MarkingVerified(j)
    [] j.at = "reopen"            -> Reviewing(j, m)
    [] j.at = "review"            -> NoJob

AfterAttempt(j) ==
  IF j.at = "block" THEN Reviewing(j, j.seen) ELSE NoJob
-----------------------------------------------------------------------------
\* Reconciler r goes on with job j, its snapshot being current or forgotten.
Proceed(r, j, current) ==
  /\ job' = [job EXCEPT ![r] = j]
  /\ fresh' = IF j.seen = None THEN current \ {r} ELSE current

(***************************************************************************)
(* reconcile(attempt of e): the two reads.                                 *)
(***************************************************************************)
LoadAttempt(r, e) ==
  /\ job[r] = NoJob
  /\ attempts[e].state # "ABSENT"
  /\ job' = [job EXCEPT ![r] =
       [NoJob EXCEPT !.at = "load", !.effect = e, !.attempt = attempts[e]]]
  /\ UNCHANGED <<mission, fresh, acknowledged, chain, dispatch>>

LoadMission(r) ==
  LET j == job[r]
      settled == /\ j.attempt.state = "VERIFIED"
                 /\ mission.effects[j.effect] = "CHAIN_CONFIRMED"
  IN
  /\ j.at = "load"
  /\ Proceed(r, IF settled THEN NoJob ELSE OnMission(j, mission, "observe", None),
             fresh \cup {r})
  /\ UNCHANGED <<mission, acknowledged, chain, dispatch>>

\* The verifier: nothing found, ambiguity, an exception...
ObserveNothing(r) ==
  /\ job[r].at = "observe"
  /\ Proceed(r, MarkingUnknown(job[r]), fresh)
  /\ UNCHANGED <<mission, acknowledged, chain, dispatch>>

\* ... or one transfer that is on chain, deep enough for the node that is asked
\* or not, and whose terms are compared with those of the effect.
Transfers ==
  LET ShownOf(e) == [terms : {Terms[e]}, deep : {FALSE, chain[e] = "confirmed"}]
  IN  [terms : Outside, deep : BOOLEAN]
        \cup UNION {ShownOf(e) : e \in {x \in Effects : chain[x] # "none"}}

\* Mutations: confirmations not counted; terms not compared; the attempt
\* marked VERIFIED before the mission knows.
EvidenceOfRecentTransfer(j, t) ==
  IF t.terms = Terms[j.effect] THEN Projecting(j, j.seen) ELSE Blocking(j)

EvidenceOfAnyTransfer(j, t) ==
  IF t.deep THEN Projecting(j, j.seen) ELSE MarkingUnknown(j)

EvidenceMarksAttempt(j, t) ==
  IF t.terms = Terms[j.effect] THEN MarkingVerified(j) ELSE Blocking(j)

Evidence(j, t) ==
  CASE t.terms # Terms[j.effect] -> Blocking(j)
    [] t.terms = Terms[j.effect] /\ ~t.deep -> MarkingUnknown(j)
    [] t.terms = Terms[j.effect] /\ t.deep ->
         IF j.attempt.state \in {"FAILED_FINAL", "BLOCKED"}
         THEN Reviewing(j, j.seen)
         ELSE Projecting(j, j.seen)

ObserveTransfer(r, t) ==
  /\ job[r].at = "observe"
  /\ Proceed(r, Evidence(job[r], t), fresh)
  /\ UNCHANGED <<mission, acknowledged, chain, dispatch>>

(***************************************************************************)
(* The compare-and-set loops.  A stale revision is read again and the same *)
(* target tried once more; a move the domain refuses is raised.            *)
(***************************************************************************)
Reached(j, m) ==
  IF j.at = "step" THEN m.effects[j.effect] = j.target ELSE m.state = j.target

Allowed(j, m) ==
  IF j.at = "step"
  THEN j.target \in EffectSuccessors[m.effects[j.effect]]
  ELSE MissionMayMove(m.state, m.effects, j.target)

Applied(j, m) ==
  IF j.at = "step"
  THEN [m EXCEPT !.effects[j.effect] = j.target]
  ELSE [m EXCEPT !.state = j.target]

MissionLabels == {"enter", "step", "finish", "reopen", "review"}
AttemptLabels == {"unknown", "block", "verify"}

WriteMission(r) ==
  LET j == job[r]
      m == Applied(j, mission)
  IN
  /\ j.at \in MissionLabels
  /\ r \in fresh
  /\ Allowed(j, mission)
  /\ mission' = m
  /\ Proceed(r, AfterMission(j, m), {r})
  /\ UNCHANGED <<acknowledged, chain, dispatch>>

RereadMission(r) ==
  LET j == job[r] IN
  /\ j.at \in MissionLabels
  /\ r \notin fresh
  /\ Proceed(r, IF Reached(j, mission) THEN AfterMission(j, mission)
                ELSE [j EXCEPT !.seen = mission],
             fresh \cup {r})
  /\ UNCHANGED <<mission, acknowledged, chain, dispatch>>

\* Mutation: the attempt moved whatever became of it since it was read.
WriteReconciledAttemptBlindly(r) ==
  LET j == job[r] IN
  /\ j.at \in AttemptLabels
  /\ attempts' = [attempts EXCEPT
       ![j.effect] = Dispatch!Moved(attempts[j.effect], j.target)]
  /\ Proceed(r, AfterAttempt(j), fresh)
  /\ UNCHANGED <<mission, acknowledged, chain, references, posts, provider, pc, call>>

WriteReconciledAttempt(r) ==
  LET j == job[r] IN
  /\ j.at \in AttemptLabels
  /\ attempts[j.effect].revision = j.attempt.revision
  /\ UNCHANGED <<mission, acknowledged, chain>>
  /\ Dispatch!ReconcilerWrites(j.effect, j.target)
  /\ Proceed(r, AfterAttempt(j), fresh)

RereadAttempt(r) ==
  LET j == job[r]
      attempt == attempts[j.effect]
  IN
  /\ j.at \in AttemptLabels
  /\ attempt.revision # j.attempt.revision
  /\ Proceed(r, IF attempt.state = j.target THEN AfterAttempt(j)
                ELSE [j EXCEPT !.attempt = attempt],
             fresh)
  /\ UNCHANGED <<mission, acknowledged, chain, dispatch>>

\* The domain refuses the move over the current revision: reconcile() raises.
MoveRefused(r) ==
  LET j == job[r]
      e == j.effect
  IN
  /\ \/ j.at \in MissionLabels /\ r \in fresh /\ ~Allowed(j, mission)
     \/ /\ j.at \in AttemptLabels
        /\ attempts[e].revision = j.attempt.revision
        /\ j.target \notin AttemptSuccessors[attempts[e].state]
  /\ Proceed(r, NoJob, fresh)
  /\ UNCHANGED <<mission, acknowledged, chain, dispatch>>

\* A store error, a loop that gave up, or a crash: reconcile() is gone and
\* what it wrote so far stays.
ReconcilerStops(r) ==
  /\ Crashes
  /\ job[r] # NoJob
  /\ Proceed(r, NoJob, fresh)
  /\ UNCHANGED <<mission, acknowledged, chain, dispatch>>

ReconcilerActs(r) ==
  \/ \E e \in Effects : LoadAttempt(r, e)
  \/ LoadMission(r)
  \/ ObserveNothing(r)
  \/ \E t \in Transfers : ObserveTransfer(r, t)
  \/ WriteMission(r)
  \/ RereadMission(r)
  \/ WriteReconciledAttempt(r)
  \/ RereadAttempt(r)
  \/ MoveRefused(r)
  \/ ReconcilerStops(r)

Next ==
  \/ PrepareReconciling
  \/ PrepareReady
  \/ \E e \in Effects : Advance(e)
  \/ \E d \in Dispatchers : DispatcherActs(d)
  \/ \E e \in Effects, c \in Contents : SimulationPrepares(e, c)
  \/ ProviderActs
  \/ \E e \in Effects : TransferAppears(e) \/ TransferConfirmed(e)
  \/ \E r \in Reconcilers : ReconcilerActs(r)

Spec == Init /\ [][Next]_vars

Mission == [state : ReachedMissionStates, effects : [Effects -> ReachedEffectStates]]

(***************************************************************************)
(* A restart: every process died wherever it was.  What it finds is what   *)
(* the order of the writes guarantees of the two databases, the provider   *)
(* and the chain (that a crash anywhere leaves this is a theorem).         *)
(***************************************************************************)
StoresInOrder ==
  /\ mission \in Mission
  /\ attempts \in [Effects -> Dispatch!Attempt \cup {Dispatch!Absent}]
  /\ references \in [Effects -> References \cup {None}]
  /\ provider \in [Effects -> {"idle", "pending", "accepted", "rejected"}]
  /\ posts = [e \in Effects |-> IF provider[e] = "idle" THEN 0 ELSE 1]
  /\ chain \in [Effects -> {"none", "recent", "confirmed"}]
  /\ \A e \in Effects :
       LET state == attempts[e].state IN
       /\ state \in {"ABSENT", "PREPARED"} => provider[e] = "idle"
       /\ state = "PROVIDER_ACKNOWLEDGED" => references[e] # None
       /\ state = "FAILED_FINAL" => provider[e] \in {"idle", "rejected"}
       /\ state = "VERIFIED" => mission.effects[e] = "CHAIN_CONFIRMED"
       /\ references[e] # None \/ chain[e] # "none" => provider[e] = "accepted"
       /\ mission.state = "COMPLETED" => mission.effects[e] = "CHAIN_CONFIRMED"
  /\ Dispatch!ReferenceServesOneEffect
  /\ (\A e \in Effects : attempts[e].state = "VERIFIED") => mission.state = "COMPLETED"

RestartInit ==
  /\ StoresInOrder
  /\ pc = [d \in Dispatchers |-> "idle"]
  /\ call = [d \in Dispatchers |-> Dispatch!NoCall]
  /\ fresh = {}
  /\ acknowledged = {}
  /\ job = [r \in Reconcilers |-> NoJob]

RestartSpec == RestartInit /\ [][Next]_vars

(***************************************************************************)
(* Recovery is fair: a reconcile() that nothing kills goes on, an attempt  *)
(* that list_recovery_candidates shows is not passed over for ever, and a  *)
(* verifier asked again and again about a transfer that is there shows it. *)
(* A mission made ready again by another process between the last effect   *)
(* and the completion refuses the completion; that process does not come   *)
(* back every time.  Nothing else is assumed of any other process.         *)
(***************************************************************************)
RecoveryStates ==
  {"PREPARED", "IN_FLIGHT", "PROVIDER_ACKNOWLEDGED", "EXECUTION_UNKNOWN"}

StartsRecovery(r, e) == attempts[e].state \in RecoveryStates /\ LoadAttempt(r, e)

SeesTransfer(r, e) ==
  LET t == [terms |-> Terms[e], deep |-> TRUE] IN
  /\ job[r].effect = e
  /\ t \in Transfers
  /\ ObserveTransfer(r, t)

Finishes(r) == job[r].at = "finish" /\ WriteMission(r)

GoesOn(r) ==
  \/ LoadMission(r)
  \/ ObserveNothing(r)
  \/ WriteMission(r)
  \/ RereadMission(r)
  \/ WriteReconciledAttempt(r)
  \/ RereadAttempt(r)
  \/ MoveRefused(r)

RecoveryFairness ==
  \A r \in Reconcilers :
    /\ WF_vars(GoesOn(r)) /\ SF_vars(Finishes(r))
    /\ \A e \in Effects : SF_vars(StartsRecovery(r, e)) /\ SF_vars(SeesTransfer(r, e))

-----------------------------------------------------------------------------
\* The shape of the state; in particular, the mission and effect states that
\* no process ever writes.
TypeOK ==
  /\ mission \in Mission
  /\ fresh \subseteq Reconcilers \cup Effects
  /\ acknowledged \subseteq Effects
  /\ chain \in [Effects -> {"none", "recent", "confirmed"}]
  /\ \A r \in Reconcilers :
       /\ job[r].at \in {"idle", "load", "observe"} \cup MissionLabels \cup AttemptLabels
       /\ job[r].seen \in Mission \cup {None}
       /\ r \in fresh => job[r].seen = mission

\* A verified attempt always has its confirmed effect: the two databases are
\* written in that order, so no crash can leave the journal ahead of the
\* mission (execution_reconciliation.py, "Safety ordering").
VerifiedIsConfirmed ==
  \A e \in Effects :
    attempts[e].state = "VERIFIED" => mission.effects[e] = "CHAIN_CONFIRMED"

\* A confirmed effect was asked for once and is deep in the chain.  It needs
\* effects whose terms differ and a wallet nobody else uses.
ConfirmedWasPaid ==
  \A e \in DOMAIN mission.effects :
    mission.effects[e] = "CHAIN_CONFIRMED" =>
      posts[e] = 1 /\ chain[e] = "confirmed"

\* A completed mission has paid every one of its effects.
CompletedIsPaid ==
  mission.state = "COMPLETED" =>
    \A e \in Effects : posts[e] = 1 /\ chain[e] = "confirmed"

\* When no attempt is left to reconcile, the mission says so.  The mission is
\* completed by whoever sees the last confirmation, before its attempt leaves
\* the recovery candidates, however reconcilers overwrite each other's state.
AllVerifiedIsCompleted ==
  (\A e \in Effects : attempts[e].state = "VERIFIED") =>
    mission.state = "COMPLETED"

\* A confirmed effect is never sent again (docs/STATE_MACHINES.md, restart
\* matrix: "effect confirmed, attempt not verified", forbidden: "send again").
ConfirmedIsNotSent ==
  [][\A e \in Effects :
       mission.effects[e] = "CHAIN_CONFIRMED" => posts'[e] = posts[e]]_vars

\* Two effects on the same terms are not interchangeable: a transfer confirms
\* one of them (docs/MISSION_RESILIENCE_LAB.md).
EachConfirmationHasItsTransfer ==
  Cardinality({e \in Effects : mission.effects[e] = "CHAIN_CONFIRMED"}) <=
    Cardinality({e \in Effects : chain[e] = "confirmed"})

\* A payment that is deep in the chain is eventually recorded, or somebody is
\* told: no crash or lost revision leaves it in doubt for ever.
ConfirmedIsRecorded ==
  \A e \in Effects :
    chain[e] = "confirmed" ~>
      \/ attempts[e].state = "VERIFIED" /\ mission.effects[e] = "CHAIN_CONFIRMED"
      \/ attempts[e].state = "BLOCKED"
      \/ mission.state = "MANUAL_REVIEW_REQUIRED"

\* The composition leaves the dispatch layer what ExecutionDispatch assumes of
\* its environment, so what is proved there holds here.
RefinesDispatch == Dispatch!Spec
=============================================================================
