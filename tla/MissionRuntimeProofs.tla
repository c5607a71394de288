------------------------- MODULE MissionRuntimeProofs -------------------------
(***************************************************************************)
(* Proofs about MissionRuntime, for any numbers of effects, plans,         *)
(* dispatchers and reconcilers.  The invariants are stated for a mission   *)
(* over any of the effects, its scope: MissionRuntime's mission is over    *)
(* all of them, those of OperatorMission over the ones their tool pays.    *)
(***************************************************************************)
EXTENDS MissionRuntime, TLAPS

\* What is proved of ExecutionDispatch, for the variables of this module.
DispatchFacts == INSTANCE ExecutionDispatchProofs WITH dispatchable <- Dispatchable

(***************************************************************************)
(* The inductive invariant.  A job at a label that still needs its mission *)
(* snapshot has one, perhaps old; what it shows as confirmed is confirmed. *)
(***************************************************************************)
MissionOver(S) == [state : ReachedMissionStates, effects : [S -> ReachedEffectStates]]

SomeMission == UNION {MissionOver(S) : S \in SUBSET Effects}

Scope == DOMAIN mission.effects

\* The missions over the effects of mission n.
Like(n) == MissionOver(DOMAIN n.effects)

Snapshotted == MissionLabels \cup {"observe", "block"}

Targets ==
  {"RECONCILING", "READY_FOR_EXECUTION", "COMPLETED", "MANUAL_REVIEW_REQUIRED",
   "RESERVED", "SUBMITTED", "CHAIN_CONFIRMED", "EXECUTION_UNKNOWN", "VERIFIED",
   "BLOCKED", None}

Job ==
  [at : {"idle", "load", "observe"} \cup MissionLabels \cup AttemptLabels,
   effect  : Effects \cup {None},
   attempt : DispatchFacts!Attempt \cup {DispatchFacts!Absent, None},
   seen    : SomeMission \cup {None},
   target  : Targets]

\* What snapshot m shows as confirmed is confirmed in the current mission n.
Precedes(m, n) ==
  \A e \in DOMAIN n.effects :
    m.effects[e] = "CHAIN_CONFIRMED" => n.effects[e] = "CHAIN_CONFIRMED"

JobOK(j, n) ==
  /\ j \in Job
  /\ j.at # "idle" => j.effect \in DOMAIN n.effects
  /\ j.seen \in Like(n) \cup {None}
  /\ j.at \in Snapshotted => j.seen \in Like(n) /\ Precedes(j.seen, n)
  /\ j.at \in {"enter", "reopen"} => j.target = "RECONCILING"
  /\ j.at = "review" => j.target = "MANUAL_REVIEW_REQUIRED"
  /\ j.at = "finish" => j.target \in {"READY_FOR_EXECUTION", "COMPLETED"}
  /\ j.at = "step" => j.target \in {"RESERVED", "SUBMITTED", "CHAIN_CONFIRMED"}
  /\ j.at = "unknown" => j.target = "EXECUTION_UNKNOWN"
  /\ j.at = "verify" => j.target = "VERIFIED"
  /\ j.at = "block" => j.target = "BLOCKED"
  /\ j.at \in {"finish", "verify"} => n.effects[j.effect] = "CHAIN_CONFIRMED"

\* Job k is what job j goes on with: nothing, or something for the same effect
\* with the mission snapshot m or none.
Follows(k, j, m, n) ==
  /\ JobOK(k, n)
  /\ k.seen \in {None, m}
  /\ k = NoJob \/ k.effect = j.effect

CompletedIsConfirmed ==
  mission.state = "COMPLETED" =>
    \A e \in Scope : mission.effects[e] = "CHAIN_CONFIRMED"

\* VerifiedIsConfirmed, for a mission over some of the effects.
VerifiedInScope ==
  \A e \in Effects :
    attempts[e].state = "VERIFIED" =>
      e \in Scope /\ mission.effects[e] = "CHAIN_CONFIRMED"

JobsInv ==
  /\ job \in [Reconcilers -> Job]
  /\ \A r \in Reconcilers : JobOK(job[r], mission)
  /\ fresh \subseteq Reconcilers \cup Effects
  /\ \A r \in Reconcilers : r \in fresh => job[r].seen = mission

RuntimeInv ==
  /\ mission \in SomeMission
  /\ acknowledged \subseteq Effects
  /\ chain \in [Effects -> {"none", "recent", "confirmed"}]
  /\ JobsInv
  /\ CompletedIsConfirmed
  /\ VerifiedInScope
-----------------------------------------------------------------------------
\* The transition tables, as far as the proofs need them.
LEMMA MissionTable ==
  /\ MissionSuccessors["COMPLETED"] = {}
  /\ \A s \in ReachedMissionStates : s \in MissionStates
BY DEF MissionSuccessors, MissionStates, ReachedMissionStates

LEMMA EffectTable ==
  /\ EffectSuccessors["CHAIN_CONFIRMED"] = {}
  /\ ReachedEffectStates \subseteq EffectStates
BY DEF EffectSuccessors, EffectStates, ReachedEffectStates

LEMMA Missions ==
  /\ \A n \in SomeMission : n \in Like(n) /\ DOMAIN n.effects \subseteq Effects
  /\ \A n \in SomeMission : \A m \in Like(n) :
       m \in SomeMission /\ DOMAIN m.effects = DOMAIN n.effects /\ Like(m) = Like(n)
  /\ \A n \in SomeMission :
       /\ n = [state |-> n.state, effects |-> n.effects]
       /\ n.state \in ReachedMissionStates
       /\ \A e \in DOMAIN n.effects : n.effects[e] \in ReachedEffectStates
<1>1. ASSUME NEW n \in SomeMission
      PROVE  n \in Like(n) /\ DOMAIN n.effects \subseteq Effects
  BY DEF SomeMission, MissionOver, Like
<1>2. ASSUME NEW n \in SomeMission, NEW m \in Like(n)
      PROVE  m \in SomeMission /\ DOMAIN m.effects = DOMAIN n.effects /\ Like(m) = Like(n)
  <2>1. DOMAIN m.effects = DOMAIN n.effects
    BY DEF Like, MissionOver
  <2> QED
    BY <1>1, <2>1 DEF Like, SomeMission
<1> QED
  BY <1>1, <1>2 DEF Like, MissionOver

LEMMA MissionIsSome == Mission = MissionOver(Effects) /\ Mission \subseteq SomeMission
BY DEF Mission, MissionOver, SomeMission

LEMMA IdleJob == \A n, m, j : Follows(NoJob, j, m, n)
BY DEF Follows, JobOK, NoJob, Job, Targets, Snapshotted, MissionLabels, AttemptLabels

\* The two ways to go on.
LEMMA GoesOnWithMission ==
  ASSUME NEW n \in SomeMission, NEW m \in Like(n), Precedes(m, n), NEW j \in Job,
         j.effect \in DOMAIN n.effects, NEW at, NEW target,
         \/ at \in {"enter", "reopen"} /\ target = "RECONCILING"
         \/ at = "review" /\ target = "MANUAL_REVIEW_REQUIRED"
         \/ at = "step" /\ target \in {"RESERVED", "SUBMITTED", "CHAIN_CONFIRMED"}
         \/ /\ at = "finish" /\ target \in {"READY_FOR_EXECUTION", "COMPLETED"}
            /\ n.effects[j.effect] = "CHAIN_CONFIRMED"
         \/ at = "observe" /\ target = None
  PROVE  Follows(OnMission(j, m, at, target), j, m, n)
<1> DEFINE k == OnMission(j, m, at, target)
<1>1. at \in Snapshotted /\ target \in Targets
  BY DEF Snapshotted, MissionLabels, Targets
<1>2. /\ k \in Job /\ k.effect = j.effect /\ k.seen = m
      /\ k.at = at /\ k.target = target
  <2>1. m \in SomeMission
    BY Missions
  <2> QED
    BY <1>1, <2>1 DEF OnMission, Job, Snapshotted
<1>3. JobOK(k, n)
  BY <1>1, <1>2 DEF JobOK
<1> QED
  BY <1>2, <1>3 DEF Follows

LEMMA GoesOnWithAttempt ==
  ASSUME NEW n, NEW m, NEW j \in Job, j.effect \in DOMAIN n.effects, NEW at, NEW target,
         \/ at = "unknown" /\ target = "EXECUTION_UNKNOWN"
         \/ /\ at = "verify" /\ target = "VERIFIED"
            /\ n.effects[j.effect] = "CHAIN_CONFIRMED"
         \/ /\ at = "block" /\ target = "BLOCKED"
            /\ j.seen \in Like(n) /\ Precedes(j.seen, n),
         j.seen \in {None, m}, j.seen \in Like(n) \cup {None}
  PROVE  Follows(OnAttempt(j, at, target), j, m, n)
<1> DEFINE k == OnAttempt(j, at, target)
<1>1. at \in AttemptLabels /\ target \in Targets
  BY DEF AttemptLabels, Targets
<1>2. /\ k \in Job /\ k.effect = j.effect /\ k.seen = j.seen
      /\ k.at = at /\ k.target = target
  BY <1>1 DEF OnAttempt, Job
<1>3. JobOK(k, n)
  BY <1>1, <1>2 DEF JobOK, Snapshotted, MissionLabels
<1> QED
  BY <1>2, <1>3 DEF Follows

LEMMA Forgets ==
  ASSUME NEW j \in Job
  PROVE  LET k == [j EXCEPT !.seen = None]
         IN  k \in Job /\ k.effect = j.effect /\ k.seen = None
BY DEF Job

(***************************************************************************)
(* What each decision of a reconciler leads to, n being the mission.       *)
(***************************************************************************)
LEMMA UnknownOK ==
  ASSUME NEW n, NEW m, NEW j \in Job, j.effect \in DOMAIN n.effects
  PROVE  Follows(MarkingUnknown(j), j, m, n)
<1> DEFINE k == [j EXCEPT !.seen = None]
<1>1. Follows(OnAttempt(k, "unknown", "EXECUTION_UNKNOWN"), k, m, n)
  BY Forgets, GoesOnWithAttempt
<1> QED
  BY <1>1, Forgets, IdleJob DEF MarkingUnknown, Follows

LEMMA VerifiedOK ==
  ASSUME NEW n, NEW m, NEW j \in Job, j.effect \in DOMAIN n.effects,
         n.effects[j.effect] = "CHAIN_CONFIRMED"
  PROVE  Follows(MarkingVerified(j), j, m, n)
<1> DEFINE k == [j EXCEPT !.seen = None]
<1>1. Follows(OnAttempt(k, "verify", "VERIFIED"), k, m, n)
  BY Forgets, GoesOnWithAttempt
<1> QED
  BY <1>1, Forgets, IdleJob DEF MarkingVerified, Follows

LEMMA ReviewOK ==
  ASSUME NEW n \in SomeMission, NEW m \in Like(n), Precedes(m, n), NEW j \in Job,
         j.effect \in DOMAIN n.effects
  PROVE  Follows(Reviewing(j, m), j, m, n)
BY GoesOnWithMission, IdleJob DEF Reviewing

LEMMA BlockOK ==
  ASSUME NEW n \in SomeMission, NEW j \in Job, j.effect \in DOMAIN n.effects,
         j.seen \in Like(n), Precedes(j.seen, n)
  PROVE  Follows(Blocking(j), j, j.seen, n)
BY GoesOnWithAttempt, ReviewOK DEF Blocking

LEMMA FinishOK ==
  ASSUME NEW n \in SomeMission, NEW m \in Like(n), Precedes(m, n), NEW j \in Job,
         j.effect \in DOMAIN n.effects,
         m.effects[j.effect] = "CHAIN_CONFIRMED"
  PROVE  Follows(Finishing(j, m), j, m, n)
<1>1. n.effects[j.effect] = "CHAIN_CONFIRMED"
  BY DEF Precedes
<1>2. ASSUME NEW target \in {"READY_FOR_EXECUTION", "COMPLETED"}
      PROVE  Follows(OnMission(j, m, "finish", target), j, m, n)
  BY <1>1, GoesOnWithMission
<1> QED
  BY <1>1, <1>2, VerifiedOK DEF Finishing

LEMMA StepOK ==
  ASSUME NEW n \in SomeMission, NEW m \in Like(n), Precedes(m, n), NEW j \in Job,
         j.effect \in DOMAIN n.effects
  PROVE  Follows(Stepping(j, m), j, m, n)
<1>1. m.effects[j.effect] \in {"PLANNED", "RESERVED", "SUBMITTED", "CHAIN_CONFIRMED"}
  BY DEF Like, MissionOver, ReachedEffectStates
<1>2. ASSUME NEW target \in {"RESERVED", "SUBMITTED", "CHAIN_CONFIRMED"}
      PROVE  Follows(OnMission(j, m, "step", target), j, m, n)
  BY GoesOnWithMission
<1> QED
  BY <1>1, <1>2, FinishOK DEF Stepping

LEMMA ProjectOK ==
  ASSUME NEW n \in SomeMission, NEW m \in Like(n), Precedes(m, n), NEW j \in Job,
         j.effect \in DOMAIN n.effects
  PROVE  Follows(Projecting(j, m), j, m, n)
<1>1. Follows(OnMission(j, m, "enter", "RECONCILING"), j, m, n)
  BY GoesOnWithMission
<1> QED
  BY <1>1, StepOK, IdleJob DEF Projecting

LEMMA EvidenceOK ==
  ASSUME NEW n \in SomeMission, NEW t, NEW j \in Job, j.effect \in DOMAIN n.effects,
         j.seen \in Like(n), Precedes(j.seen, n)
  PROVE  Follows(Evidence(j, t), j, j.seen, n)
<1>1. t.terms # Terms[j.effect] \/ (t.terms = Terms[j.effect] /\ ~t.deep)
        \/ (t.terms = Terms[j.effect] /\ t.deep)
  OBVIOUS
<1> QED
  BY <1>1, BlockOK, UnknownOK, ReviewOK, ProjectOK DEF Evidence

\* A job that goes on after its mission operation was done, here or elsewhere.
LEMMA AfterMissionOK ==
  ASSUME NEW n \in SomeMission, NEW j \in Job, j.effect \in DOMAIN n.effects,
         j.at \in MissionLabels,
         j.at = "finish" => n.effects[j.effect] = "CHAIN_CONFIRMED"
  PROVE  Follows(AfterMission(j, n), j, n, n)
<1>1. Precedes(n, n) /\ n \in Like(n)
  BY Missions DEF Precedes
<1> QED
  BY <1>1, StepOK, VerifiedOK, ReviewOK, IdleJob DEF AfterMission, MissionLabels

LEMMA AfterAttemptOK ==
  ASSUME NEW n \in SomeMission, NEW j, JobOK(j, n), j.at \in AttemptLabels
  PROVE  Follows(AfterAttempt(j), j, j.seen, n)
BY ReviewOK, IdleJob DEF AfterAttempt, JobOK, AttemptLabels, Snapshotted, MissionLabels
-----------------------------------------------------------------------------
\* Every step of the runtime is a step of ExecutionDispatch, or none.
LEMMA StepsDispatch ==
  ASSUME RuntimeInv, [Next]_vars, mission' \in SomeMission
  PROVE  Dispatch!Next \/ UNCHANGED Dispatch!vars
<1> DEFINE Quiet == UNCHANGED <<attempts, references, posts, provider, pc, call>>
<1>1. Quiet => Dispatch!MissionMoves
  BY Missions DEF Dispatch!MissionMoves, Dispatchable, Dispatch!durable, Dispatch!wire,
         Dispatch!volatile
<1>2. CASE PrepareReconciling \/ PrepareReady \/ \E e \in Effects : Advance(e)
  BY <1>1, <1>2 DEF PrepareReconciling, PrepareReady, Prepare, Advance, dispatch, Dispatch!Next
<1>3. ASSUME NEW d \in Dispatchers, DispatcherActs(d)
      PROVE  Dispatch!Next
  BY <1>3 DEF DispatcherActs, Dispatch!Next
<1>4. ASSUME NEW e \in Effects, NEW c \in Contents, SimulationPrepares(e, c)
      PROVE  Dispatch!Next
  BY <1>4 DEF SimulationPrepares, Dispatch!Next
<1>5. CASE ProviderActs
  BY <1>5 DEF ProviderActs, Dispatch!Next
<1>6. ASSUME NEW e \in Effects, TransferAppears(e) \/ TransferConfirmed(e)
      PROVE  Dispatch!Next
  BY <1>1, <1>6 DEF TransferAppears, TransferConfirmed, dispatch, Dispatch!Next
<1>7. ASSUME NEW r \in Reconcilers, ReconcilerActs(r)
      PROVE  Dispatch!Next
  <2>1. CASE WriteReconciledAttempt(r)
    <3>1. job[r].effect \in Effects /\ job[r].target \in Dispatch!ReconcilerTargets
      BY <2>1, Missions DEF RuntimeInv, JobsInv, JobOK, WriteReconciledAttempt,
                  AttemptLabels, Dispatch!ReconcilerTargets
    <3> QED
      BY <2>1, <3>1 DEF WriteReconciledAttempt, Dispatch!Next
  <2>2. CASE Quiet
    BY <1>1, <2>2 DEF Dispatch!Next
  <2>3. ReconcilerActs(r) => WriteReconciledAttempt(r) \/ Quiet
    BY DEF ReconcilerActs, LoadAttempt, LoadMission, ObserveNothing, ObserveTransfer,
           WriteMission, RereadMission, RereadAttempt, MoveRefused, ReconcilerStops, dispatch
  <2> QED
    BY <1>7, <2>1, <2>2, <2>3
<1>8. CASE UNCHANGED vars
  BY <1>8 DEF vars, dispatch, Dispatchable, Dispatch!vars
<1> QED
  BY <1>2, <1>3, <1>4, <1>5, <1>6, <1>7, <1>8 DEF Next
-----------------------------------------------------------------------------
LEMMA RuntimeInit == Init => RuntimeInv
<1> SUFFICES ASSUME Init PROVE RuntimeInv
  OBVIOUS
<1>1. mission \in SomeMission
  BY MissionIsSome DEF Init, Mission, ReachedMissionStates, ReachedEffectStates
<1>2. job \in [Reconcilers -> Job] /\ \A r \in Reconcilers : JobOK(job[r], mission)
  <2>1. JobOK(NoJob, mission)
    BY IdleJob DEF Follows
  <2> QED
    BY <2>1 DEF Init, JobOK
<1>3. VerifiedInScope
  BY DEF Init, VerifiedInScope, Dispatch!Init, Dispatch!Absent
<1> QED
  BY <1>1, <1>2, <1>3 DEF Init, RuntimeInv, JobsInv, CompletedIsConfirmed

LEMMA StillOK ==
  ASSUME NEW j, NEW m \in SomeMission, NEW n \in Like(m), JobOK(j, m), Precedes(m, n)
  PROVE  JobOK(j, n)
<1>1. DOMAIN n.effects = DOMAIN m.effects /\ Like(n) = Like(m)
  BY Missions
<1> QED
  BY <1>1 DEF JobOK, Precedes, Snapshotted

\* What is known of a reconciler's job.
LEMMA JobFacts ==
  ASSUME RuntimeInv, NEW r \in Reconcilers
  PROVE  /\ mission \in SomeMission /\ mission \in Like(mission)
         /\ Scope \subseteq Effects
         /\ JobOK(job[r], mission) /\ job[r] \in Job
         /\ job[r].at # "idle" =>
              job[r].effect \in DOMAIN mission.effects /\ job[r].effect \in Effects
         /\ job[r].at \in Snapshotted =>
              job[r].seen \in Like(mission) /\ Precedes(job[r].seen, mission)
         /\ r \in fresh => job[r].seen = mission
BY Missions DEF RuntimeInv, JobsInv, JobOK, Scope

LEMMA MissionFacts ==
  ASSUME RuntimeInv
  PROVE  /\ mission \in SomeMission /\ mission \in Like(mission)
         /\ Scope \subseteq Effects
         /\ \A n \in Like(mission) :
              n \in SomeMission /\ DOMAIN n.effects = Scope /\ Like(n) = Like(mission)
BY Missions DEF RuntimeInv, Scope

\* A reconciler that goes on with j, over whatever its store operation did.
LEMMA Proceeding ==
  ASSUME RuntimeInv, NEW r \in Reconcilers, NEW j, NEW m,
         NEW current \in SUBSET (Reconcilers \cup Effects),
         Proceed(r, j, current),
         mission' \in Like(mission), Precedes(mission, mission'),
         Follows(j, job[r], m, mission'),
         r \in current => m = mission',
         \A q \in Reconcilers \ {r} : q \in current => job[q].seen = mission'
  PROVE  JobsInv'
<1>1. job' = [job EXCEPT ![r] = j] /\ j \in Job
  BY DEF Proceed, Follows, JobOK
<1>2. job' \in [Reconcilers -> Job]
  BY <1>1 DEF RuntimeInv, JobsInv
<1>3. \A q \in Reconcilers : job'[q] = IF q = r THEN j ELSE job[q]
  BY <1>1 DEF RuntimeInv, JobsInv
<1>4. \A q \in Reconcilers : JobOK(job'[q], mission')
  BY <1>3, MissionFacts, StillOK DEF RuntimeInv, JobsInv, Follows
<1>5. fresh' \subseteq Reconcilers \cup Effects
  BY DEF Proceed
<1>6. ASSUME NEW q \in Reconcilers, q \in fresh' PROVE job'[q].seen = mission'
  <2>1. CASE q = r
    <3>1. r \in current /\ j.seen # None
      BY <1>6, <2>1 DEF Proceed
    <3> QED
      BY <3>1, <2>1, <1>3 DEF Follows
  <2>2. CASE q # r
    <3>1. q \in current
      BY <1>6, <2>2 DEF Proceed
    <3> QED
      BY <3>1, <2>2, <1>3
  <2> QED
    BY <2>1, <2>2
<1> QED
  BY <1>2, <1>4, <1>5, <1>6 DEF JobsInv, JobOK

\* Somebody else writes the mission: no reconciler's snapshot is current.
LEMMA Overtaken ==
  ASSUME RuntimeInv, UNCHANGED job, mission' \in Like(mission),
         Precedes(mission, mission'), fresh' \subseteq Effects
  PROVE  JobsInv'
<1>1. \A r \in Reconcilers : r \notin fresh'
  BY RuntimeAssumption
<1> QED
  BY <1>1, MissionFacts, StillOK DEF RuntimeInv, JobsInv, JobOK

LEMMA PrepareKeeps ==
  ASSUME RuntimeInv, PrepareReconciling \/ PrepareReady
  PROVE  RuntimeInv'
<1>1. PICK target \in {"RECONCILING", "READY_FOR_EXECUTION"} :
        /\ mission' = [mission EXCEPT !.state = target]
        /\ fresh' = {}
        /\ UNCHANGED <<acknowledged, job, chain, dispatch>>
  BY DEF PrepareReconciling, PrepareReady, Prepare
<1>2. mission' \in Like(mission) /\ mission'.effects = mission.effects /\ mission'.state = target
  BY <1>1, MissionFacts DEF Like, MissionOver, ReachedMissionStates
<1>3. Precedes(mission, mission')
  BY <1>2 DEF Precedes
<1> QED
  BY <1>1, <1>2, <1>3, MissionFacts, Overtaken
  DEF RuntimeInv, CompletedIsConfirmed, VerifiedInScope, Scope, dispatch

\* What a follow-up may do to the mission: it never confirms anything.
LEMMA AdvanceShape ==
  ASSUME RuntimeInv, NEW e \in Scope, Advance(e)
  PROVE  \/ mission' = mission
         \/ /\ mission' \in Like(mission)
            /\ mission.state \notin {"COMPLETED"} /\ mission'.state \in {"EXECUTING", "VERIFYING"}
            /\ mission'.effects = mission.effects
         \/ /\ mission' \in Like(mission) /\ mission'.state = mission.state
            /\ \A f \in Scope : f # e => mission'.effects[f] = mission.effects[f]
            /\ mission.effects[e] # "CHAIN_CONFIRMED"
<1>0. mission' = Advanced(mission, e)
  BY DEF Advance
<1>1. mission.state = "READY_FOR_EXECUTION" =>
        /\ mission' = [mission EXCEPT !.state = "EXECUTING"]
  BY <1>0 DEF Advanced
<1>2. CASE mission.state = "READY_FOR_EXECUTION"
  BY <1>1, <1>2, MissionFacts DEF Like, MissionOver, ReachedMissionStates
<1>3. CASE mission.state # "READY_FOR_EXECUTION" /\ mission.effects[e] = "PLANNED"
  <2>1. mission' = [mission EXCEPT !.effects[e] = "RESERVED"]
    BY <1>0, <1>3 DEF Advanced
  <2> QED
    BY <2>1, <1>3, MissionFacts DEF Like, MissionOver, ReachedEffectStates, Scope
<1>4. CASE mission.state # "READY_FOR_EXECUTION" /\ mission.effects[e] = "RESERVED"
  <2>1. mission' = [mission EXCEPT !.effects[e] = "SUBMITTED"]
    BY <1>0, <1>4 DEF Advanced
  <2> QED
    BY <2>1, <1>4, MissionFacts DEF Like, MissionOver, ReachedEffectStates, Scope
<1>5. CASE /\ mission.state # "READY_FOR_EXECUTION"
           /\ mission.effects[e] \notin {"PLANNED", "RESERVED"}
  <2>1. mission' = IF mission.state = "EXECUTING"
                   THEN [mission EXCEPT !.state = "VERIFYING"] ELSE mission
    BY <1>0, <1>5 DEF Advanced
  <2> QED
    BY <2>1, MissionFacts DEF Like, MissionOver, ReachedMissionStates
<1> QED
  BY <1>2, <1>3, <1>4, <1>5

LEMMA AdvanceKeeps ==
  ASSUME RuntimeInv, NEW e \in Scope, Advance(e)
  PROVE  RuntimeInv'
<1>1. /\ mission' = Advanced(mission, e)
      /\ fresh' = IF mission' = mission THEN fresh \ {e} ELSE {e}
      /\ acknowledged' = acknowledged \ {e}
      /\ UNCHANGED <<job, chain, dispatch>>
  BY DEF Advance
<1>2. \/ mission' = mission
      \/ /\ mission' \in Like(mission)
         /\ mission.state \notin {"COMPLETED"} /\ mission'.state \in {"EXECUTING", "VERIFYING"}
         /\ mission'.effects = mission.effects
      \/ /\ mission' \in Like(mission) /\ mission'.state = mission.state
         /\ \A f \in Scope : f # e => mission'.effects[f] = mission.effects[f]
         /\ mission.effects[e] # "CHAIN_CONFIRMED"
  BY AdvanceShape
<1>3. mission' \in Like(mission) /\ Precedes(mission, mission') /\ CompletedIsConfirmed'
  BY <1>2, MissionFacts DEF RuntimeInv, Precedes, CompletedIsConfirmed, Scope
<1>4. VerifiedInScope'
  BY <1>1, <1>3, MissionFacts DEF RuntimeInv, VerifiedInScope, Scope, Precedes, dispatch
<1>5. JobsInv'
  <2>1. CASE mission' = mission
    BY <1>1, <2>1 DEF RuntimeInv, JobsInv, JobOK
  <2>2. CASE mission' # mission
    BY <1>1, <1>3, <2>2, MissionFacts, Overtaken
  <2> QED
    BY <2>1, <2>2
<1> QED
  BY <1>1, <1>3, <1>4, <1>5, MissionFacts DEF RuntimeInv

\* Only a reconciler writes VERIFIED.
LEMMA WriteElse ==
  ASSUME DispatchFacts!TypeOK, NEW e \in Effects, NEW x, NEW target, target # "VERIFIED",
         Dispatch!WriteAttempt(x, target), attempts'[e].state = "VERIFIED"
  PROVE  attempts[e].state = "VERIFIED"
BY DEF DispatchFacts!TypeOK, Dispatch!WriteAttempt, Dispatch!Moved

LEMMA CreateElse ==
  ASSUME DispatchFacts!TypeOK, NEW e \in Effects, NEW x, NEW c,
         attempts' = [attempts EXCEPT ![x] = Dispatch!NewAttempt(c)],
         attempts'[e].state = "VERIFIED"
  PROVE  attempts[e].state = "VERIFIED"
BY DEF DispatchFacts!TypeOK, Dispatch!NewAttempt

LEMMA NobodyElseVerifies ==
  ASSUME DispatchFacts!TypeOK, NEW e \in Effects,
         \/ \E d \in Dispatchers : Dispatch!DispatcherStep(d)
         \/ \E x \in Effects, c \in Contents : Dispatch!PrepareAttempt(x, c)
         \/ Dispatch!ProviderStep,
         attempts'[e].state = "VERIFIED"
  PROVE  attempts[e].state = "VERIFIED"
<1>1. CASE UNCHANGED attempts
  BY <1>1
<1>2. ASSUME NEW d \in Dispatchers, Dispatch!DispatcherStep(d)
      PROVE  attempts[e].state = "VERIFIED"
  <2>1. CASE Dispatch!CreateAttempt(d)
    <3>1. \/ attempts' = [attempts EXCEPT ![call[d].effect] =
                            Dispatch!NewAttempt(call[d].content)]
          \/ UNCHANGED attempts
      BY <2>1 DEF Dispatch!CreateAttempt
    <3> QED
      BY <1>1, <3>1, CreateElse
  <2>2. CASE Dispatch!ClaimAttempt(d)
    <3>1. \/ Dispatch!WriteAttempt(call[d].effect, "IN_FLIGHT")
          \/ UNCHANGED attempts
      BY <2>2 DEF Dispatch!ClaimAttempt
    <3> QED
      BY <1>1, <3>1, WriteElse
  <2>3. ASSUME NEW label, NEW target, target # "VERIFIED",
               Dispatch!RecordOutcome(d, label, target)
        PROVE  attempts[e].state = "VERIFIED"
    BY <1>1, <2>3, WriteElse DEF Dispatch!RecordOutcome
  <2>4. CASE Dispatch!Acknowledge(d) \/ Dispatch!RejectFinal(d)
    BY <2>3, <2>4 DEF Dispatch!Acknowledge, Dispatch!RejectFinal
  <2>5. CASE Dispatch!MarkUnknown(d)
    BY <1>1, <2>5, WriteElse DEF Dispatch!MarkUnknown
  <2> QED
    BY <1>1, <1>2, <2>1, <2>2, <2>4, <2>5
    DEF Dispatch!DispatcherStep, Dispatch!Begin, Dispatch!CheckReference,
        Dispatch!RefuseToSend, Dispatch!RejectUnsent, Dispatch!Send, Dispatch!ReceiveAccepted,
        Dispatch!ReceiveRejected, Dispatch!LoseAnswer, Dispatch!PersistReference,
        Dispatch!StoreFails, Dispatch!Crash, Dispatch!durable
<1>3. CASE \E x \in Effects, c \in Contents : Dispatch!PrepareAttempt(x, c)
  BY <1>3, CreateElse DEF Dispatch!PrepareAttempt
<1>4. CASE Dispatch!ProviderStep
  BY <1>1, <1>4 DEF Dispatch!ProviderStep, Dispatch!ProviderDecides, Dispatch!durable
<1> QED
  BY <1>2, <1>3, <1>4

LEMMA DispatchKeeps ==
  ASSUME RuntimeInv, DispatchFacts!TypeOK,
         \/ \E d \in Dispatchers : DispatcherActs(d)
         \/ \E e \in Effects, c \in Contents : SimulationPrepares(e, c)
         \/ ProviderActs
  PROVE  RuntimeInv'
<1>1. /\ UNCHANGED <<mission, fresh, job, chain>>
      /\ acknowledged' \subseteq Effects
  BY DEF DispatcherActs, SimulationPrepares, ProviderActs, RuntimeInv
<1>2. \/ \E d \in Dispatchers : Dispatch!DispatcherStep(d)
      \/ \E x \in Effects, c \in Contents : Dispatch!PrepareAttempt(x, c)
      \/ Dispatch!ProviderStep
  BY DEF DispatcherActs, SimulationPrepares, ProviderActs
<1>3. \A e \in Effects : attempts'[e].state = "VERIFIED" => attempts[e].state = "VERIFIED"
  BY <1>2, NobodyElseVerifies
<1> QED
  BY <1>1, <1>3 DEF RuntimeInv, JobsInv, JobOK, CompletedIsConfirmed, VerifiedInScope, Scope

LEMMA ChainKeeps ==
  ASSUME RuntimeInv, NEW e \in Effects, TransferAppears(e) \/ TransferConfirmed(e)
  PROVE  RuntimeInv'
<1>1. /\ UNCHANGED <<mission, fresh, acknowledged, job, attempts>>
      /\ chain' \in [Effects -> {"none", "recent", "confirmed"}]
  BY DEF TransferAppears, TransferConfirmed, RuntimeInv, dispatch
<1> QED
  BY <1>1 DEF RuntimeInv, JobsInv, JobOK, CompletedIsConfirmed, VerifiedInScope, Scope

\* A step of a reconciler that writes neither store.
LEMMA QuietReconciler ==
  ASSUME RuntimeInv, UNCHANGED <<mission, acknowledged, chain, attempts>>, JobsInv'
  PROVE  RuntimeInv'
BY DEF RuntimeInv, CompletedIsConfirmed, VerifiedInScope, Scope

LEMMA LoadKeeps ==
  ASSUME RuntimeInv, DispatchFacts!TypeOK, NEW r \in Reconcilers, NEW e \in Scope,
         LoadAttempt(r, e)
  PROVE  RuntimeInv'
<1> DEFINE j == [NoJob EXCEPT !.at = "load", !.effect = e, !.attempt = attempts[e]]
<1>1. e \in Effects /\ attempts[e] \in DispatchFacts!Attempt \cup {DispatchFacts!Absent}
  BY MissionFacts DEF DispatchFacts!TypeOK
<1>2. j \in Job /\ j.effect = e /\ j.at = "load" /\ j.seen = None
  BY <1>1 DEF Job, NoJob, Targets
<1>3. JobOK(j, mission)
  BY <1>2 DEF JobOK, Snapshotted, MissionLabels, Scope
<1>4. /\ job[r] = NoJob /\ job' = [job EXCEPT ![r] = j]
      /\ UNCHANGED <<mission, fresh, acknowledged, chain, attempts>>
  BY DEF LoadAttempt, dispatch
<1>5. JobsInv'
  <2>1. \A q \in Reconcilers : job'[q] = IF q = r THEN j ELSE job[q]
    BY <1>4 DEF RuntimeInv, JobsInv
  <2>2. job' \in [Reconcilers -> Job]
    BY <1>2, <1>4 DEF RuntimeInv, JobsInv
  <2>3. \A q \in Reconcilers : JobOK(job'[q], mission')
    <3>1. \A q \in Reconcilers : JobOK(job'[q], mission)
      BY <1>3, <2>1 DEF RuntimeInv, JobsInv
    <3>2. mission' = mission
      BY <1>4
    <3> QED
      BY <3>1, <3>2
  <2>4. \A q \in Reconcilers : q \in fresh' => job'[q].seen = mission'
    BY <1>2, <1>4, <2>1 DEF RuntimeInv, JobsInv, NoJob
  <2> QED
    BY <1>4, <2>2, <2>3, <2>4 DEF RuntimeInv, JobsInv, JobOK
<1> QED
  BY <1>4, <1>5, QuietReconciler

LEMMA LoadMissionKeeps ==
  ASSUME RuntimeInv, NEW r \in Reconcilers, LoadMission(r)
  PROVE  RuntimeInv'
<1> DEFINE j == job[r]
           k == OnMission(j, mission, "observe", None)
<1>1. /\ j \in Job /\ j.effect \in DOMAIN mission.effects
      /\ mission \in SomeMission /\ mission \in Like(mission) /\ Precedes(mission, mission)
  BY JobFacts DEF LoadMission, Precedes
<1>2. UNCHANGED <<mission, acknowledged, chain, attempts>>
  BY DEF LoadMission, dispatch
<1>3. Follows(k, j, mission, mission) /\ Follows(NoJob, j, mission, mission)
  BY <1>1, GoesOnWithMission, IdleJob
<1>4. Proceed(r, NoJob, fresh \cup {r}) \/ Proceed(r, k, fresh \cup {r})
  BY DEF LoadMission
<1>5. fresh \cup {r} \in SUBSET (Reconcilers \cup Effects)
  BY DEF RuntimeInv, JobsInv
<1>6. \A q \in Reconcilers \ {r} : q \in fresh \cup {r} => job[q].seen = mission'
  BY <1>2 DEF RuntimeInv, JobsInv
<1>7. Follows(k, j, mission, mission') /\ Follows(NoJob, j, mission, mission')
      /\ Precedes(mission, mission') /\ mission = mission' /\ mission' \in Like(mission)
  BY <1>1, <1>2, <1>3
<1>8. JobsInv'
  BY <1>4, <1>5, <1>6, <1>7, Proceeding
<1> QED
  BY <1>2, <1>8, QuietReconciler

\* A reconciler that goes on without having written anything, from a snapshot
\* m that is current if it still was before.
LEMMA GoingOn ==
  ASSUME RuntimeInv, NEW r \in Reconcilers, NEW j, NEW m,
         UNCHANGED <<mission, acknowledged, chain, attempts>>,
         Proceed(r, j, fresh), Follows(j, job[r], m, mission),
         r \in fresh => m = mission
  PROVE  RuntimeInv'
<1>1. /\ mission' = mission /\ mission' \in Like(mission)
      /\ Precedes(mission, mission') /\ Follows(j, job[r], m, mission')
  BY MissionFacts DEF Precedes
<1>2. /\ fresh \in SUBSET (Reconcilers \cup Effects)
      /\ \A q \in Reconcilers : q \in fresh => job[q].seen = mission'
  BY <1>1 DEF RuntimeInv, JobsInv
<1>3. JobsInv'
  BY <1>1, <1>2, Proceeding
<1> QED
  BY <1>3, QuietReconciler

LEMMA LookKeeps ==
  ASSUME RuntimeInv, NEW r \in Reconcilers,
         ObserveNothing(r) \/ \E t : ObserveTransfer(r, t)
  PROVE  RuntimeInv'
<1> DEFINE j == job[r]
<1>1. /\ j \in Job /\ j.effect \in DOMAIN mission.effects /\ j.seen \in Like(mission)
      /\ mission \in SomeMission /\ Precedes(j.seen, mission)
      /\ r \in fresh => j.seen = mission
  BY JobFacts DEF ObserveNothing, ObserveTransfer, Snapshotted
<1>2. CASE ObserveNothing(r)
  <2>1. Follows(MarkingUnknown(j), j, j.seen, mission)
    BY <1>1, UnknownOK
  <2>2. Proceed(r, MarkingUnknown(j), fresh) /\ UNCHANGED <<mission, acknowledged, chain, attempts>>
    BY <1>2 DEF ObserveNothing, dispatch
  <2> QED
    BY <1>1, <2>1, <2>2, GoingOn
<1>3. ASSUME NEW t, ObserveTransfer(r, t)
      PROVE  RuntimeInv'
  <2>2. Follows(Evidence(j, t), j, j.seen, mission)
    BY <1>1, EvidenceOK
  <2>3. Proceed(r, Evidence(j, t), fresh) /\ UNCHANGED <<mission, acknowledged, chain, attempts>>
    BY <1>3 DEF ObserveTransfer, dispatch
  <2> QED
    BY <1>1, <2>2, <2>3, GoingOn
<1> QED
  BY <1>2, <1>3

LEMMA StopKeeps ==
  ASSUME RuntimeInv, NEW r \in Reconcilers, MoveRefused(r) \/ ReconcilerStops(r)
  PROVE  RuntimeInv'
<1>1. Proceed(r, NoJob, fresh) /\ UNCHANGED <<mission, acknowledged, chain, attempts>>
  BY DEF MoveRefused, ReconcilerStops, dispatch
<1>2. Follows(NoJob, job[r], mission, mission)
  BY IdleJob
<1> QED
  BY <1>1, <1>2, GoingOn

\* reconcile() of an attempt that moved: the target is there already, or the
\* operation is tried again over what was read.
LEMMA RereadAttemptKeeps ==
  ASSUME RuntimeInv, DispatchFacts!TypeOK, NEW r \in Reconcilers, RereadAttempt(r)
  PROVE  RuntimeInv'
<1> DEFINE j == job[r]
           k == [j EXCEPT !.attempt = attempts[j.effect]]
<1>1. /\ JobOK(j, mission) /\ j.at \in AttemptLabels /\ j \in Job
      /\ j.effect \in DOMAIN mission.effects /\ j.effect \in Effects
      /\ mission \in SomeMission /\ (r \in fresh => j.seen = mission)
  BY JobFacts DEF RereadAttempt, AttemptLabels
<1>2. UNCHANGED <<mission, acknowledged, chain, attempts>>
  BY DEF RereadAttempt, dispatch
<1>3. Follows(AfterAttempt(j), j, j.seen, mission)
  BY <1>1, AfterAttemptOK
<1>4. Follows(k, j, j.seen, mission)
  <2>1. attempts[j.effect] \in DispatchFacts!Attempt \cup {DispatchFacts!Absent}
    BY <1>1 DEF DispatchFacts!TypeOK
  <2>2. /\ k \in Job /\ k.at = j.at /\ k.effect = j.effect /\ k.seen = j.seen
        /\ k.target = j.target
    BY <1>1, <2>1 DEF Job
  <2>3. JobOK(k, mission)
    BY <1>1, <2>2 DEF JobOK
  <2>4. k.seen \in {None, j.seen}
    BY <2>2
  <2> QED
    BY <2>2, <2>3, <2>4 DEF Follows
<1>5. Proceed(r, AfterAttempt(j), fresh) \/ Proceed(r, k, fresh)
  BY DEF RereadAttempt
<1> QED
  BY <1>1, <1>2, <1>3, <1>4, <1>5, GoingOn

LEMMA WriteAttemptKeeps ==
  ASSUME RuntimeInv, DispatchFacts!TypeOK, NEW r \in Reconcilers, WriteReconciledAttempt(r)
  PROVE  RuntimeInv'
<1> DEFINE j == job[r]
<1>1. /\ JobOK(j, mission) /\ j.at \in AttemptLabels /\ j \in Job
      /\ j.effect \in DOMAIN mission.effects /\ j.effect \in Effects
      /\ mission \in SomeMission /\ mission \in Like(mission)
      /\ r \in fresh => j.seen = mission
  BY JobFacts DEF WriteReconciledAttempt, AttemptLabels
<1>2. /\ mission' = mission /\ UNCHANGED <<acknowledged, chain>>
      /\ attempts' = [attempts EXCEPT ![j.effect] =
                        Dispatch!Moved(attempts[j.effect], j.target)]
      /\ Proceed(r, AfterAttempt(j), fresh)
  BY DEF WriteReconciledAttempt, Dispatch!ReconcilerWrites, Dispatch!WriteAttempt
<1>3. Follows(AfterAttempt(j), j, j.seen, mission)
  BY <1>1, AfterAttemptOK
<1>4. JobsInv'
  <2>1. /\ Precedes(mission, mission') /\ mission' \in Like(mission)
        /\ Follows(AfterAttempt(j), j, j.seen, mission')
    BY <1>1, <1>2, <1>3 DEF Precedes
  <2>2. /\ fresh \in SUBSET (Reconcilers \cup Effects)
        /\ \A q \in Reconcilers : q \in fresh => job[q].seen = mission'
    BY <1>2 DEF RuntimeInv, JobsInv
  <2> QED
    BY <1>1, <1>2, <2>1, <2>2, Proceeding
<1>5. ASSUME NEW e \in Effects, attempts'[e].state = "VERIFIED"
      PROVE  e \in Scope /\ mission.effects[e] = "CHAIN_CONFIRMED"
  <2>1. DOMAIN attempts = Effects
    BY DEF DispatchFacts!TypeOK
  <2>2. CASE e = j.effect
    <3>1. j.target = "VERIFIED"
      BY <1>2, <1>5, <2>1, <2>2 DEF Dispatch!Moved
    <3>2. j.at = "verify"
      BY <1>1, <3>1 DEF JobOK, AttemptLabels
    <3> QED
      BY <1>1, <2>2, <3>2 DEF JobOK, Scope
  <2>3. CASE e # j.effect
    BY <1>2, <1>5, <2>1, <2>3 DEF RuntimeInv, VerifiedInScope, Scope
  <2> QED
    BY <2>2, <2>3
<1> QED
  BY <1>2, <1>4, <1>5 DEF RuntimeInv, CompletedIsConfirmed, VerifiedInScope, Scope

\* A mission operation over the current revision: what it makes of the mission,
\* and of the rest.
LEMMA WriteMissionShape ==
  ASSUME RuntimeInv, NEW r \in Reconcilers, WriteMission(r)
  PROVE  /\ mission' \in Like(mission) /\ Precedes(mission, mission')
         /\ CompletedIsConfirmed'
         /\ \A e \in Scope : mission'.effects[e] # mission.effects[e] =>
              job[r].at = "step" /\ e = job[r].effect
<1> DEFINE j == job[r]
<1>1. /\ JobOK(j, mission) /\ j \in Job /\ j.effect \in DOMAIN mission.effects
      /\ j.at \in MissionLabels /\ mission \in SomeMission /\ mission \in Like(mission)
  BY JobFacts DEF WriteMission, MissionLabels
<1>2. mission' = Applied(j, mission) /\ Allowed(j, mission)
  BY DEF WriteMission
<1>3. ASSUME j.at = "step"
      PROVE  /\ mission' \in Like(mission) /\ mission'.state = mission.state
             /\ mission.effects[j.effect] # "CHAIN_CONFIRMED"
             /\ \A e \in Scope : e # j.effect => mission'.effects[e] = mission.effects[e]
  <2>1. mission' = [mission EXCEPT !.effects[j.effect] = j.target]
    BY <1>2, <1>3 DEF Applied
  <2>2. j.target \in EffectSuccessors[mission.effects[j.effect]]
    BY <1>2, <1>3 DEF Allowed
  <2>3. j.target \in ReachedEffectStates
    BY <1>1, <1>3 DEF JobOK, ReachedEffectStates
  <2>4. mission.effects[j.effect] # "CHAIN_CONFIRMED"
    BY <2>2, EffectTable
  <2> QED
    BY <1>1, <2>1, <2>3, <2>4 DEF Like, MissionOver, Scope
<1>4. ASSUME j.at # "step"
      PROVE  /\ mission' \in Like(mission) /\ mission'.effects = mission.effects
             /\ mission'.state = "COMPLETED" =>
                  \A e \in Scope : mission.effects[e] = "CHAIN_CONFIRMED"
  <2>1. mission' = [mission EXCEPT !.state = j.target]
    BY <1>2, <1>4 DEF Applied
  <2>2. MissionMayMove(mission.state, mission.effects, j.target)
    BY <1>2, <1>4 DEF Allowed
  <2>3. j.target \in ReachedMissionStates
    BY <1>1, <1>4 DEF JobOK, MissionLabels, ReachedMissionStates
  <2>4. /\ mission' \in Like(mission) /\ mission'.state = j.target
        /\ mission'.effects = mission.effects
    BY <1>1, <2>1, <2>3 DEF Like, MissionOver
  <2>5. j.target = "COMPLETED" =>
          \A e \in Scope : mission.effects[e] = "CHAIN_CONFIRMED"
    BY <1>1, <2>2 DEF MissionMayMove, Scope
  <2> QED
    BY <2>4, <2>5
<1>5. /\ mission' \in Like(mission)
      /\ Precedes(mission, mission')
      /\ CompletedIsConfirmed'
  <2>1. CASE j.at = "step"
    BY <1>1, <1>3, <2>1, MissionFacts DEF Precedes, CompletedIsConfirmed, RuntimeInv, Scope
  <2>2. CASE j.at # "step"
    BY <1>4, <2>2 DEF Precedes, CompletedIsConfirmed, Scope
  <2> QED
    BY <2>1, <2>2
<1> QED
  BY <1>3, <1>4, <1>5

LEMMA WriteMissionKeeps ==
  ASSUME RuntimeInv, NEW r \in Reconcilers, WriteMission(r)
  PROVE  RuntimeInv'
<1> DEFINE j == job[r]
<1>1. /\ JobOK(j, mission) /\ j \in Job /\ j.effect \in DOMAIN mission.effects
      /\ j.at \in MissionLabels /\ mission \in SomeMission /\ mission \in Like(mission)
  BY JobFacts DEF WriteMission, MissionLabels
<1>2. /\ Proceed(r, AfterMission(j, mission'), {r})
      /\ UNCHANGED <<acknowledged, chain, attempts>>
  BY DEF WriteMission, dispatch
<1>5. /\ mission' \in Like(mission)
      /\ Precedes(mission, mission')
      /\ CompletedIsConfirmed'
  BY WriteMissionShape
<1>10. mission' \in SomeMission /\ DOMAIN mission'.effects = DOMAIN mission.effects
  BY <1>5, MissionFacts DEF Scope
<1>6. j.at = "finish" => mission'.effects[j.effect] = "CHAIN_CONFIRMED"
  BY <1>1, <1>5, <1>10 DEF JobOK, Precedes
<1>7. Follows(AfterMission(j, mission'), j, mission', mission')
  BY <1>1, <1>6, <1>10, AfterMissionOK
<1>8. JobsInv'
  <2>1. {r} \in SUBSET (Reconcilers \cup Effects)
    OBVIOUS
  <2> QED
    BY <1>2, <1>5, <1>7, <2>1, Proceeding
<1>9. VerifiedInScope'
  BY <1>2, <1>5, <1>10 DEF RuntimeInv, VerifiedInScope, Scope, Precedes
<1> QED
  BY <1>2, <1>5, <1>8, <1>9, <1>10 DEF RuntimeInv

\* The revision was stale: read again.
LEMMA RereadMissionKeeps ==
  ASSUME RuntimeInv, NEW r \in Reconcilers, RereadMission(r)
  PROVE  RuntimeInv'
<1> DEFINE j == job[r]
           k == [j EXCEPT !.seen = mission]
<1>1. /\ JobOK(j, mission) /\ j \in Job /\ j.effect \in DOMAIN mission.effects
      /\ j.at \in MissionLabels /\ mission \in SomeMission /\ mission \in Like(mission)
  BY JobFacts DEF RereadMission, MissionLabels
<1>2. mission' = mission /\ UNCHANGED <<acknowledged, chain, attempts>>
  BY DEF RereadMission, dispatch
<1>3. Follows(AfterMission(j, mission), j, mission, mission)
  BY <1>1, AfterMissionOK DEF JobOK
<1>4. Follows(k, j, mission, mission)
  <2>1. /\ k \in Job /\ k.at = j.at /\ k.effect = j.effect /\ k.seen = mission
        /\ k.target = j.target
    BY <1>1 DEF Job
  <2>2. Precedes(mission, mission)
    BY DEF Precedes
  <2>3. JobOK(k, mission)
    BY <1>1, <2>1, <2>2 DEF JobOK
  <2> QED
    BY <2>1, <2>3 DEF Follows
<1>5. Proceed(r, AfterMission(j, mission), fresh \cup {r}) \/ Proceed(r, k, fresh \cup {r})
  BY DEF RereadMission
<1>6. /\ fresh \cup {r} \in SUBSET (Reconcilers \cup Effects)
      /\ \A q \in Reconcilers \ {r} : q \in fresh \cup {r} => job[q].seen = mission'
  BY <1>2 DEF RuntimeInv, JobsInv
<1>7. /\ Follows(AfterMission(j, mission), j, mission, mission')
      /\ Follows(k, j, mission, mission')
      /\ Precedes(mission, mission') /\ mission' \in Like(mission)
  BY <1>1, <1>2, <1>3, <1>4 DEF Precedes
<1>8. JobsInv'
  BY <1>2, <1>5, <1>6, <1>7, Proceeding
<1> QED
  BY <1>2, <1>8, QuietReconciler

LEMMA ReconcilerKeeps ==
  ASSUME RuntimeInv, Scope = Effects, DispatchFacts!TypeOK, NEW r \in Reconcilers, ReconcilerActs(r)
  PROVE  RuntimeInv'
BY LoadKeeps, LoadMissionKeeps, LookKeeps, StopKeeps, RereadAttemptKeeps, WriteAttemptKeeps,
   WriteMissionKeeps, RereadMissionKeeps
DEF ReconcilerActs

LEMMA RuntimeRests ==
  ASSUME RuntimeInv, UNCHANGED <<mission, fresh, acknowledged, job, chain, attempts>>
  PROVE  RuntimeInv'
BY DEF RuntimeInv, JobsInv, JobOK, CompletedIsConfirmed, VerifiedInScope, Scope

LEMMA RuntimeKeeps ==
  ASSUME RuntimeInv, Scope = Effects, DispatchFacts!TypeOK, [Next]_vars
  PROVE  RuntimeInv'
<1>1. CASE UNCHANGED vars
  <2>1. UNCHANGED <<mission, fresh, acknowledged, job, chain, attempts>>
    BY <1>1 DEF vars, dispatch
  <2> QED
    BY <2>1, RuntimeRests
<1>2. CASE Next
  BY <1>2, PrepareKeeps, AdvanceKeeps, DispatchKeeps, ChainKeeps, ReconcilerKeeps DEF Next
<1> QED
  BY <1>1, <1>2
-----------------------------------------------------------------------------
\* Both instances of ExecutionDispatch are the same specification.
LEMMA SameStep ==
  ASSUME NEW d \in Dispatchers, Dispatch!DispatcherStep(d)
  PROVE  DispatchFacts!DispatcherStep(d)
BY DEF Dispatch!DispatcherStep, DispatchFacts!DispatcherStep,
   Dispatch!Begin, DispatchFacts!Begin,
   Dispatch!CreateAttempt, DispatchFacts!CreateAttempt,
   Dispatch!ClaimAttempt, DispatchFacts!ClaimAttempt,
   Dispatch!CheckReference, DispatchFacts!CheckReference,
   Dispatch!RefuseToSend, DispatchFacts!RefuseToSend,
   Dispatch!RejectUnsent, DispatchFacts!RejectUnsent, Dispatch!Send, DispatchFacts!Send,
   Dispatch!ReceiveAccepted, DispatchFacts!ReceiveAccepted,
   Dispatch!ReceiveRejected, DispatchFacts!ReceiveRejected,
   Dispatch!LoseAnswer, DispatchFacts!LoseAnswer,
   Dispatch!PersistReference, DispatchFacts!PersistReference,
   Dispatch!Acknowledge, DispatchFacts!Acknowledge,
   Dispatch!RejectFinal, DispatchFacts!RejectFinal,
   Dispatch!RecordOutcome, DispatchFacts!RecordOutcome,
   Dispatch!MarkUnknown, DispatchFacts!MarkUnknown,
   Dispatch!StoreFails, DispatchFacts!StoreFails, Dispatch!Crash, DispatchFacts!Crash,
   Dispatch!Leave, DispatchFacts!Leave, Dispatch!Goto, DispatchFacts!Goto,
   Dispatch!WriteAttempt, DispatchFacts!WriteAttempt,
   Dispatch!Moved, DispatchFacts!Moved, Dispatch!NewAttempt, DispatchFacts!NewAttempt,
   Dispatch!MayTransition, DispatchFacts!MayTransition,
   Dispatch!NoCall, DispatchFacts!NoCall, Dispatch!durable, DispatchFacts!durable,
   Dispatch!wire, DispatchFacts!wire,
   Dispatch!AttemptStates, DispatchFacts!AttemptStates,
   Dispatch!AttemptSuccessors, DispatchFacts!AttemptSuccessors

LEMMA SameDispatch ==
  /\ Dispatch!Init => DispatchFacts!Init
  /\ Dispatch!Next => DispatchFacts!Next
  /\ Dispatch!vars = DispatchFacts!vars
<1>1. Dispatch!Init => DispatchFacts!Init
  BY DEF Dispatch!Init, DispatchFacts!Init, Dispatch!Absent, DispatchFacts!Absent,
         Dispatch!NoCall, DispatchFacts!NoCall
<1>2. Dispatch!Next => DispatchFacts!Next
  BY SameStep
  DEF Dispatch!Next, DispatchFacts!Next, Dispatch!ProviderStep, DispatchFacts!ProviderStep,
      Dispatch!ProviderDecides, DispatchFacts!ProviderDecides,
      Dispatch!PrepareAttempt, DispatchFacts!PrepareAttempt,
      Dispatch!ReconcilerWrites, DispatchFacts!ReconcilerWrites,
      Dispatch!MissionMoves, DispatchFacts!MissionMoves,
      Dispatch!ReconcilerTargets, DispatchFacts!ReconcilerTargets,
      Dispatch!WriteAttempt, DispatchFacts!WriteAttempt,
      Dispatch!Moved, DispatchFacts!Moved, Dispatch!NewAttempt, DispatchFacts!NewAttempt,
      Dispatch!durable, DispatchFacts!durable, Dispatch!wire, DispatchFacts!wire,
      Dispatch!volatile, DispatchFacts!volatile,
      Dispatch!AttemptStates, DispatchFacts!AttemptStates,
      Dispatch!AttemptSuccessors, DispatchFacts!AttemptSuccessors
<1>3. Dispatch!vars = DispatchFacts!vars
  BY DEF Dispatch!vars, DispatchFacts!vars
<1> QED
  BY <1>1, <1>2, <1>3

\* Who writes the mission.
LEMMA MissionWriters ==
  ASSUME [Next]_vars
  PROVE  \/ UNCHANGED mission \/ PrepareReconciling \/ PrepareReady
         \/ (\E e \in Effects : Advance(e)) \/ \E r \in Reconcilers : WriteMission(r)
BY DEF Next, vars, DispatcherActs, SimulationPrepares, ProviderActs, TransferAppears,
   TransferConfirmed, ReconcilerActs, LoadAttempt, LoadMission, ObserveNothing,
   ObserveTransfer, RereadMission, WriteReconciledAttempt, RereadAttempt, MoveRefused,
   ReconcilerStops

\* The mission keeps its effects.
LEMMA ScopeStays ==
  ASSUME RuntimeInv, [Next]_vars
  PROVE  Scope' = Scope
<1>1. ASSUME NEW s PROVE DOMAIN [mission EXCEPT !.state = s].effects = Scope
  BY MissionFacts DEF Like, MissionOver, Scope
<1>2. ASSUME NEW e, NEW s PROVE DOMAIN [mission EXCEPT !.effects[e] = s].effects = Scope
  BY MissionFacts DEF Like, MissionOver, Scope
<1>3. CASE UNCHANGED mission
  BY <1>3 DEF Scope
<1>4. CASE PrepareReconciling \/ PrepareReady
  BY <1>1, <1>4 DEF PrepareReconciling, PrepareReady, Prepare, Scope
<1>5. ASSUME NEW e \in Effects, Advance(e)
      PROVE  Scope' = Scope
  <2>1. mission' = Advanced(mission, e)
    BY <1>5 DEF Advance
  <2> QED
    BY <1>1, <1>2, <2>1 DEF Advanced, Scope
<1>6. ASSUME NEW r \in Reconcilers, WriteMission(r)
      PROVE  Scope' = Scope
  BY <1>1, <1>2, <1>6 DEF WriteMission, Applied, Scope
<1> QED
  BY <1>3, <1>4, <1>5, <1>6, MissionWriters

\* A confirmed effect stays confirmed.
LEMMA ConfirmedStays ==
  ASSUME RuntimeInv, [Next]_vars, \A e \in Effects : Advance(e) => e \in Scope
  PROVE  /\ Scope' = Scope
         /\ \A e \in Scope : mission.effects[e] = "CHAIN_CONFIRMED" =>
                             mission'.effects[e] = "CHAIN_CONFIRMED"
<1>1. Scope' = Scope
  BY ScopeStays
<1>2. CASE PrepareReconciling \/ PrepareReady
  <2>1. mission'.effects = mission.effects
    BY <1>2, MissionFacts DEF PrepareReconciling, PrepareReady, Prepare, Like, MissionOver
  <2> QED
    BY <1>1, <2>1
<1>3. ASSUME NEW e \in Scope, Advance(e)
      PROVE  \A f \in Scope : mission.effects[f] = "CHAIN_CONFIRMED" =>
                              mission'.effects[f] = "CHAIN_CONFIRMED"
  BY <1>3, AdvanceShape
<1>4. ASSUME NEW r \in Reconcilers, WriteMission(r)
      PROVE  \A f \in Scope : mission.effects[f] = "CHAIN_CONFIRMED" =>
                              mission'.effects[f] = "CHAIN_CONFIRMED"
  BY <1>1, <1>4, WriteMissionShape DEF Precedes, Scope
<1> QED
  BY <1>1, <1>2, <1>3, <1>4, MissionWriters

LEMMA DispatchAssumed == DispatchFacts!DispatchAssumption
BY RuntimeAssumption DEF DispatchFacts!DispatchAssumption

\* The two inductive invariants, each of which the other needs.
LEMMA DispatchInvKeeps ==
  ASSUME DispatchFacts!DispatchInv, Dispatch!Next \/ UNCHANGED Dispatch!vars
  PROVE  DispatchFacts!DispatchInv'
<1>1. [DispatchFacts!Next]_(DispatchFacts!vars)
  BY SameDispatch DEF Dispatch!vars, DispatchFacts!vars
<1> QED
  BY <1>1, DispatchAssumed, DispatchFacts!TypeStep, DispatchFacts!SafetyStep
  DEF DispatchFacts!DispatchInv

LEMMA BothKeep ==
  ASSUME RuntimeInv, Scope = Effects, DispatchFacts!DispatchInv, [Next]_vars
  PROVE  RuntimeInv' /\ Scope' = Effects /\ DispatchFacts!DispatchInv'
<1>1. RuntimeInv'
  BY RuntimeKeeps DEF DispatchFacts!DispatchInv
<1>2. Dispatch!Next \/ UNCHANGED Dispatch!vars
  BY <1>1, StepsDispatch DEF RuntimeInv
<1> QED
  BY <1>1, <1>2, DispatchInvKeeps, ScopeStays

LEMMA BothStart == Init => RuntimeInv /\ Scope = Effects /\ DispatchFacts!DispatchInv
<1>1. Init => DispatchFacts!Init
  <2>1. Init => Dispatch!Init
    BY DEF Init
  <2> QED
    BY <2>1, SameDispatch
<1>2. Init => Scope = Effects
  BY DEF Init, Scope
<1> QED
  BY <1>1, <1>2, RuntimeInit, DispatchAssumed, DispatchFacts!TypeInit, DispatchFacts!SafetyInit
  DEF DispatchFacts!DispatchInv

\* Whatever the mission, the reconcilers, the preparing process and the chain
\* do, both invariants hold in every reachable state.
THEOREM RuntimeSafety ==
  Spec => [](RuntimeInv /\ Scope = Effects /\ DispatchFacts!DispatchInv)
<1> DEFINE Both == RuntimeInv /\ Scope = Effects /\ DispatchFacts!DispatchInv
<1>1. Init => Both
  BY BothStart
<1>2. Both /\ [Next]_vars => Both'
  BY BothKeep
<1> HIDE DEF Both
<1>3. Spec => []Both
  BY <1>1, <1>2, PTL DEF Spec
<1> QED
  BY <1>3 DEF Both

\* The shape of the composed state: no process ever writes a mission or an
\* effect state other than the reached ones, and a current snapshot is current.
THEOREM RuntimeTypeCorrect == Spec => []TypeOK
<1>1. RuntimeInv /\ Scope = Effects => TypeOK
  <2> SUFFICES ASSUME RuntimeInv, Scope = Effects PROVE TypeOK
    OBVIOUS
  <2>1. mission \in Mission /\ Like(mission) = Mission
    BY MissionFacts, MissionIsSome DEF Like, Scope
  <2> QED
    BY <2>1 DEF RuntimeInv, JobsInv, TypeOK, JobOK, Job
<1> QED
  BY <1>1, RuntimeSafety, PTL

\* The two databases are never in the wrong order: a verified attempt has its
\* confirmed effect, wherever a reconciler is killed or overtaken.
THEOREM VerifiedAfterConfirmed == Spec => []VerifiedIsConfirmed
<1>1. RuntimeInv => VerifiedIsConfirmed
  BY DEF RuntimeInv, VerifiedInScope, VerifiedIsConfirmed
<1> QED
  BY <1>1, RuntimeSafety, PTL

\* The composed runtime leaves the dispatch layer what it assumes of its
\* environment: every step is one of ExecutionDispatch's, or none.
THEOREM RuntimeImplementsDispatch == Spec => RefinesDispatch
<1>1. Init => Dispatch!Init
  BY DEF Init
<1>2. RuntimeInv /\ RuntimeInv' /\ [Next]_vars => [Dispatch!Next]_(Dispatch!vars)
  BY StepsDispatch DEF RuntimeInv
<1> QED
  BY <1>1, <1>2, RuntimeSafety, PTL DEF Spec, RefinesDispatch, Dispatch!Spec
-----------------------------------------------------------------------------
(***************************************************************************)
(* What a confirmation is worth: when no two effects, and no payment made  *)
(* outside the system, have the same terms, the transfer a reconciler sees *)
(* deep in the chain under the terms of its effect is that effect's.       *)
(***************************************************************************)
DistinctTerms ==
  /\ \A e, f \in Effects : Terms[e] = Terms[f] => e = f
  /\ \A e \in Effects : Terms[e] \notin Outside

\* Labels of a job whose evidence was conclusive and is being projected.
Sure == {"enter", "step"}

PaidInv ==
  /\ \A e \in Effects : chain[e] # "none" => provider[e] = "accepted"
  /\ \A e \in Effects :
       e \in Scope /\ mission.effects[e] = "CHAIN_CONFIRMED" => chain[e] = "confirmed"
  /\ \A r \in Reconcilers :
       job[r].at \in Sure => chain[job[r].effect] = "confirmed"

\* Job k goes on with job j, and is no surer unless the chain says so.
Grounded(k, j) ==
  k.at \in Sure =>
    /\ k.effect = j.effect
    /\ j.at \in Sure \/ chain[j.effect] = "confirmed"

LEMMA Unsure ==
  ASSUME NEW j \in Job, NEW m
  PROVE  /\ NoJob.at \notin Sure
         /\ MarkingUnknown(j).at \notin Sure
         /\ MarkingVerified(j).at \notin Sure
         /\ Reviewing(j, m).at \notin Sure
         /\ Blocking(j).at \notin Sure
         /\ Finishing(j, m).at \notin Sure
         /\ AfterAttempt(j).at \notin Sure
<1>1. NoJob.at \notin Sure
  BY DEF NoJob, Sure
<1>2. ASSUME NEW k \in Job, NEW at \in {"unknown", "verify", "block"}, NEW target
      PROVE  OnAttempt(k, at, target).at \notin Sure
  BY DEF OnAttempt, Job, Sure
<1>3. ASSUME NEW n, NEW at \in {"review", "reopen", "finish"}, NEW target
      PROVE  OnMission(j, n, at, target).at \notin Sure
  BY DEF OnMission, Job, Sure
<1>4. [j EXCEPT !.seen = None] \in Job
  BY Forgets
<1>5. MarkingUnknown(j).at \notin Sure
  BY <1>1, <1>2, <1>4 DEF MarkingUnknown
<1>6. MarkingVerified(j).at \notin Sure
  BY <1>1, <1>2, <1>4 DEF MarkingVerified
<1>7. \A n : Reviewing(j, n).at \notin Sure
  BY <1>1, <1>3 DEF Reviewing
<1>8. Blocking(j).at \notin Sure
  BY <1>2, <1>7 DEF Blocking
<1>9. Finishing(j, m).at \notin Sure
  BY <1>3, <1>6 DEF Finishing
<1> QED
  BY <1>1, <1>5, <1>6, <1>7, <1>8, <1>9 DEF AfterAttempt

\* The projection starts where the evidence is conclusive and stays with the
\* effect it is about.
LEMMA StepGrounded ==
  ASSUME NEW j \in Job, NEW m \in SomeMission, j.effect \in DOMAIN m.effects,
         j.at \in Sure \/ chain[j.effect] = "confirmed"
  PROVE  Grounded(Stepping(j, m), j)
<1>1. m.effects[j.effect] \in {"PLANNED", "RESERVED", "SUBMITTED", "CHAIN_CONFIRMED"}
  BY Missions DEF ReachedEffectStates
<1>2. \A at, target : OnMission(j, m, at, target).effect = j.effect
  BY DEF OnMission, Job
<1> QED
  BY <1>1, <1>2, Unsure DEF Stepping, Grounded

LEMMA ProjectGrounded ==
  ASSUME NEW j \in Job, NEW m \in SomeMission, j.effect \in DOMAIN m.effects,
         chain[j.effect] = "confirmed"
  PROVE  Grounded(Projecting(j, m), j)
<1>1. OnMission(j, m, "enter", "RECONCILING").effect = j.effect
  BY DEF OnMission, Job
<1> QED
  BY <1>1, StepGrounded, Unsure DEF Projecting, Grounded

LEMMA DeepIsConfirmed ==
  ASSUME DistinctTerms, NEW e \in Effects, NEW t \in Transfers,
         t.terms = Terms[e], t.deep
  PROVE  chain[e] = "confirmed"
<1> DEFINE ShownOf(x) == [terms : {Terms[x]}, deep : {FALSE, chain[x] = "confirmed"}]
           Paid == {x \in Effects : chain[x] # "none"}
<1>1. t \in [terms : Outside, deep : BOOLEAN] \/ \E x \in Paid : t \in ShownOf(x)
  BY Zenon DEF Transfers
<1>2. t \notin [terms : Outside, deep : BOOLEAN]
  BY DEF DistinctTerms
<1>3. PICK x \in Effects : t \in ShownOf(x)
  BY <1>1, <1>2
<1>4. x = e
  BY <1>3 DEF DistinctTerms
<1> QED
  BY <1>3, <1>4

LEMMA EvidenceGrounded ==
  ASSUME DistinctTerms, NEW j \in Job, j.effect \in Effects, j.seen \in SomeMission,
         j.effect \in DOMAIN j.seen.effects, NEW t \in Transfers
  PROVE  Grounded(Evidence(j, t), j)
<1>1. CASE t.terms # Terms[j.effect]
  BY <1>1, Unsure DEF Evidence, Grounded
<1>2. CASE t.terms = Terms[j.effect] /\ ~t.deep
  BY <1>2, Unsure DEF Evidence, Grounded
<1>3. CASE t.terms = Terms[j.effect] /\ t.deep
  <2>1. chain[j.effect] = "confirmed"
    BY <1>3, DeepIsConfirmed
  <2>2. Grounded(Projecting(j, j.seen), j)
    BY <2>1, ProjectGrounded
  <2>3. Grounded(Reviewing(j, j.seen), j)
    BY Unsure DEF Grounded
  <2> QED
    BY <1>3, <2>2, <2>3 DEF Evidence
<1> QED
  BY <1>1, <1>2, <1>3

LEMMA AfterMissionGrounded ==
  ASSUME NEW j \in Job, NEW m \in SomeMission, j.effect \in DOMAIN m.effects, j.at \in MissionLabels
  PROVE  Grounded(AfterMission(j, m), j)
<1>1. CASE j.at \in Sure
  BY <1>1, StepGrounded DEF AfterMission, Sure
<1>2. CASE j.at \in {"finish", "reopen", "review"}
  BY <1>2, Unsure DEF AfterMission, Grounded
<1> QED
  BY <1>1, <1>2 DEF MissionLabels, Sure
-----------------------------------------------------------------------------
\* A payment the provider accepted stays accepted: nobody posts it again.
LEMMA AcceptedStays ==
  ASSUME DispatchFacts!DispatchInv, Dispatch!Next \/ UNCHANGED Dispatch!vars,
         NEW e \in Effects, provider[e] = "accepted"
  PROVE  provider'[e] = "accepted"
<1>1. CASE UNCHANGED provider
  BY <1>1
<1>2. ASSUME NEW d \in Dispatchers, Dispatch!DispatcherStep(d)
      PROVE  provider'[e] = "accepted"
  <2>2. CASE Dispatch!Send(d)
    <3>1. pc[d] = "send" /\ provider' = [provider EXCEPT ![call[d].effect] = "pending"]
      BY <2>2 DEF Dispatch!Send
    <3>2. call[d].effect \in Effects /\ posts[call[d].effect] = 0
      BY <3>1 DEF DispatchFacts!DispatchInv, DispatchFacts!TypeOK,
                  DispatchFacts!SafetyInv, DispatchFacts!CallInv, DispatchFacts!Knows
    <3>3. provider[call[d].effect] = "idle"
      BY <3>2 DEF DispatchFacts!DispatchInv, DispatchFacts!SafetyInv, DispatchFacts!WireInv
    <3>4. e # call[d].effect
      BY <3>3
    <3> QED
      BY <3>1, <3>4 DEF DispatchFacts!DispatchInv, DispatchFacts!TypeOK
  <2>3. Dispatch!Send(d) \/ UNCHANGED provider
    BY <1>2 DEF Dispatch!DispatcherStep, Dispatch!Begin, Dispatch!CreateAttempt,
       Dispatch!ClaimAttempt, Dispatch!CheckReference, Dispatch!RefuseToSend,
       Dispatch!RejectUnsent, Dispatch!ReceiveAccepted, Dispatch!ReceiveRejected,
       Dispatch!LoseAnswer, Dispatch!PersistReference, Dispatch!Acknowledge,
       Dispatch!RejectFinal, Dispatch!RecordOutcome, Dispatch!MarkUnknown,
       Dispatch!StoreFails, Dispatch!Crash, Dispatch!wire
  <2> QED
    BY <1>1, <2>2, <2>3
<1>3. CASE Dispatch!ProviderStep
  BY <1>3 DEF Dispatch!ProviderStep, Dispatch!ProviderDecides,
              DispatchFacts!DispatchInv, DispatchFacts!TypeOK
<1>4. \/ UNCHANGED provider \/ Dispatch!ProviderStep
      \/ \E d \in Dispatchers : Dispatch!DispatcherStep(d)
  BY DEF Dispatch!Next, Dispatch!vars, Dispatch!PrepareAttempt, Dispatch!ReconcilerWrites,
         Dispatch!MissionMoves, Dispatch!wire
<1> QED
  BY <1>1, <1>2, <1>3, <1>4

\* Reconciler r takes up job k, the mission and the chain being left alone.
LEMMA PaidJob ==
  ASSUME RuntimeInv, PaidInv, NEW r \in Reconcilers, NEW k,
         job' = [job EXCEPT ![r] = k], UNCHANGED <<mission, chain, provider>>,
         Grounded(k, job[r])
  PROVE  PaidInv'
<1>1. \A q \in Reconcilers : job'[q] = IF q = r THEN k ELSE job[q]
  BY DEF RuntimeInv, JobsInv
<1>2. ASSUME NEW q \in Reconcilers, job'[q].at \in Sure
      PROVE  chain'[job'[q].effect] = "confirmed"
  BY <1>1, <1>2 DEF PaidInv, Grounded
<1> QED
  BY <1>2 DEF PaidInv, Scope

LEMMA PaidWriteMission ==
  ASSUME RuntimeInv, PaidInv, NEW r \in Reconcilers, WriteMission(r)
  PROVE  PaidInv'
<1> DEFINE j == job[r]
<1>1. /\ JobOK(j, mission) /\ j \in Job /\ j.effect \in Scope
      /\ j.at \in MissionLabels /\ mission \in SomeMission
  BY JobFacts DEF WriteMission, MissionLabels, Scope
<1>2. /\ mission' = Applied(j, mission)
      /\ job' = [job EXCEPT ![r] = AfterMission(j, mission')]
      /\ UNCHANGED <<chain, provider>>
  BY DEF WriteMission, Proceed, dispatch
<1>3. mission' \in SomeMission /\ Scope' = Scope
  BY WriteMissionKeeps, ScopeStays DEF RuntimeInv, Next, ReconcilerActs
<1>4. Grounded(AfterMission(j, mission'), j)
  BY <1>1, <1>3, AfterMissionGrounded DEF Scope
<1>5. \A q \in Reconcilers : job'[q] = IF q = r THEN AfterMission(j, mission') ELSE job[q]
  BY <1>2 DEF RuntimeInv, JobsInv
<1>6. ASSUME NEW q \in Reconcilers, job'[q].at \in Sure
      PROVE  chain'[job'[q].effect] = "confirmed"
  BY <1>2, <1>4, <1>5, <1>6 DEF PaidInv, Grounded
<1>7. ASSUME NEW e \in Effects, e \in Scope, mission'.effects[e] = "CHAIN_CONFIRMED"
      PROVE  chain[e] = "confirmed"
  <2>1. CASE mission.effects[e] = "CHAIN_CONFIRMED"
    BY <1>7, <2>1 DEF PaidInv
  <2>2. CASE mission.effects[e] # "CHAIN_CONFIRMED"
    <3>1. j.at = "step" /\ j.effect = e
      BY <1>1, <1>2, <1>7, <2>2, Missions DEF Applied, Scope
    <3> QED
      BY <3>1 DEF PaidInv, Sure
  <2> QED
    BY <2>1, <2>2
<1> QED
  BY <1>2, <1>3, <1>6, <1>7 DEF PaidInv

\* A reconciler that is shown only what it may take for its own payment.
LEMMA PaidReconciler ==
  ASSUME RuntimeInv, PaidInv, NEW r \in Reconcilers, ReconcilerActs(r),
         \A t \in Transfers : ObserveTransfer(r, t) => Grounded(Evidence(job[r], t), job[r])
  PROVE  PaidInv'
<1> DEFINE j == job[r]
<1>1. CASE WriteMission(r)
  BY <1>1, PaidWriteMission
<1>2. ASSUME ~WriteMission(r)
      PROVE  \E k : /\ job' = [job EXCEPT ![r] = k] /\ Grounded(k, j)
                    /\ UNCHANGED <<mission, chain, provider>>
  <2>1. JobOK(j, mission) /\ j \in Job /\ mission \in SomeMission
    BY JobFacts
  <2>2. ASSUME NEW e \in Effects, LoadAttempt(r, e)
        PROVE  /\ job' = [job EXCEPT ![r] = [NoJob EXCEPT !.at = "load", !.effect = e,
                                                          !.attempt = attempts[e]]]
               /\ Grounded([NoJob EXCEPT !.at = "load", !.effect = e,
                                         !.attempt = attempts[e]], j)
               /\ UNCHANGED <<mission, chain, provider>>
    BY <2>2 DEF LoadAttempt, Grounded, NoJob, Sure, dispatch
  <2>3. ASSUME NEW k, NEW current, Proceed(r, k, current), Grounded(k, j),
               UNCHANGED <<mission, chain, dispatch>>
        PROVE  \E x : /\ job' = [job EXCEPT ![r] = x] /\ Grounded(x, j)
                      /\ UNCHANGED <<mission, chain, provider>>
    BY <2>3 DEF Proceed, dispatch
  <2>4. Grounded(NoJob, j)
    BY <2>1, Unsure DEF Grounded
  <2>5. CASE LoadMission(r)
    <3>1. Grounded(OnMission(j, mission, "observe", None), j)
      BY <2>1 DEF Grounded, OnMission, Job, Sure
    <3> QED
      BY <2>3, <2>4, <2>5, <3>1 DEF LoadMission
  <2>6. CASE ObserveNothing(r)
    <3>1. Grounded(MarkingUnknown(j), j)
      BY <2>1, Unsure DEF Grounded
    <3> QED
      BY <2>3, <2>6, <3>1 DEF ObserveNothing
  <2>7. ASSUME NEW t \in Transfers, ObserveTransfer(r, t)
        PROVE  \E k : /\ job' = [job EXCEPT ![r] = k] /\ Grounded(k, j)
                      /\ UNCHANGED <<mission, chain, provider>>
    <3>1. Grounded(Evidence(j, t), j)
      BY <2>7
    <3> QED
      BY <2>3, <2>7, <3>1 DEF ObserveTransfer
  <2>8. CASE RereadMission(r)
    <3>1. j.effect \in DOMAIN mission.effects /\ j.at \in MissionLabels
      BY <2>1, <2>8 DEF RereadMission, JobOK, MissionLabels
    <3>2. Grounded(AfterMission(j, mission), j)
      BY <2>1, <3>1, AfterMissionGrounded
    <3>3. Grounded([j EXCEPT !.seen = mission], j)
      BY <2>1 DEF Grounded, Job
    <3> QED
      BY <2>3, <2>8, <3>2, <3>3 DEF RereadMission
  <2>9. CASE RereadAttempt(r)
    <3>1. Grounded(AfterAttempt(j), j)
      BY <2>1, Unsure DEF Grounded
    <3>2. Grounded([j EXCEPT !.attempt = attempts[j.effect]], j)
      BY <2>1 DEF Grounded, Job
    <3> QED
      BY <2>3, <2>9, <3>1, <3>2 DEF RereadAttempt
  <2>10. CASE WriteReconciledAttempt(r)
    <3>1. Grounded(AfterAttempt(j), j)
      BY <2>1, Unsure DEF Grounded
    <3> QED
      BY <2>10, <3>1 DEF WriteReconciledAttempt, Proceed, Dispatch!ReconcilerWrites,
                         Dispatch!wire
  <2>11. CASE MoveRefused(r) \/ ReconcilerStops(r)
    BY <2>3, <2>4, <2>11 DEF MoveRefused, ReconcilerStops
  <2> QED
    BY <1>2, <2>2, <2>5, <2>6, <2>7, <2>8, <2>9, <2>10, <2>11 DEF ReconcilerActs
<1> QED
  BY <1>1, <1>2, PaidJob

\* A step that leaves the jobs alone and confirms no effect.
LEMMA PaidElsewhere ==
  ASSUME RuntimeInv, PaidInv, DispatchFacts!DispatchInv, UNCHANGED job,
         Dispatch!Next \/ UNCHANGED Dispatch!vars, Scope' = Scope,
         \A e \in Effects : chain[e] = "confirmed" => chain'[e] = "confirmed",
         \A e \in Effects :
           chain'[e] # "none" => chain[e] # "none" \/ provider[e] = "accepted",
         \A e \in Scope :
           mission'.effects[e] = "CHAIN_CONFIRMED" => mission.effects[e] = "CHAIN_CONFIRMED"
  PROVE  PaidInv'
<1>1. \A e \in Effects : provider[e] = "accepted" => provider'[e] = "accepted"
  BY AcceptedStays
<1>2. \A r \in Reconcilers : job[r].at \in Sure => job[r].effect \in Effects
  BY JobFacts DEF Sure
<1> QED
  BY <1>1, <1>2 DEF PaidInv

\* The steps of the mission, of the chain and of the dispatch layer: they
\* confirm nothing.
LEMMA PaidMission ==
  ASSUME RuntimeInv, PaidInv, DispatchFacts!DispatchInv,
         Dispatch!Next \/ UNCHANGED Dispatch!vars, Scope' = Scope,
         PrepareReconciling \/ PrepareReady \/ \E e \in Scope : Advance(e)
  PROVE  PaidInv'
<1>1. CASE PrepareReconciling \/ PrepareReady
  <2>1. UNCHANGED <<job, chain>> /\ mission'.effects = mission.effects
    BY <1>1, MissionFacts DEF PrepareReconciling, PrepareReady, Prepare, Like, MissionOver
  <2> QED
    BY <2>1, PaidElsewhere
<1>2. ASSUME NEW e \in Scope, Advance(e)
      PROVE  PaidInv'
  <2>1. UNCHANGED <<job, chain>>
    BY <1>2 DEF Advance
  <2>2. \A f \in Scope :
          mission'.effects[f] = "CHAIN_CONFIRMED" => mission.effects[f] = "CHAIN_CONFIRMED"
    <3>1. mission' = Advanced(mission, e)
      BY <1>2 DEF Advance
    <3>2. \A s \in {"RESERVED", "SUBMITTED"} : s # "CHAIN_CONFIRMED"
      OBVIOUS
    <3> QED
      BY <3>1, <3>2, MissionFacts DEF Advanced, Like, MissionOver, Scope
  <2> QED
    BY <2>1, <2>2, PaidElsewhere
<1> QED
  BY <1>1, <1>2

LEMMA PaidChain ==
  ASSUME RuntimeInv, PaidInv, DispatchFacts!DispatchInv,
         Dispatch!Next \/ UNCHANGED Dispatch!vars,
         NEW e \in Effects, TransferAppears(e) \/ TransferConfirmed(e)
  PROVE  PaidInv'
<1>1. UNCHANGED <<job, mission>> /\ Scope' = Scope
  BY DEF TransferAppears, TransferConfirmed, Scope
<1>2. \A f \in Effects :
        /\ chain[f] = "confirmed" => chain'[f] = "confirmed"
        /\ chain'[f] # "none" => chain[f] # "none" \/ provider[f] = "accepted"
  BY DEF TransferAppears, TransferConfirmed, RuntimeInv
<1> QED
  BY <1>1, <1>2, PaidElsewhere

LEMMA PaidKeeps ==
  ASSUME DistinctTerms, RuntimeInv, Scope = Effects, PaidInv, DispatchFacts!DispatchInv,
         [Next]_vars
  PROVE  PaidInv'
<1>1. (Dispatch!Next \/ UNCHANGED Dispatch!vars) /\ Scope' = Scope
  BY BothKeep, StepsDispatch, ScopeStays DEF RuntimeInv
<1>2. ASSUME NEW r \in Reconcilers, ReconcilerActs(r)
      PROVE  PaidInv'
  <2>1. ASSUME NEW t \in Transfers, ObserveTransfer(r, t)
        PROVE  Grounded(Evidence(job[r], t), job[r])
    <3>1. /\ job[r] \in Job /\ job[r].effect \in Effects
          /\ job[r].seen \in SomeMission /\ job[r].effect \in DOMAIN job[r].seen.effects
      BY <2>1, JobFacts, MissionFacts DEF ObserveTransfer, Snapshotted, Scope
    <3> QED
      BY <3>1, EvidenceGrounded
  <2> QED
    BY <1>2, <2>1, PaidReconciler
<1>3. CASE UNCHANGED <<job, chain, mission>>
  BY <1>1, <1>3, PaidElsewhere
<1>4. CASE PrepareReconciling \/ PrepareReady \/ \E e \in Effects : Advance(e)
  BY <1>1, <1>4, PaidMission
<1>5. CASE \E e \in Effects : TransferAppears(e) \/ TransferConfirmed(e)
  BY <1>1, <1>5, PaidChain
<1>6. CASE \/ \E d \in Dispatchers : DispatcherActs(d)
           \/ \E e \in Effects, c \in Contents : SimulationPrepares(e, c)
           \/ ProviderActs
           \/ UNCHANGED vars
  BY <1>3, <1>6 DEF DispatcherActs, SimulationPrepares, ProviderActs, vars
<1> QED
  BY <1>2, <1>4, <1>5, <1>6 DEF Next

LEMMA PaidStart == Init => PaidInv
BY DEF Init, PaidInv, NoJob, Sure

LEMMA PaidOnce ==
  ASSUME DispatchFacts!DispatchInv, PaidInv, NEW e \in Effects, chain[e] = "confirmed"
  PROVE  posts[e] = 1
<1>1. posts[e] \in Nat /\ posts[e] <= 1 /\ posts[e] # 0
  BY DEF PaidInv, DispatchFacts!DispatchInv, DispatchFacts!TypeOK,
         DispatchFacts!SafetyInv, DispatchFacts!WireInv, DispatchFacts!PaidAtMostOnce
<1> QED
  BY <1>1

\* Whatever reconcilers see, and in whatever order they write, a confirmed
\* effect was posted exactly once and its transfer is deep in the chain; it
\* takes distinct terms, and a wallet that pays nothing else on them.
THEOREM ConfirmationsAreEarned ==
  ASSUME DistinctTerms
  PROVE  Spec => []ConfirmedWasPaid
<1>1. Init => PaidInv
  BY PaidStart
<1>2. RuntimeInv /\ Scope = Effects /\ DispatchFacts!DispatchInv /\ PaidInv /\ [Next]_vars
        => PaidInv'
  BY PaidKeeps
<1>3. RuntimeInv /\ DispatchFacts!DispatchInv /\ PaidInv => ConfirmedWasPaid
  BY PaidOnce, MissionFacts DEF ConfirmedWasPaid, PaidInv, Scope
<1> QED
  BY <1>1, <1>2, <1>3, RuntimeSafety, PTL DEF Spec

\* A completed mission has paid every effect, exactly once each, under the
\* same condition on the terms.
THEOREM CompletionIsEarned ==
  ASSUME DistinctTerms
  PROVE  Spec => []CompletedIsPaid
<1>1. Init => PaidInv
  BY PaidStart
<1>2. RuntimeInv /\ Scope = Effects /\ DispatchFacts!DispatchInv /\ PaidInv /\ [Next]_vars
        => PaidInv'
  BY PaidKeeps
<1>3. RuntimeInv /\ Scope = Effects /\ DispatchFacts!DispatchInv /\ PaidInv
        => CompletedIsPaid
  BY PaidOnce DEF CompletedIsPaid, PaidInv, RuntimeInv, CompletedIsConfirmed
<1> QED
  BY <1>1, <1>2, <1>3, RuntimeSafety, PTL DEF Spec
-----------------------------------------------------------------------------
(***************************************************************************)
(* Who completes the mission.  Once every effect is confirmed and nobody   *)
(* has completed the mission yet, some effect (the last one confirmed) has *)
(* an attempt that is not verified, and whoever works on it will complete  *)
(* the mission before it verifies that attempt.                            *)
(***************************************************************************)
Closable(m) ==
  /\ m.state # "COMPLETED"
  /\ \A e \in DOMAIN m.effects : m.effects[e] = "CHAIN_CONFIRMED"

\* Snapshot m does not show e as confirmed without showing the mission closable.
ShowsAll(m, e) == m.effects[e] = "CHAIN_CONFIRMED" => Closable(m)

Closes(j) ==
  /\ j.at # "verify"
  /\ j.at = "finish" => j.target = "COMPLETED"
  /\ j.at \in Snapshotted => ShowsAll(j.seen, j.effect)

LastInv ==
  Closable(mission) =>
    \E e \in Scope :
      /\ attempts[e].state # "VERIFIED"
      /\ \A r \in Reconcilers : job[r].effect = e => Closes(job[r])

\* The jobs of somebody who still completes the mission.
LEMMA IdleCloses == Closes(NoJob)
BY DEF Closes, NoJob, Snapshotted, MissionLabels

LEMMA MissionCloses ==
  ASSUME NEW j \in Job, NEW m, ShowsAll(m, j.effect),
         NEW at \in {"enter", "step", "reopen", "review", "observe", "finish"}, NEW target,
         at = "finish" => target = "COMPLETED"
  PROVE  Closes(OnMission(j, m, at, target))
<1>1. LET k == OnMission(j, m, at, target)
      IN  k.at = at /\ k.seen = m /\ k.effect = j.effect /\ k.target = target
  BY DEF OnMission, Job
<1> QED
  BY <1>1 DEF Closes

LEMMA UnknownCloses ==
  ASSUME NEW j \in Job
  PROVE  Closes(MarkingUnknown(j))
<1> DEFINE k == OnAttempt([j EXCEPT !.seen = None], "unknown", "EXECUTION_UNKNOWN")
<1>1. k.at = "unknown"
  BY DEF OnAttempt, Job
<1>2. Closes(k)
  BY <1>1 DEF Closes, Snapshotted, MissionLabels
<1> QED
  BY <1>2, IdleCloses DEF MarkingUnknown

LEMMA ReviewCloses ==
  ASSUME NEW j \in Job, NEW m, ShowsAll(m, j.effect)
  PROVE  Closes(Reviewing(j, m))
BY MissionCloses, IdleCloses DEF Reviewing

LEMMA BlockCloses ==
  ASSUME NEW j \in Job, ShowsAll(j.seen, j.effect)
  PROVE  Closes(Blocking(j))
<1>1. LET k == OnAttempt(j, "block", "BLOCKED")
      IN  k.at = "block" /\ k.seen = j.seen /\ k.effect = j.effect
  BY DEF OnAttempt, Job
<1> QED
  BY <1>1, ReviewCloses DEF Blocking, Closes

\* The projection of a confirmed effect ends in the completion.
LEMMA StepCloses ==
  ASSUME NEW m \in SomeMission, NEW j \in Job, j.effect \in DOMAIN m.effects,
         ShowsAll(m, j.effect)
  PROVE  Closes(Stepping(j, m))
<1>1. m.effects[j.effect] \in {"PLANNED", "RESERVED", "SUBMITTED", "CHAIN_CONFIRMED"}
  BY Missions DEF ReachedEffectStates
<1>2. CASE m.effects[j.effect] = "CHAIN_CONFIRMED"
  <2>1. Closable(m)
    BY <1>2 DEF ShowsAll
  <2>2. {m.effects[e] : e \in DOMAIN m.effects} = {"CHAIN_CONFIRMED"}
    BY <1>2, <2>1 DEF Closable
  <2>3. Finishing(j, m) = OnMission(j, m, "finish", "COMPLETED")
    BY <2>1, <2>2 DEF Finishing, Closable
  <2> QED
    BY <1>2, <2>3, MissionCloses DEF Stepping
<1>3. CASE m.effects[j.effect] # "CHAIN_CONFIRMED"
  BY <1>1, <1>3, MissionCloses DEF Stepping
<1> QED
  BY <1>2, <1>3

LEMMA EvidenceCloses ==
  ASSUME NEW j \in Job, j.seen \in SomeMission, j.effect \in DOMAIN j.seen.effects,
         ShowsAll(j.seen, j.effect), NEW t
  PROVE  Closes(Evidence(j, t))
<1>1. Closes(Projecting(j, j.seen))
  BY StepCloses, MissionCloses, IdleCloses DEF Projecting
<1>2. t.terms # Terms[j.effect] \/ (t.terms = Terms[j.effect] /\ ~t.deep)
        \/ (t.terms = Terms[j.effect] /\ t.deep)
  OBVIOUS
<1> QED
  BY <1>1, <1>2, BlockCloses, UnknownCloses, ReviewCloses DEF Evidence

\* Only "finish" leads to the attempt: whoever closes is past it with the
\* mission completed.
LEMMA AfterMissionCloses ==
  ASSUME NEW m \in SomeMission, NEW j \in Job, j.effect \in DOMAIN m.effects,
         j.at \in MissionLabels \ {"finish"}, ShowsAll(m, j.effect)
  PROVE  Closes(AfterMission(j, m))
BY StepCloses, ReviewCloses, IdleCloses DEF AfterMission, MissionLabels

LEMMA AfterAttemptCloses ==
  ASSUME NEW j \in Job, Closes(j)
  PROVE  Closes(AfterAttempt(j))
BY ReviewCloses, IdleCloses DEF AfterAttempt, Closes, Snapshotted

\* A step that makes no mission closable, verifies only what a job is about to
\* verify, and leaves whoever closes closing.
LEMMA StillLast ==
  ASSUME RuntimeInv, LastInv, Scope' = Scope, Closable(mission') => Closable(mission),
         \A e \in Scope :
           attempts'[e].state = "VERIFIED" =>
             \/ attempts[e].state = "VERIFIED"
             \/ \E r \in Reconcilers : job[r].effect = e /\ job[r].at = "verify",
         Closable(mission') =>
           \A q \in Reconcilers :
             \/ job'[q] = job[q]
             \/ Closes(job'[q])
             \/ job'[q].effect = job[q].effect /\ ~Closes(job[q])
  PROVE  LastInv'
<1> SUFFICES ASSUME Closable(mission')
             PROVE  \E e \in Scope :
                      /\ attempts'[e].state # "VERIFIED"
                      /\ \A r \in Reconcilers : job'[r].effect = e => Closes(job'[r])
  BY DEF LastInv
<1>1. PICK e \in Scope :
        /\ attempts[e].state # "VERIFIED"
        /\ \A r \in Reconcilers : job[r].effect = e => Closes(job[r])
  BY DEF LastInv
<1>2. attempts'[e].state # "VERIFIED"
  BY <1>1 DEF Closes
<1> QED
  BY <1>1, <1>2

\* Reconciler r goes on with k, and closes if it did.
LEMMA LastJob ==
  ASSUME RuntimeInv, LastInv, NEW r \in Reconcilers, NEW k,
         job' = [job EXCEPT ![r] = k], mission' = mission,
         \A e \in Scope :
           attempts'[e].state = "VERIFIED" =>
             \/ attempts[e].state = "VERIFIED"
             \/ \E q \in Reconcilers : job[q].effect = e /\ job[q].at = "verify",
         Closable(mission) => Closes(k) \/ (k.effect = job[r].effect /\ ~Closes(job[r]))
  PROVE  LastInv'
<1>1. \A q \in Reconcilers : job'[q] = IF q = r THEN k ELSE job[q]
  BY DEF RuntimeInv, JobsInv
<1> QED
  BY <1>1, StillLast DEF Scope

LEMMA LastWriteMission ==
  ASSUME RuntimeInv, LastInv, NEW r \in Reconcilers, WriteMission(r)
  PROVE  LastInv'
<1> DEFINE j == job[r]
           k == AfterMission(j, mission')
<1>1. /\ JobOK(j, mission) /\ j \in Job /\ j.effect \in Scope
      /\ j.at \in MissionLabels /\ mission \in SomeMission
  BY JobFacts DEF WriteMission, MissionLabels, Scope
<1>2. /\ mission' = Applied(j, mission) /\ Allowed(j, mission)
      /\ job' = [job EXCEPT ![r] = k]
      /\ UNCHANGED attempts
  BY DEF WriteMission, Proceed, dispatch
<1>3. mission' \in SomeMission /\ Scope' = Scope /\ RuntimeInv'
  BY WriteMissionKeeps, ScopeStays DEF RuntimeInv, Next, ReconcilerActs
<1>4. \A q \in Reconcilers : job'[q] = IF q = r THEN k ELSE job[q]
  BY <1>2 DEF RuntimeInv, JobsInv
<1>5. ASSUME Closable(mission'), j.at # "finish"
      PROVE  Closes(k)
  BY <1>1, <1>3, <1>5, AfterMissionCloses DEF ShowsAll, Scope
<1>6. CASE j.at # "step"
  <2>1. mission' = [mission EXCEPT !.state = j.target]
    BY <1>2, <1>6 DEF Applied
  <2>2. mission'.effects = mission.effects /\ mission'.state = j.target
    BY <1>1, <2>1, Missions
  <2>3. mission.state # "COMPLETED"
    BY <1>2, <1>6, MissionTable DEF Allowed, MissionMayMove
  <2>4. Closable(mission') => Closable(mission)
    BY <2>2, <2>3 DEF Closable
  <2>5. j.at = "finish" => k.effect = j.effect \/ Closes(k)
    <3>1. MarkingVerified(j).effect = j.effect \/ MarkingVerified(j) = NoJob
      BY <1>1 DEF MarkingVerified, OnAttempt, Job
    <3>2. j.at = "finish" => k = MarkingVerified(j)
      BY DEF AfterMission
    <3> QED
      BY <3>1, <3>2, IdleCloses
  <2>6. j.at = "finish" /\ Closable(mission') => ~Closes(j)
    BY <2>2 DEF Closes, Closable
  <2>7. Closable(mission') =>
          Closes(k) \/ (k.effect = job[r].effect /\ ~Closes(job[r]))
    BY <1>5, <2>5, <2>6
  <2> QED
    BY <1>2, <1>3, <1>4, <2>4, <2>7, StillLast
<1>7. CASE j.at = "step"
  <2> SUFFICES ASSUME Closable(mission') PROVE LastInv'
    BY DEF LastInv
  <2>1. mission.effects[j.effect] # "CHAIN_CONFIRMED"
    BY <1>2, <1>7, EffectTable DEF Allowed
  <2>2. attempts'[j.effect].state # "VERIFIED"
    BY <1>1, <1>2, <2>1, MissionFacts DEF RuntimeInv, VerifiedInScope
  <2>3. ASSUME NEW q \in Reconcilers, q # r, job[q].effect = j.effect
        PROVE  Closes(job[q])
    BY <1>1, <2>1, <2>3, JobFacts DEF Closes, ShowsAll, JobOK, Precedes, Scope
  <2>4. \A q \in Reconcilers : job'[q].effect = j.effect => Closes(job'[q])
    BY <1>4, <1>5, <1>7, <2>3
  <2> QED
    BY <1>1, <1>3, <2>2, <2>4 DEF LastInv
<1> QED
  BY <1>6, <1>7

LEMMA LastReconciler ==
  ASSUME RuntimeInv, LastInv, DispatchFacts!TypeOK, NEW r \in Reconcilers, ReconcilerActs(r)
  PROVE  LastInv'
<1> DEFINE j == job[r]
           Goes(k) == /\ job' = [job EXCEPT ![r] = k]
                      /\ Closable(mission) =>
                           Closes(k) \/ (k.effect = j.effect /\ ~Closes(j))
<1>1. CASE WriteMission(r)
  BY <1>1, LastWriteMission
<1>2. JobOK(j, mission) /\ j \in Job /\ mission \in SomeMission
  BY JobFacts
<1>3. Closable(mission) => \A e : ShowsAll(mission, e)
  BY DEF ShowsAll
<1>4. CASE WriteReconciledAttempt(r)
  <2>1. /\ job' = [job EXCEPT ![r] = AfterAttempt(j)] /\ mission' = mission
        /\ attempts' = [attempts EXCEPT ![j.effect] =
                          Dispatch!Moved(attempts[j.effect], j.target)]
        /\ j.at \in AttemptLabels
    BY <1>4 DEF WriteReconciledAttempt, Proceed, Dispatch!ReconcilerWrites,
                Dispatch!WriteAttempt
  <2>2. ASSUME NEW e \in Scope, attempts'[e].state = "VERIFIED",
               attempts[e].state # "VERIFIED"
        PROVE  j.effect = e /\ j.at = "verify"
    <3>1. e = j.effect /\ j.target = "VERIFIED"
      BY <2>1, <2>2, MissionFacts DEF Dispatch!Moved, DispatchFacts!TypeOK
    <3> QED
      BY <1>2, <2>1, <3>1 DEF JobOK, AttemptLabels
  <2>3. Closes(AfterAttempt(j)) \/ (AfterAttempt(j).effect = j.effect /\ ~Closes(j))
    BY <1>2, <2>1, AfterAttemptCloses, AfterAttemptOK, IdleCloses DEF Follows
  <2> QED
    BY <2>1, <2>2, <2>3, LastJob
<1>5. ASSUME NEW k, Goes(k), mission' = mission, UNCHANGED attempts
      PROVE  LastInv'
  BY <1>5, LastJob
<1>6. ASSUME NEW e \in Effects, LoadAttempt(r, e)
      PROVE  LastInv'
  <2> DEFINE k == [NoJob EXCEPT !.at = "load", !.effect = e, !.attempt = attempts[e]]
  <2>1. Closes(k)
    BY DEF Closes, NoJob, Snapshotted, MissionLabels
  <2>2. Goes(k) /\ mission' = mission /\ UNCHANGED attempts
    BY <1>6, <2>1 DEF LoadAttempt, dispatch
  <2> QED
    BY <1>5, <2>2
<1>7. CASE LoadMission(r)
  <2>1. PICK k \in {NoJob, OnMission(j, mission, "observe", None)} :
          job' = [job EXCEPT ![r] = k]
    BY <1>7 DEF LoadMission, Proceed
  <2>2. Closable(mission) => Closes(k)
    BY <1>2, <1>3, <2>1, MissionCloses, IdleCloses
  <2> QED
    BY <1>5, <1>7, <2>1, <2>2 DEF LoadMission, dispatch
<1>8. CASE ObserveNothing(r)
  <2>1. Goes(MarkingUnknown(j))
    BY <1>2, <1>8, UnknownCloses DEF ObserveNothing, Proceed
  <2> QED
    BY <1>5, <1>8, <2>1 DEF ObserveNothing, dispatch
<1>9. ASSUME NEW t \in Transfers, ObserveTransfer(r, t)
      PROVE  LastInv'
  <2>1. /\ j.seen \in Like(mission) /\ j.effect \in DOMAIN mission.effects
        /\ j.at = "observe" /\ Precedes(j.seen, mission)
    BY <1>9, JobFacts DEF ObserveTransfer, Snapshotted
  <2>2. j.seen \in SomeMission /\ j.effect \in DOMAIN j.seen.effects
    BY <1>2, <2>1, Missions
  <2>3. Closes(j) => Closes(Evidence(j, t))
    BY <1>2, <2>1, <2>2, EvidenceCloses DEF Closes, Snapshotted
  <2>4. Evidence(j, t).effect = j.effect \/ Evidence(j, t) = NoJob
    BY <1>2, <2>1, EvidenceOK DEF Follows
  <2>5. Goes(Evidence(j, t))
    BY <1>9, <2>3, <2>4, IdleCloses DEF ObserveTransfer, Proceed
  <2> QED
    BY <1>5, <1>9, <2>5 DEF ObserveTransfer, dispatch
<1>10. CASE RereadMission(r)
  <2>1. j.at \in MissionLabels /\ j.effect \in DOMAIN mission.effects
    BY <1>2, <1>10 DEF RereadMission, JobOK, MissionLabels
  <2>2. CASE Reached(j, mission)
    <3>1. job' = [job EXCEPT ![r] = AfterMission(j, mission)]
      BY <1>10, <2>2 DEF RereadMission, Proceed
    <3>2. Closable(mission) /\ j.at = "finish" => ~Closes(j)
      BY <2>2 DEF Reached, Closes, Closable
    <3>3. Closable(mission) /\ j.at # "finish" => Closes(AfterMission(j, mission))
      BY <1>2, <1>3, <2>1, AfterMissionCloses
    <3>4. AfterMission(j, mission).effect = j.effect \/ AfterMission(j, mission) = NoJob
      BY <1>2, <2>1, AfterMissionOK DEF Follows, JobOK
    <3>5. Goes(AfterMission(j, mission))
      BY <3>1, <3>2, <3>3, <3>4, IdleCloses
    <3> QED
      BY <1>5, <1>10, <3>5 DEF RereadMission, dispatch
  <2>3. CASE ~Reached(j, mission)
    <3> DEFINE k == [j EXCEPT !.seen = mission]
    <3>1. job' = [job EXCEPT ![r] = k]
      BY <1>10, <2>3 DEF RereadMission, Proceed
    <3>2. k.at = j.at /\ k.target = j.target /\ k.effect = j.effect /\ k.seen = mission
      BY <1>2 DEF Job
    <3>3. Closable(mission) /\ Closes(j) => Closes(k)
      BY <1>3, <3>2 DEF Closes
    <3>4. Goes(k)
      BY <3>1, <3>2, <3>3
    <3> QED
      BY <1>5, <1>10, <3>4 DEF RereadMission, dispatch
  <2> QED
    BY <2>2, <2>3
<1>11. CASE RereadAttempt(r)
  <2> DEFINE k == [j EXCEPT !.attempt = attempts[j.effect]]
  <2>1. /\ k.at = j.at /\ k.target = j.target /\ k.effect = j.effect /\ k.seen = j.seen
        /\ Closes(j) => Closes(k)
    BY <1>2 DEF Job, Closes
  <2>2. AfterAttempt(j).effect = j.effect \/ AfterAttempt(j) = NoJob
    BY <1>2, <1>11, AfterAttemptOK DEF Follows, RereadAttempt
  <2>3. Closes(j) => Closes(AfterAttempt(j))
    BY <1>2, AfterAttemptCloses
  <2>4. Goes(k) \/ Goes(AfterAttempt(j))
    BY <1>11, <2>1, <2>2, <2>3, IdleCloses DEF RereadAttempt, Proceed
  <2> QED
    BY <1>5, <1>11, <2>4 DEF RereadAttempt, dispatch
<1>12. CASE MoveRefused(r) \/ ReconcilerStops(r)
  <2>1. Goes(NoJob)
    BY <1>12, IdleCloses DEF MoveRefused, ReconcilerStops, Proceed
  <2> QED
    BY <1>5, <1>12, <2>1 DEF MoveRefused, ReconcilerStops, dispatch
<1> QED
  BY <1>1, <1>4, <1>6, <1>7, <1>8, <1>9, <1>10, <1>11, <1>12 DEF ReconcilerActs

LEMMA LastKeeps ==
  ASSUME RuntimeInv, Scope = Effects, LastInv, DispatchFacts!TypeOK, [Next]_vars
  PROVE  LastInv'
<1>1. Scope' = Scope
  BY ScopeStays
<1>2. CASE UNCHANGED <<mission, job, attempts>>
  BY <1>1, <1>2, StillLast
<1>3. CASE PrepareReconciling \/ PrepareReady
  <2>1. /\ UNCHANGED <<job, attempts>> /\ mission'.effects = mission.effects
        /\ mission.state # "COMPLETED"
    BY <1>3, MissionFacts
    DEF PrepareReconciling, PrepareReady, Prepare, Like, MissionOver, dispatch
  <2> QED
    BY <1>1, <2>1, StillLast DEF Closable
<1>4. ASSUME NEW e \in Effects, Advance(e)
      PROVE  LastInv'
  <2>1. UNCHANGED <<job, attempts>>
    BY <1>4 DEF Advance, dispatch
  <2>2. Closable(mission') => Closable(mission)
    <3>1. mission' = Advanced(mission, e)
      BY <1>4 DEF Advance
    <3>2. \A s \in {"RESERVED", "SUBMITTED"} : s # "CHAIN_CONFIRMED"
      OBVIOUS
    <3> QED
      BY <3>1, <3>2, MissionFacts DEF Advanced, Like, MissionOver, Scope, Closable
  <2> QED
    BY <1>1, <2>1, <2>2, StillLast
<1>5. CASE \/ \E d \in Dispatchers : DispatcherActs(d)
           \/ \E e \in Effects, c \in Contents : SimulationPrepares(e, c)
           \/ ProviderActs
  <2>1. UNCHANGED <<mission, job>>
    BY <1>5 DEF DispatcherActs, SimulationPrepares, ProviderActs
  <2>2. \/ \E d \in Dispatchers : Dispatch!DispatcherStep(d)
        \/ \E x \in Effects, c \in Contents : Dispatch!PrepareAttempt(x, c)
        \/ Dispatch!ProviderStep
    BY <1>5 DEF DispatcherActs, SimulationPrepares, ProviderActs
  <2>3. \A e \in Scope : attempts'[e].state = "VERIFIED" => attempts[e].state = "VERIFIED"
    BY <2>2, NobodyElseVerifies
  <2> QED
    BY <1>1, <2>1, <2>3, StillLast
<1>6. CASE \E e \in Effects : TransferAppears(e) \/ TransferConfirmed(e)
  BY <1>2, <1>6 DEF TransferAppears, TransferConfirmed, dispatch
<1>7. CASE UNCHANGED vars
  BY <1>2, <1>7 DEF vars, dispatch
<1> QED
  BY <1>3, <1>4, <1>5, <1>6, <1>7, LastReconciler DEF Next

LEMMA LastStart ==
  ASSUME Effects # {}
  PROVE  Init => LastInv
BY DEF Init, LastInv, Closable

LEMMA LastMeansCompleted ==
  ASSUME RuntimeInv, Scope = Effects, LastInv
  PROVE  AllVerifiedIsCompleted
BY DEF RuntimeInv, VerifiedInScope, LastInv, Closable, AllVerifiedIsCompleted, Scope

\* When the last attempt leaves the recovery candidates the mission is
\* completed: two reconcilers that confirm the last two effects cannot each
\* leave the completion to the other.  An empty mission is refused by the code.
THEOREM NothingLeftIsCompleted ==
  ASSUME Effects # {}
  PROVE  Spec => []AllVerifiedIsCompleted
<1> DEFINE Known == RuntimeInv /\ Scope = Effects /\ DispatchFacts!DispatchInv
<1>1. Spec => []Known
  BY RuntimeSafety
<1>2. Init => LastInv
  BY LastStart
<1>3. Known /\ LastInv /\ [Next]_vars => LastInv'
  BY LastKeeps DEF DispatchFacts!DispatchInv
<1>4. Known /\ LastInv => AllVerifiedIsCompleted
  BY LastMeansCompleted
<1> HIDE DEF Known
<1> QED
  BY <1>1, <1>2, <1>3, <1>4, PTL DEF Spec
-----------------------------------------------------------------------------
(***************************************************************************)
(* Restarts.  A crash of all processes, wherever they are, leaves the      *)
(* stores in order, and the invariants ask nothing more of the past: they  *)
(* hold again after the restart.                                           *)
(***************************************************************************)
\* Only of an accepted payment is there a reference or a transfer.
TracedInv ==
  \A e \in Effects :
    references[e] # None \/ chain[e] # "none" => provider[e] = "accepted"

LEMMA TracedKeeps ==
  ASSUME RuntimeInv, Scope = Effects, DispatchFacts!DispatchInv, TracedInv, [Next]_vars
  PROVE  TracedInv'
<1>1. /\ references \in [Effects -> References \cup {None}]
      /\ provider \in [Effects -> {"idle", "pending", "accepted", "rejected"}]
      /\ chain \in [Effects -> {"none", "recent", "confirmed"}]
      /\ DispatchFacts!CallInv /\ DispatchFacts!WireInv
  BY DEF DispatchFacts!DispatchInv, DispatchFacts!TypeOK, DispatchFacts!SafetyInv, RuntimeInv
<1>2. ASSUME UNCHANGED <<chain, references, provider>>
      PROVE  TracedInv'
  BY <1>2 DEF TracedInv
<1>3. ASSUME NEW d \in Dispatchers, Dispatch!DispatcherStep(d), UNCHANGED chain
      PROVE  TracedInv'
  <2> USE <1>3
  <2>1. DispatchFacts!Knows(pc[d], call[d])
    BY <1>1 DEF DispatchFacts!CallInv
  <2>2. CASE Dispatch!Send(d)
    <3>1. posts[call[d].effect] = 0 /\ call[d].effect \in Effects
      BY <2>1, <2>2 DEF Dispatch!Send, DispatchFacts!Knows, DispatchFacts!DispatchInv, DispatchFacts!TypeOK
    <3>2. provider[call[d].effect] = "idle"
      BY <3>1, <1>1 DEF DispatchFacts!WireInv
    <3> QED
      BY <3>1, <3>2, <2>2, <1>1 DEF Dispatch!Send, Dispatch!durable, TracedInv
  <2>3. CASE Dispatch!PersistReference(d)
    <3>1. provider[call[d].effect] = "accepted"
      BY <2>1, <2>3 DEF Dispatch!PersistReference, DispatchFacts!Knows
    <3> QED
      BY <3>1, <2>3, <1>1 DEF Dispatch!PersistReference, Dispatch!wire, TracedInv
  <2>4. ASSUME ~Dispatch!Send(d), ~Dispatch!PersistReference(d)
        PROVE  UNCHANGED <<references, provider>>
    BY <2>4 DEF Dispatch!DispatcherStep, Dispatch!Begin, Dispatch!CreateAttempt,
         Dispatch!ClaimAttempt, Dispatch!CheckReference, Dispatch!RefuseToSend,
         Dispatch!RejectUnsent, Dispatch!ReceiveAccepted, Dispatch!ReceiveRejected,
         Dispatch!LoseAnswer, Dispatch!Acknowledge, Dispatch!RejectFinal,
         Dispatch!RecordOutcome, Dispatch!MarkUnknown, Dispatch!StoreFails,
         Dispatch!Crash, Dispatch!durable, Dispatch!wire
  <2> QED
    BY <2>2, <2>3, <2>4, <1>2
<1>4. CASE PrepareReconciling \/ PrepareReady \/ \E e \in Effects : Advance(e)
  BY <1>2, <1>4 DEF PrepareReconciling, PrepareReady, Prepare, Advance, dispatch
<1>5. CASE \E d \in Dispatchers : DispatcherActs(d)
  BY <1>3, <1>5 DEF DispatcherActs
<1>6. CASE \E e \in Effects, c \in Contents : SimulationPrepares(e, c)
  BY <1>2, <1>6 DEF SimulationPrepares, Dispatch!PrepareAttempt, Dispatch!wire
<1>7. CASE ProviderActs
  <2>1. PICK e \in Effects, verdict \in {"accepted", "rejected"} :
          Dispatch!ProviderDecides(e, verdict) /\ UNCHANGED chain
    BY <1>7 DEF ProviderActs, Dispatch!ProviderStep
  <2> QED
    BY <2>1, <1>1 DEF Dispatch!ProviderDecides, Dispatch!durable, TracedInv
<1>8. CASE \E e \in Effects : TransferAppears(e) \/ TransferConfirmed(e)
  BY <1>8, <1>1 DEF TransferAppears, TransferConfirmed, dispatch, TracedInv
<1>9. CASE \E r \in Reconcilers : ReconcilerActs(r)
  <2>1. PICK r \in Reconcilers : ReconcilerActs(r)
    BY <1>9
  <2>2. UNCHANGED <<chain, references, provider>>
    BY <2>1 DEF ReconcilerActs, LoadAttempt, LoadMission, ObserveNothing, ObserveTransfer,
         WriteMission, RereadMission, WriteReconciledAttempt, RereadAttempt, MoveRefused,
         ReconcilerStops, dispatch, Dispatch!ReconcilerWrites, Dispatch!wire
  <2> QED
    BY <2>2, <1>2
<1>10. CASE UNCHANGED vars
  BY <1>2, <1>10 DEF vars, dispatch
<1> QED
  BY <1>4, <1>5, <1>6, <1>7, <1>8, <1>9, <1>10 DEF Next

LEMMA StoresAreInOrder ==
  ASSUME RuntimeInv, Scope = Effects, DispatchFacts!DispatchInv, LastInv, TracedInv
  PROVE  StoresInOrder
<1>1. DispatchFacts!TypeOK /\ DispatchFacts!SafetyInv
  BY DEF DispatchFacts!DispatchInv
<1>2. mission \in Mission
  <2>1. mission \in Like(mission)
    BY MissionFacts, MissionIsSome DEF Like, Scope
  <2> QED
    BY <2>1 DEF Like, MissionOver, Mission, Scope
<1>3. attempts \in [Effects -> Dispatch!Attempt \cup {Dispatch!Absent}]
  BY <1>1 DEF DispatchFacts!TypeOK, DispatchFacts!Attempt, DispatchFacts!Absent,
              Dispatch!Attempt, Dispatch!Absent, DispatchFacts!AttemptStates, Dispatch!AttemptStates
<1>4. posts = [e \in Effects |-> IF provider[e] = "idle" THEN 0 ELSE 1]
  <2>1. \A e \in Effects : posts[e] = IF provider[e] = "idle" THEN 0 ELSE 1
    BY <1>1 DEF DispatchFacts!TypeOK, DispatchFacts!SafetyInv, DispatchFacts!WireInv,
                DispatchFacts!PaidAtMostOnce
  <2> QED
    BY <2>1, <1>1 DEF DispatchFacts!TypeOK
<1>5. \A e \in Effects : attempts[e].state \in {"ABSENT", "PREPARED"} => provider[e] = "idle"
  BY <1>1 DEF DispatchFacts!TypeOK, DispatchFacts!SafetyInv, DispatchFacts!WireInv,
              DispatchFacts!NeverSentUnclaimed
<1>6. Dispatch!ReferenceServesOneEffect
  BY <1>1 DEF DispatchFacts!SafetyInv, DispatchFacts!ReferenceServesOneEffect,
              Dispatch!ReferenceServesOneEffect
<1>7. AllVerifiedIsCompleted
  BY LastMeansCompleted
<1> QED
  BY <1>1, <1>2, <1>3, <1>4, <1>5, <1>6, <1>7
  DEF StoresInOrder, RuntimeInv, VerifiedInScope, CompletedIsConfirmed, TracedInv,
      AllVerifiedIsCompleted, DispatchFacts!TypeOK, DispatchFacts!SafetyInv,
      DispatchFacts!AcknowledgedIsTraceable, DispatchFacts!FinalFailureMeansNoPayment

LEMMA RestartRuntime == RestartInit => RuntimeInv /\ Scope = Effects
<1> SUFFICES ASSUME RestartInit PROVE RuntimeInv /\ Scope = Effects
  OBVIOUS
<1>1. mission \in MissionOver(Effects)
  BY DEF RestartInit, StoresInOrder, MissionOver, Mission
<1>2. mission \in SomeMission /\ Scope = Effects
  BY <1>1, MissionIsSome DEF MissionOver, Scope
<1>3. job \in [Reconcilers -> Job] /\ \A r \in Reconcilers : JobOK(job[r], mission)
  <2>1. JobOK(NoJob, mission)
    BY IdleJob DEF Follows
  <2> QED
    BY <2>1 DEF RestartInit, JobOK
<1> QED
  BY <1>2, <1>3
  DEF RestartInit, StoresInOrder, RuntimeInv, JobsInv, CompletedIsConfirmed, VerifiedInScope

LEMMA RestartDispatch == RestartInit => DispatchFacts!DispatchInv
<1> SUFFICES ASSUME RestartInit PROVE DispatchFacts!DispatchInv
  OBVIOUS
<1>1. Dispatchable \subseteq Effects
  BY DEF RestartInit, StoresInOrder, Mission, Dispatchable
<1>2. /\ DispatchFacts!NoCall \in DispatchFacts!Call
      /\ Dispatch!NoCall = DispatchFacts!NoCall
  BY DispatchAssumed, DispatchFacts!CallStarts DEF Dispatch!NoCall, DispatchFacts!NoCall
<1>3. attempts \in [Effects -> DispatchFacts!Attempt \cup {DispatchFacts!Absent}]
  BY DEF RestartInit, StoresInOrder, DispatchFacts!Attempt, DispatchFacts!Absent,
         Dispatch!Attempt, Dispatch!Absent, DispatchFacts!AttemptStates, Dispatch!AttemptStates
<1>4. DispatchFacts!TypeOK
  BY <1>1, <1>2, <1>3
  DEF RestartInit, StoresInOrder, DispatchFacts!TypeOK, DispatchFacts!Labels
<1>5. \A d \in Dispatchers : pc[d] = "idle" /\ pc[d] \notin DispatchFacts!Owning
  BY DEF RestartInit, DispatchFacts!Owning
<1>6. \A e \in Effects : posts[e] = IF provider[e] = "idle" THEN 0 ELSE 1
  BY DEF RestartInit, StoresInOrder
<1>7. DispatchFacts!CallInv
  BY <1>5 DEF DispatchFacts!CallInv, DispatchFacts!Knows
<1>8. DispatchFacts!OneOwner /\ DispatchFacts!SentAsJournaled
  BY <1>5 DEF DispatchFacts!OneOwner, DispatchFacts!SentAsJournaled
<1>9. DispatchFacts!WireInv /\ DispatchFacts!PaidAtMostOnce
  BY <1>6 DEF DispatchFacts!WireInv, DispatchFacts!PaidAtMostOnce
<1>10. DispatchFacts!NeverSentUnclaimed /\ DispatchFacts!AcknowledgedIsTraceable
  BY <1>6 DEF RestartInit, StoresInOrder, DispatchFacts!NeverSentUnclaimed,
              DispatchFacts!AcknowledgedIsTraceable
<1>11. DispatchFacts!FinalFailureMeansNoPayment
  BY <1>5 DEF RestartInit, StoresInOrder, DispatchFacts!FinalFailureMeansNoPayment
<1>12. DispatchFacts!ReferenceServesOneEffect
  BY DEF RestartInit, StoresInOrder, Dispatch!ReferenceServesOneEffect,
         DispatchFacts!ReferenceServesOneEffect
<1> QED
  BY <1>4, <1>7, <1>8, <1>9, <1>10, <1>11, <1>12
  DEF DispatchFacts!DispatchInv, DispatchFacts!SafetyInv

\* An open mission with all its effects confirmed is still somebody's to
\* complete: some attempt is not verified.
LEMMA RestartLast == RestartInit => LastInv
<1> SUFFICES ASSUME RestartInit PROVE LastInv
  OBVIOUS
<1>1. \A r \in Reconcilers : Closes(job[r])
  BY IdleCloses DEF RestartInit
<1>2. mission.state # "COMPLETED" => \E e \in Effects : attempts[e].state # "VERIFIED"
  BY DEF RestartInit, StoresInOrder
<1> QED
  BY <1>1, <1>2, RestartRuntime DEF LastInv, Closable

LEMMA RestartSafety ==
  RestartSpec => [](RuntimeInv /\ Scope = Effects /\ DispatchFacts!DispatchInv /\ LastInv /\ TracedInv)
<1> DEFINE Both == RuntimeInv /\ Scope = Effects /\ DispatchFacts!DispatchInv
<1>1. RestartInit => Both
  BY RestartRuntime, RestartDispatch
<1>2. RestartInit => LastInv /\ TracedInv
  BY RestartLast DEF RestartInit, StoresInOrder, TracedInv
<1>3. Both /\ [Next]_vars => Both'
  BY BothKeep
<1>4. Both /\ LastInv /\ [Next]_vars => LastInv'
  BY LastKeeps DEF DispatchFacts!DispatchInv
<1>5. Both /\ TracedInv /\ [Next]_vars => TracedInv'
  BY TracedKeeps
<1> HIDE DEF Both
<1>6. RestartSpec => [](Both /\ LastInv /\ TracedInv)
  BY <1>1, <1>2, <1>3, <1>4, <1>5, PTL DEF RestartSpec
<1> QED
  BY <1>6 DEF Both

\* Wherever every process is killed, in the first execution or in a recovery,
\* the two databases, the provider and the chain are left as RestartInit finds
\* them: nothing is verified before it is confirmed, acknowledged before its
\* reference, or sent before its claim.  So a restart is any restart.
THEOREM EveryCrashIsARestart ==
  ASSUME Effects # {}
  PROVE  (Spec \/ RestartSpec) => []StoresInOrder
<1> DEFINE Both == RuntimeInv /\ Scope = Effects /\ DispatchFacts!DispatchInv
<1>1. Spec => []Both
  BY RuntimeSafety
<1>2. Init => LastInv /\ TracedInv
  BY LastStart DEF Init, Dispatch!Init, TracedInv
<1>3. Both /\ LastInv /\ [Next]_vars => LastInv'
  BY LastKeeps DEF DispatchFacts!DispatchInv
<1>4. Both /\ TracedInv /\ [Next]_vars => TracedInv'
  BY TracedKeeps
<1>5. Both /\ LastInv /\ TracedInv => StoresInOrder
  BY StoresAreInOrder
<1>6. RestartSpec => [](Both /\ LastInv /\ TracedInv)
  BY RestartSafety
<1> HIDE DEF Both
<1> QED
  BY <1>1, <1>2, <1>3, <1>4, <1>5, <1>6, PTL DEF Spec

\* Recovery after a restart never lets the journal get ahead of the mission:
\* an attempt it verifies has its confirmed effect, however often the
\* reconcilers are killed again.
THEOREM RestartVerifiesInOrder == RestartSpec => []VerifiedIsConfirmed
<1>1. RuntimeInv => VerifiedIsConfirmed
  BY DEF RuntimeInv, VerifiedInScope, VerifiedIsConfirmed
<1> QED
  BY <1>1, RestartSafety, PTL

\* Recovery that has verified every attempt has completed the mission: a crash
\* between the last confirmation and the completion leaves an attempt whose
\* reconciler will complete it, whichever one that is.
THEOREM RecoveredIsCompleted == RestartSpec => []AllVerifiedIsCompleted
<1>1. RuntimeInv /\ Scope = Effects /\ LastInv => AllVerifiedIsCompleted
  BY LastMeansCompleted
<1> QED
  BY <1>1, RestartSafety, PTL
=============================================================================
