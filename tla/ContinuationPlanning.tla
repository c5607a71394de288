------------------------ MODULE ContinuationPlanning ------------------------
(***************************************************************************)
(* The continuation planner (application/continuation_planner.py), the     *)
(* selection that acts on it (application/runtime_evidence_plan.py) and    *)
(* the execution doctor (application/execution_doctor.py, cli/execution_   *)
(* doctor.py), beside a running MissionRuntime.                            *)
(*                                                                         *)
(* A planner is given a mission that was read before, reads the attempts   *)
(* one by one, and its decisions are compared with what the provider and   *)
(* the chain show later still.  Nothing holds the stores meanwhile.        *)
(***************************************************************************)
EXTENDS MissionRuntime

Decisions == {"SKIP_VERIFIED", "EXECUTE_MISSING", "RECONCILE_REQUIRED", "MANUAL_REVIEW"}

DoctorActions ==
  {"SKIP_VERIFIED", "EXECUTE_MISSING", "RECONCILE", "WAIT_FOR_CONFIRMATIONS",
   "MANUAL_REVIEW", "COMPLETE"}

ASSUME PlanningAssumption == None \notin Decisions \cup DoctorActions

VARIABLES
  snapshot,   \* the mission the planner works on
  decisions,  \* its decision for each effect so far
  report      \* next_action of the doctor's last report

planning == <<snapshot, decisions, report>>
planVars == <<vars, planning>>

Undecided == [e \in Effects |-> None]

PlanInit ==
  /\ Init
  /\ snapshot = None
  /\ decisions = Undecided
  /\ report = None
-----------------------------------------------------------------------------
ManualMissionStates == {"MISSION_CONFLICT", "BLOCKED", "MANUAL_REVIEW_REQUIRED"}

PlanningMissionStates == {"READY_FOR_EXECUTION", "RECONCILING"}

UnresolvedEffectStates == {"RESERVED", "SUBMITTED", "EXECUTION_UNKNOWN"}
AmbiguousAttemptStates == {"IN_FLIGHT", "PROVIDER_ACKNOWLEDGED", "EXECUTION_UNKNOWN"}
FailedStates           == {"FAILED_FINAL", "BLOCKED"}

\* _classify once the mission may be planned for: the effect's state against
\* its attempt's.  (The first two are mutations: an attempt that is not final
\* taken for one that never left; a confirmed effect whatever its attempt.)
ContinuedUnlessFinal(effect, attempt) ==
  CASE effect = "PLANNED" /\ attempt \notin FailedStates \cup {"VERIFIED"} -> "EXECUTE_MISSING"
    [] effect = "CHAIN_CONFIRMED" /\ attempt = "VERIFIED" -> "SKIP_VERIFIED"
    [] OTHER -> "RECONCILE_REQUIRED"

ContinuedByMission(effect, attempt) ==
  CASE effect = "PLANNED" /\ attempt \in {"ABSENT", "PREPARED"} -> "EXECUTE_MISSING"
    [] effect = "CHAIN_CONFIRMED" -> "SKIP_VERIFIED"
    [] OTHER -> "RECONCILE_REQUIRED"

Continued(effect, attempt) ==
  CASE effect = "CHAIN_CONFIRMED" /\ attempt = "VERIFIED" -> "SKIP_VERIFIED"
    [] effect = "PLANNED" /\ attempt \in {"ABSENT", "PREPARED"} -> "EXECUTE_MISSING"
    [] effect = "PLANNED" /\ attempt \in AmbiguousAttemptStates -> "RECONCILE_REQUIRED"
    [] effect \in UnresolvedEffectStates /\ attempt \notin FailedStates -> "RECONCILE_REQUIRED"
    [] effect = "CHAIN_CONFIRMED" /\ attempt \notin FailedStates \cup {"VERIFIED"} ->
         "RECONCILE_REQUIRED"
    [] OTHER -> "MANUAL_REVIEW"

\* _classify for a mission that may not be continued yet.
Postponed(effect, attempt) ==
  CASE effect = "CHAIN_CONFIRMED" /\ attempt = "VERIFIED" -> "SKIP_VERIFIED"
    [] effect \in FailedStates -> "MANUAL_REVIEW"
    [] OTHER -> "RECONCILE_REQUIRED"

Classified(state, effect, attempt) ==
  CASE state \in ManualMissionStates -> "MANUAL_REVIEW"
    [] state = "COMPLETED" /\ effect # "CHAIN_CONFIRMED" -> "MANUAL_REVIEW"
    [] state \in PlanningMissionStates \/ (state = "COMPLETED" /\ effect = "CHAIN_CONFIRMED") ->
         Continued(effect, attempt)
    [] OTHER -> Postponed(effect, attempt)

\* Whoever calls plan() has read the mission before.  Planning again forgets
\* what was planned.
ReadMission ==
  /\ snapshot' = mission
  /\ decisions' = Undecided
  /\ report' = None
  /\ UNCHANGED vars

\* plan() looks one attempt up and classifies its effect; the mission is not
\* needed once every effect is.
ClassifyEffect(e) ==
  /\ snapshot # None
  /\ decisions[e] = None
  /\ decisions' = [decisions EXCEPT ![e] =
       Classified(snapshot.state, snapshot.effects[e], attempts[e].state)]
  /\ snapshot' = IF \E other \in Effects : decisions'[other] = None THEN snapshot ELSE None
  /\ UNCHANGED <<vars, report>>

Planned == snapshot = None /\ \A e \in Effects : decisions[e] # None

\* _select_effect: one missing effect of a finished plan becomes an attempt
\* plan, which the canary simulates; the attempt is created PREPARED.
SelectMissing(e, c) ==
  /\ Planned
  /\ decisions[e] = "EXECUTE_MISSING"
  /\ SimulationPrepares(e, c)
  /\ UNCHANGED planning
-----------------------------------------------------------------------------
(***************************************************************************)
(* What may be reported of effect e: nothing, because nobody asked or      *)
(* found out, or what is there, or that it is not there yet, for an        *)
(* observation may be old and its node behind.  Of the chain it may also   *)
(* be another transfer.  RECENT stands for CONFIRMED with fewer            *)
(* confirmations than minimum_confirmations, which is the call's own and   *)
(* may ask for more, or less, than the verifier of the reconcilers did.    *)
(***************************************************************************)
Silence == {"NOT_QUERIED", "UNKNOWN"}

ProviderReports(e) == Silence \cup {"NOT_FOUND"} \cup
  [idle |-> {}, pending |-> {}, accepted |-> {"ACCEPTED"},
   rejected |-> {"REJECTED_FINAL"}][provider[e]]

ChainReports(e) == Silence \cup {"NOT_FOUND"}
  \cup (IF chain[e] = "none" THEN {} ELSE {"RECENT", "CONFIRMED"})
  \cup (IF Outside = {} THEN {} ELSE {"MISMATCH"})

Observations(e) == [provider : ProviderReports(e), chain : ChainReports(e)]

\* _diagnose_effect, by the planner's decision.
VerifiedDiagnosis(seen) ==
  CASE seen.chain = "NOT_FOUND" \/ seen.provider = "REJECTED_FINAL" -> "MANUAL_REVIEW"
    [] seen.chain = "RECENT" /\ seen.provider # "REJECTED_FINAL" -> "WAIT_FOR_CONFIRMATIONS"
    [] OTHER -> "SKIP_VERIFIED"

UnresolvedDiagnosis(seen) ==
  CASE seen.chain = "RECENT" -> "WAIT_FOR_CONFIRMATIONS"
    [] seen.chain = "CONFIRMED" -> "RECONCILE"
    [] seen.chain \notin {"RECENT", "CONFIRMED"} ->
         IF seen.provider = "REJECTED_FINAL" THEN "MANUAL_REVIEW" ELSE "RECONCILE"

MissingDiagnosis(seen) ==
  CASE seen.chain = "RECENT" -> "WAIT_FOR_CONFIRMATIONS"
    [] seen.chain \in {"CONFIRMED", "UNKNOWN"} -> "RECONCILE"
    [] seen.chain \in {"NOT_QUERIED", "NOT_FOUND"} ->
         CASE seen.provider \in {"ACCEPTED", "UNKNOWN"} -> "RECONCILE"
           [] seen.provider = "REJECTED_FINAL" -> "MANUAL_REVIEW"
           [] OTHER -> "EXECUTE_MISSING"

Diagnosed(decision, seen) ==
  CASE seen.chain = "MISMATCH" \/ decision = "MANUAL_REVIEW" -> "MANUAL_REVIEW"
    [] decision = "SKIP_VERIFIED" /\ seen.chain # "MISMATCH" -> VerifiedDiagnosis(seen)
    [] decision = "RECONCILE_REQUIRED" /\ seen.chain # "MISMATCH" -> UnresolvedDiagnosis(seen)
    [] decision = "EXECUTE_MISSING" /\ seen.chain # "MISMATCH" -> MissingDiagnosis(seen)

\* _overall_action: the most cautious of the diagnoses.
Overall(actions) ==
  CASE "MANUAL_REVIEW" \in actions -> "MANUAL_REVIEW"
    [] "MANUAL_REVIEW" \notin actions /\ "WAIT_FOR_CONFIRMATIONS" \in actions ->
         "WAIT_FOR_CONFIRMATIONS"
    [] actions \subseteq {"RECONCILE", "EXECUTE_MISSING", "SKIP_VERIFIED"} ->
         CASE "RECONCILE" \in actions -> "RECONCILE"
           [] actions = {"SKIP_VERIFIED"} -> "COMPLETE"
           [] OTHER -> "EXECUTE_MISSING"

\* diagnose(): one observation for every decision of the plan, no other.
Diagnose ==
  /\ Planned
  /\ \E seen \in [Effects -> UNION {Observations(e) : e \in Effects}] :
       /\ \A e \in Effects : seen[e] \in Observations(e)
       /\ report' = Overall({Diagnosed(decisions[e], seen[e]) : e \in Effects})
  /\ decisions' = Undecided
  /\ UNCHANGED <<vars, snapshot>>

RuntimeStep == Next /\ UNCHANGED planning

PlanNext ==
  \/ RuntimeStep
  \/ ReadMission
  \/ \E e \in Effects : ClassifyEffect(e)
  \/ \E e \in Effects, c \in Contents : SelectMissing(e, c)
  \/ Diagnose

PlanSpec == PlanInit /\ [][PlanNext]_planVars
-----------------------------------------------------------------------------
\* An effect is planned for execution only if nothing was ever sent for it:
\* however old the mission the planner was given, the attempt it reads itself
\* is IN_FLIGHT before anything leaves (continuation_planner.py, "duplicate
\* suppression").
MissingWasNotSent ==
  [][\A e \in Effects :
       decisions[e] = None /\ decisions'[e] = "EXECUTE_MISSING" => posts[e] = 0]_planVars

\* The planner asks for a human about stores as they are only when somebody has
\* already stopped the mission or ended the attempt: no order in which the
\* others write the two stores looks like a contradiction (COMPLETED with an
\* effect in doubt, VERIFIED for a planned effect).
ManualIsGrounded ==
  [][\A e \in Effects :
       decisions[e] = None /\ decisions'[e] = "MANUAL_REVIEW" /\ snapshot = mission =>
         \/ mission.state = "MANUAL_REVIEW_REQUIRED"
         \/ attempts[e].state \in {"BLOCKED", "FAILED_FINAL"}]_planVars

\* Whatever makes the doctor dispute an effect that was planned as verified,
\* the payment is not in question: it was asked for once and is deep in the
\* chain, and the dispute comes from an observer that is behind, asks for more
\* confirmations or takes another transfer for it, never from the provider
\* (execution_doctor.py, SKIP_VERIFIED).
VerifiedDisputesAreFalse ==
  \A e \in Effects : decisions[e] = "SKIP_VERIFIED" =>
    \A seen \in Observations(e) :
      Diagnosed(decisions[e], seen) # "SKIP_VERIFIED" =>
        /\ posts[e] = 1 /\ chain[e] = "confirmed"
        /\ seen.chain \in {"NOT_FOUND", "RECENT", "MISMATCH"}
        /\ seen.provider # "REJECTED_FINAL"

\* A doctor that says COMPLETE says so of a mission that is: every effect paid
\* once, deep in the chain, and the mission completed, although the mission it
\* was planned from is older than the attempts and the observations.
ReportedCompleteIsPaid ==
  report = "COMPLETE" =>
    /\ mission.state = "COMPLETED"
    /\ \A e \in Effects : posts[e] = 1 /\ chain[e] = "confirmed"
=============================================================================
