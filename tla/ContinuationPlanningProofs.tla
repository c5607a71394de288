---------------------- MODULE ContinuationPlanningProofs ----------------------
(***************************************************************************)
(* Proofs about ContinuationPlanning: the planner and the doctor read the  *)
(* stores without holding them, and only what can no longer change may be  *)
(* concluded from an old reading.                                          *)
(***************************************************************************)
EXTENDS ContinuationPlanning, MissionRuntimeProofs

PlanShape == decisions \in [Effects -> Decisions \cup {None}]

\* What was concluded from attempts that were verified: they still are.
PlanInv ==
  /\ PlanShape
  /\ \A e \in Effects :
       decisions[e] = "SKIP_VERIFIED" => attempts[e].state = "VERIFIED"
  /\ report = "COMPLETE" => \A e \in Effects : attempts[e].state = "VERIFIED"
-----------------------------------------------------------------------------
\* The planner adds to the runtime nothing that it could not do by itself.
LEMMA PlanStep == [PlanNext]_planVars => [Next]_vars
<1>1. ASSUME NEW e \in Effects, NEW c \in Contents, SelectMissing(e, c)
      PROVE  Next
  BY <1>1 DEF SelectMissing, Next
<1> QED
  BY <1>1 DEF PlanNext, planVars, RuntimeStep, ReadMission, ClassifyEffect, Diagnose

\* Planning and diagnosing leave the runtime a MissionRuntime: whatever is
\* proved of that one holds with planners and doctors beside it.
THEOREM PlanningIsPassive == PlanSpec => Spec
<1>1. PlanInit => Init
  BY DEF PlanInit
<1> QED
  BY <1>1, PlanStep, PTL DEF PlanSpec, Spec

\* Beside a planner and a doctor too, the dispatch layer is ExecutionDispatch.
THEOREM PlanningImplementsDispatch == PlanSpec => RefinesDispatch
BY PlanningIsPassive, RuntimeImplementsDispatch

\* The tables of _classify, _diagnose_effect and _overall_action, as far as the
\* proofs need them.
LEMMA ClassifiedTable ==
  ASSUME NEW state, NEW effect, NEW attempt
  PROVE  /\ Classified(state, effect, attempt) \in Decisions
         /\ Classified(state, effect, attempt) = "SKIP_VERIFIED" =>
              effect = "CHAIN_CONFIRMED" /\ attempt = "VERIFIED"
         /\ Classified(state, effect, attempt) = "EXECUTE_MISSING" =>
              attempt \in {"ABSENT", "PREPARED"}
<1> DEFINE Right(x) ==
      /\ x \in Decisions
      /\ x = "SKIP_VERIFIED" => effect = "CHAIN_CONFIRMED" /\ attempt = "VERIFIED"
      /\ x = "EXECUTE_MISSING" => attempt \in {"ABSENT", "PREPARED"}
<1>1. Right(Continued(effect, attempt))
  BY DEF Continued, Decisions
<1>2. Right(Postponed(effect, attempt))
  BY DEF Postponed, Decisions
<1>3. Right("MANUAL_REVIEW")
  BY DEF Decisions
<1> HIDE DEF Right
<1>4. Right(Classified(state, effect, attempt))
  BY <1>1, <1>2, <1>3 DEF Classified
<1> QED
  BY <1>4 DEF Right

ChainViews ==
  {"NOT_QUERIED", "UNKNOWN", "NOT_FOUND", "RECENT", "CONFIRMED", "MISMATCH"}

Diagnoses == DoctorActions \ {"COMPLETE"}

LEMMA DiagnosedTable ==
  ASSUME NEW decision \in Decisions, NEW seen, seen.chain \in ChainViews
  PROVE  /\ Diagnosed(decision, seen) \in Diagnoses
         /\ Diagnosed(decision, seen) = "SKIP_VERIFIED" => decision = "SKIP_VERIFIED"
<1> DEFINE Careful(x) == x \in Diagnoses \ {"SKIP_VERIFIED"}
<1>1. Careful(UnresolvedDiagnosis(seen))
  BY DEF UnresolvedDiagnosis, Diagnoses, DoctorActions
<1>2. ASSUME seen.chain # "MISMATCH"
      PROVE  Careful(MissingDiagnosis(seen))
  <2>1. CASE seen.chain \in {"RECENT", "CONFIRMED", "UNKNOWN"}
    BY <2>1 DEF MissingDiagnosis, Diagnoses, DoctorActions
  <2>2. CASE seen.chain \in {"NOT_QUERIED", "NOT_FOUND"}
    <3>1. MissingDiagnosis(seen) = CASE seen.provider \in {"ACCEPTED", "UNKNOWN"} -> "RECONCILE"
                                     [] seen.provider = "REJECTED_FINAL" -> "MANUAL_REVIEW"
                                     [] OTHER -> "EXECUTE_MISSING"
      BY <2>2 DEF MissingDiagnosis
    <3> QED
      BY <3>1 DEF Diagnoses, DoctorActions
  <2> QED
    BY <1>2, <2>1, <2>2 DEF ChainViews
<1>3. VerifiedDiagnosis(seen) \in Diagnoses
  BY DEF VerifiedDiagnosis, Diagnoses, DoctorActions
<1>4. Careful("MANUAL_REVIEW")
  BY DEF Diagnoses, DoctorActions
<1> QED
  BY <1>1, <1>2, <1>3, <1>4 DEF Diagnosed, Decisions

LEMMA OverallTable ==
  ASSUME NEW actions \in SUBSET Diagnoses, Overall(actions) = "COMPLETE"
  PROVE  actions = {"SKIP_VERIFIED"}
<1>1. CASE "MANUAL_REVIEW" \in actions \/ "WAIT_FOR_CONFIRMATIONS" \in actions
  BY <1>1 DEF Overall
<1>2. CASE "MANUAL_REVIEW" \notin actions /\ "WAIT_FOR_CONFIRMATIONS" \notin actions
  <2>1. actions \subseteq {"RECONCILE", "EXECUTE_MISSING", "SKIP_VERIFIED"}
    BY <1>2 DEF Diagnoses, DoctorActions
  <2>2. Overall(actions) = CASE "RECONCILE" \in actions -> "RECONCILE"
                             [] actions = {"SKIP_VERIFIED"} -> "COMPLETE"
                             [] OTHER -> "EXECUTE_MISSING"
    BY <1>2, <2>1 DEF Overall
  <2> QED
    BY <2>2
<1> QED
  BY <1>1, <1>2

LEMMA ReportsAreKnown ==
  ASSUME NEW e \in Effects, NEW seen \in Observations(e)
  PROVE  seen.chain \in ChainViews
BY DEF Observations, ChainReports, Silence, ChainViews
-----------------------------------------------------------------------------
LEMMA PlanStart == PlanInit => PlanInv
BY PlanningAssumption DEF PlanInit, PlanInv, PlanShape, Undecided, Decisions, DoctorActions

LEMMA VerifiedStays ==
  ASSUME RuntimeInv, RuntimeInv', DispatchFacts!DispatchInv, [Next]_vars,
         NEW e \in Effects, attempts[e].state = "VERIFIED"
  PROVE  attempts'[e].state = "VERIFIED"
<1>0. mission' \in SomeMission
  BY DEF RuntimeInv
<1>1. Dispatch!Next \/ UNCHANGED Dispatch!vars
  BY <1>0, StepsDispatch
<1>2. [DispatchFacts!Next]_(DispatchFacts!vars)
  BY <1>1, SameDispatch DEF Dispatch!vars, DispatchFacts!vars
<1> QED
  BY <1>2, DispatchAssumed, DispatchFacts!FinalStays DEF DispatchFacts!DispatchInv

LEMMA PlanKeeps ==
  ASSUME RuntimeInv, RuntimeInv', DispatchFacts!DispatchInv, PlanInv, [PlanNext]_planVars
  PROVE  PlanInv'
<1>1. \A e \in Effects : attempts[e].state = "VERIFIED" => attempts'[e].state = "VERIFIED"
  BY PlanStep, VerifiedStays
<1>2. CASE UNCHANGED planning
  BY <1>1, <1>2 DEF planning, PlanInv, PlanShape
<1>3. None \notin Decisions /\ None # "COMPLETE"
  BY PlanningAssumption DEF DoctorActions
<1>4. "SKIP_VERIFIED" \in Decisions
  BY DEF Decisions
<1>5. Undecided \in [Effects -> Decisions \cup {None}]
      /\ \A e \in Effects : Undecided[e] # "SKIP_VERIFIED"
  BY <1>3, <1>4 DEF Undecided
<1>6. CASE ReadMission
  BY <1>3, <1>5, <1>6 DEF ReadMission, PlanInv, PlanShape
<1>7. ASSUME NEW e \in Effects, ClassifyEffect(e)
      PROVE  PlanInv'
  <2> DEFINE x == Classified(snapshot.state, snapshot.effects[e], attempts[e].state)
  <2>1. /\ decisions' = [decisions EXCEPT ![e] = x]
        /\ UNCHANGED <<attempts, report>>
    BY <1>7 DEF ClassifyEffect, vars, dispatch
  <2>2. x \in Decisions /\ (x = "SKIP_VERIFIED" => attempts[e].state = "VERIFIED")
    BY ClassifiedTable
  <2> HIDE DEF x
  <2> QED
    BY <2>1, <2>2 DEF PlanInv, PlanShape
<1>8. CASE Diagnose
  <2>1. decisions' = Undecided /\ Planned /\ UNCHANGED attempts
    BY <1>8 DEF Diagnose, vars, dispatch
  <2>2. PICK seen : /\ \A e \in Effects : seen[e] \in Observations(e)
                    /\ report' = Overall({Diagnosed(decisions[e], seen[e]) : e \in Effects})
    BY <1>8 DEF Diagnose
  <2> DEFINE actions == {Diagnosed(decisions[e], seen[e]) : e \in Effects}
  <2>3. ASSUME NEW e \in Effects
        PROVE  decisions[e] \in Decisions /\ seen[e].chain \in ChainViews
    BY <2>1, <2>2, ReportsAreKnown DEF Planned, PlanInv, PlanShape
  <2>4. actions \subseteq Diagnoses
    BY <2>3, DiagnosedTable
  <2>6. report' = Overall(actions)
    BY <2>2
  <2>7. report' = "COMPLETE" => actions = {"SKIP_VERIFIED"}
    <3> HIDE DEF actions
    <3> QED
      BY <2>4, <2>6, OverallTable
  <2>5. ASSUME report' = "COMPLETE", NEW e \in Effects
        PROVE  attempts[e].state = "VERIFIED"
    <3>1. actions = {"SKIP_VERIFIED"}
      BY <2>5, <2>7
    <3>2. Diagnosed(decisions[e], seen[e]) = "SKIP_VERIFIED"
      BY <3>1
    <3> QED
      BY <2>3, <3>2, DiagnosedTable DEF PlanInv
  <2> QED
    BY <1>5, <2>1, <2>5 DEF PlanInv, PlanShape
<1> QED
  BY <1>2, <1>6, <1>7, <1>8
  DEF PlanNext, planVars, planning, RuntimeStep, SelectMissing

\* The invariants of the runtime and that of the planner.
LEMMA PlanSafety ==
  PlanSpec =>
    [](RuntimeInv /\ Scope = Effects /\ DispatchFacts!DispatchInv /\ PlanInv)
<1> DEFINE Known == RuntimeInv /\ Scope = Effects /\ DispatchFacts!DispatchInv
<1>1. PlanSpec => []Known
  BY PlanningIsPassive, RuntimeSafety
<1>2. PlanInit => PlanInv
  BY PlanStart
<1>3. Known /\ Known' /\ PlanInv /\ [PlanNext]_planVars => PlanInv'
  BY PlanKeeps
<1> HIDE DEF Known
<1>4. PlanSpec => [](Known /\ PlanInv)
  BY <1>1, <1>2, <1>3, PTL DEF PlanSpec
<1> QED
  BY <1>4 DEF Known
-----------------------------------------------------------------------------
\* An effect is planned for execution only if nothing was sent for it, however
\* old the mission the planner was given and whoever works beside it.
THEOREM MissingMeansNotSent == PlanSpec => MissingWasNotSent
<1> DEFINE Known == DispatchFacts!DispatchInv /\ PlanInv
           Kept == \A e \in Effects :
                     decisions[e] = None /\ decisions'[e] = "EXECUTE_MISSING" => posts[e] = 0
<1>1. Known /\ [PlanNext]_planVars => [Kept]_planVars
  <2> SUFFICES ASSUME Known, PlanNext, NEW e \in Effects,
                      decisions[e] = None, decisions'[e] = "EXECUTE_MISSING"
               PROVE  posts[e] = 0
    BY Zenon
  <2>1. "EXECUTE_MISSING" # None
    BY PlanningAssumption DEF Decisions
  <2>2. ~UNCHANGED decisions /\ decisions' # Undecided
    BY <2>1 DEF Undecided
  <2>3. PICK f \in Effects : ClassifyEffect(f)
    BY <2>2 DEF PlanNext, RuntimeStep, planning, ReadMission, SelectMissing, Diagnose
  <2>4. f = e
    BY <2>1, <2>3 DEF ClassifyEffect, PlanInv, PlanShape
  <2>5. decisions'[e] = Classified(snapshot.state, snapshot.effects[e], attempts[e].state)
    BY <2>3, <2>4 DEF ClassifyEffect, PlanInv, PlanShape
  <2>6. attempts[e].state \in {"ABSENT", "PREPARED"}
    BY <2>5, ClassifiedTable
  <2> QED
    BY <2>6 DEF DispatchFacts!DispatchInv, DispatchFacts!TypeOK, DispatchFacts!SafetyInv,
                DispatchFacts!NeverSentUnclaimed
<1>2. PlanSpec => []Known
  BY PlanSafety, PTL
<1> HIDE DEF Known, Kept
<1>3. PlanSpec => [][Kept]_planVars
  BY <1>1, <1>2, PTL DEF PlanSpec
<1> QED
  BY <1>3 DEF Kept, MissingWasNotSent

\* A planner that looks at the stores as they are asks for a human only where
\* somebody stopped the mission or ended the attempt: the order in which the
\* two databases are written never looks like a contradiction.
THEOREM ManualHasAReason == PlanSpec => ManualIsGrounded
<1> DEFINE Known == RuntimeInv /\ Scope = Effects /\ DispatchFacts!DispatchInv /\ PlanInv
           Kept == \A e \in Effects :
                     decisions[e] = None /\ decisions'[e] = "MANUAL_REVIEW" /\ snapshot = mission =>
                       \/ mission.state = "MANUAL_REVIEW_REQUIRED"
                       \/ attempts[e].state \in {"BLOCKED", "FAILED_FINAL"}
<1>1. Known /\ [PlanNext]_planVars => [Kept]_planVars
  <2> SUFFICES ASSUME Known, PlanNext, NEW e \in Effects, snapshot = mission,
                      decisions[e] = None, decisions'[e] = "MANUAL_REVIEW",
                      mission.state # "MANUAL_REVIEW_REQUIRED",
                      attempts[e].state \notin {"BLOCKED", "FAILED_FINAL"}
               PROVE  FALSE
    BY Zenon
  <2>1. "MANUAL_REVIEW" # None
    BY PlanningAssumption DEF Decisions
  <2>2. ~UNCHANGED decisions /\ decisions' # Undecided
    BY <2>1 DEF Undecided
  <2>3. PICK f \in Effects : ClassifyEffect(f)
    BY <2>2 DEF PlanNext, RuntimeStep, planning, ReadMission, SelectMissing, Diagnose
  <2>4. f = e
    BY <2>1, <2>3 DEF ClassifyEffect, PlanInv, PlanShape
  <2> DEFINE effect == mission.effects[e]
             attempt == attempts[e].state
  <2>5. Classified(mission.state, effect, attempt) = "MANUAL_REVIEW"
    BY <2>3, <2>4 DEF ClassifyEffect, PlanInv, PlanShape
  <2>6. /\ mission.state \in ReachedMissionStates \ {"MANUAL_REVIEW_REQUIRED"}
        /\ effect \in ReachedEffectStates
    BY Missions DEF RuntimeInv, Scope
  <2>7. attempt \in {"ABSENT", "PREPARED", "IN_FLIGHT", "PROVIDER_ACKNOWLEDGED",
                     "EXECUTION_UNKNOWN", "VERIFIED"}
    BY DEF DispatchFacts!DispatchInv, DispatchFacts!TypeOK, DispatchFacts!Attempt,
           DispatchFacts!Absent, DispatchFacts!AttemptStates
  <2>8. /\ attempt = "VERIFIED" => effect = "CHAIN_CONFIRMED"
        /\ mission.state = "COMPLETED" => effect = "CHAIN_CONFIRMED"
    BY DEF RuntimeInv, VerifiedInScope, CompletedIsConfirmed, Scope
  <2> HIDE DEF effect, attempt
  <2>9. Continued(effect, attempt) # "MANUAL_REVIEW"
    BY <2>6, <2>7, <2>8
    DEF Continued, AmbiguousAttemptStates, UnresolvedEffectStates, FailedStates,
        ReachedEffectStates
  <2>10. Postponed(effect, attempt) # "MANUAL_REVIEW"
    BY <2>6 DEF Postponed, FailedStates, ReachedEffectStates
  <2> QED
    BY <2>5, <2>6, <2>8, <2>9, <2>10
    DEF Classified, ManualMissionStates, ReachedMissionStates, PlanningMissionStates
<1>2. PlanSpec => []Known
  BY PlanSafety, PTL
<1> HIDE DEF Known, Kept
<1>3. PlanSpec => [][Kept]_planVars
  BY <1>1, <1>2, PTL DEF PlanSpec
<1> QED
  BY <1>3 DEF Kept, ManualIsGrounded
-----------------------------------------------------------------------------
\* What is verified is in the chain, if a transfer tells whose it is.
LEMMA VerifiedIsPaid ==
  ASSUME RuntimeInv, DispatchFacts!DispatchInv, PaidInv, NEW e \in Effects,
         attempts[e].state = "VERIFIED"
  PROVE  chain[e] = "confirmed" /\ provider[e] = "accepted" /\ posts[e] = 1
<1>1. chain[e] = "confirmed"
  BY DEF RuntimeInv, VerifiedInScope, PaidInv
<1> QED
  BY <1>1, PaidOnce DEF PaidInv

LEMMA PlanPaid ==
  ASSUME DistinctTerms
  PROVE  PlanSpec => []PaidInv
<1> DEFINE Known == RuntimeInv /\ Scope = Effects /\ DispatchFacts!DispatchInv
<1>1. PlanSpec => []Known
  BY PlanSafety, PTL
<1>2. PlanInit => PaidInv
  BY PaidStart DEF PlanInit
<1>3. Known /\ PaidInv /\ [PlanNext]_planVars => PaidInv'
  BY PlanStep, PaidKeeps
<1> HIDE DEF Known
<1> QED
  BY <1>1, <1>2, <1>3, PTL DEF PlanSpec

\* A doctor that disputes a payment planned as verified disputes one that was
\* made and is deep in the chain: what it was shown is old, or of another
\* transfer, or it asks for more confirmations than the verification did.
THEOREM DisputesOfVerifiedAreFalse ==
  ASSUME DistinctTerms
  PROVE  PlanSpec => []VerifiedDisputesAreFalse
<1> DEFINE Known == RuntimeInv /\ Scope = Effects /\ DispatchFacts!DispatchInv /\ PlanInv
<1>1. Known /\ PaidInv => VerifiedDisputesAreFalse
  <2> SUFFICES ASSUME Known, PaidInv, NEW e \in Effects, decisions[e] = "SKIP_VERIFIED",
                      NEW seen \in Observations(e),
                      Diagnosed("SKIP_VERIFIED", seen) # "SKIP_VERIFIED"
               PROVE  /\ posts[e] = 1 /\ chain[e] = "confirmed"
                      /\ seen.chain \in {"NOT_FOUND", "RECENT", "MISMATCH"}
                      /\ seen.provider # "REJECTED_FINAL"
    BY DEF VerifiedDisputesAreFalse
  <2>1. posts[e] = 1 /\ chain[e] = "confirmed" /\ provider[e] = "accepted"
    BY VerifiedIsPaid DEF PlanInv
  <2>2. seen.provider \in {"NOT_QUERIED", "UNKNOWN", "NOT_FOUND", "ACCEPTED"}
    BY <2>1 DEF Observations, ProviderReports, Silence
  <2>3. CASE seen.chain \in {"NOT_FOUND", "RECENT", "MISMATCH"}
    BY <2>1, <2>2, <2>3
  <2>4. CASE seen.chain \in {"NOT_QUERIED", "UNKNOWN", "CONFIRMED"}
    BY <2>2, <2>4 DEF Diagnosed, VerifiedDiagnosis
  <2> QED
    BY <2>3, <2>4, ReportsAreKnown DEF ChainViews
<1>2. PlanSpec => []Known
  BY PlanSafety
<1>3. PlanSpec => []PaidInv
  BY PlanPaid
<1> HIDE DEF Known
<1> QED
  BY <1>1, <1>2, <1>3, PTL

\* A doctor that says COMPLETE is right, now and for ever after, although it
\* looked at the mission, the attempts and the chain at different times.
THEOREM CompleteReportsAreTrue ==
  ASSUME DistinctTerms, Effects # {}
  PROVE  PlanSpec => []ReportedCompleteIsPaid
<1> DEFINE Known == RuntimeInv /\ Scope = Effects /\ DispatchFacts!DispatchInv /\ PlanInv
<1>1. Known /\ PaidInv /\ AllVerifiedIsCompleted => ReportedCompleteIsPaid
  BY VerifiedIsPaid DEF PlanInv, AllVerifiedIsCompleted, ReportedCompleteIsPaid
<1>2. PlanSpec => []Known
  BY PlanSafety
<1>3. PlanSpec => []PaidInv
  BY PlanPaid
<1>4. PlanSpec => []AllVerifiedIsCompleted
  BY PlanningIsPassive, NothingLeftIsCompleted
<1> HIDE DEF Known
<1> QED
  BY <1>1, <1>2, <1>3, <1>4, PTL
=============================================================================
