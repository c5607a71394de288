----------------------------- MODULE Lifecycles -----------------------------
(***************************************************************************)
(* The three closed state machines of the system and their transition      *)
(* tables: missions and effects (domain/mission_models.py and              *)
(* domain/mission_transitions.py), execution attempts                      *)
(* (domain/execution_attempts.py).  No variables: every module that reads  *)
(* or writes a durable record takes its legal moves from here.             *)
(***************************************************************************)

MissionStates ==
  {"RECEIVED", "VALIDATED", "PERSISTED", "RECONCILING",
   "READY_FOR_EXECUTION", "EXECUTING", "VERIFYING", "COMPLETED",
   "MISSION_CONFLICT", "BLOCKED", "EXECUTION_UNKNOWN",
   "VERIFICATION_FAILED", "MANUAL_REVIEW_REQUIRED"}

EffectStates ==
  {"PLANNED", "RESERVED", "SUBMITTED", "EXECUTION_UNKNOWN",
   "CHAIN_CONFIRMED", "FAILED_FINAL", "BLOCKED"}

AttemptStates ==
  {"PREPARED", "IN_FLIGHT", "PROVIDER_ACKNOWLEDGED", "EXECUTION_UNKNOWN",
   "VERIFIED", "FAILED_FINAL", "BLOCKED"}

(***************************************************************************)
(* Successor sets.  A state that is missing from every branch is terminal. *)
(***************************************************************************)
Escalations == {"MANUAL_REVIEW_REQUIRED", "BLOCKED"}

MissionSuccessors ==
  [s \in MissionStates |->
    CASE s = "RECEIVED" -> {"VALIDATED", "MISSION_CONFLICT", "BLOCKED"}
      [] s = "VALIDATED" -> {"PERSISTED", "MISSION_CONFLICT", "BLOCKED"}
      [] s = "PERSISTED" -> {"RECONCILING", "BLOCKED"}
      [] s = "RECONCILING" ->
           {"READY_FOR_EXECUTION", "EXECUTION_UNKNOWN",
            "VERIFICATION_FAILED", "COMPLETED"} \cup Escalations
      [] s = "READY_FOR_EXECUTION" ->
           {"EXECUTING", "RECONCILING"} \cup Escalations
      [] s = "EXECUTING" ->
           {"VERIFYING", "EXECUTION_UNKNOWN", "RECONCILING"} \cup Escalations
      [] s = "VERIFYING" ->
           {"COMPLETED", "EXECUTION_UNKNOWN", "VERIFICATION_FAILED",
            "RECONCILING"} \cup Escalations
      [] s \in {"EXECUTION_UNKNOWN", "VERIFICATION_FAILED"} ->
           {"RECONCILING"} \cup Escalations
      [] OTHER -> {}]

EffectSuccessors ==
  [s \in EffectStates |->
    CASE s = "PLANNED" -> {"RESERVED", "BLOCKED"}
      [] s = "RESERVED" -> {"SUBMITTED", "BLOCKED"}
      [] s = "SUBMITTED" ->
           {"EXECUTION_UNKNOWN", "CHAIN_CONFIRMED", "FAILED_FINAL", "BLOCKED"}
      [] s = "EXECUTION_UNKNOWN" ->
           {"CHAIN_CONFIRMED", "FAILED_FINAL", "BLOCKED"}
      [] OTHER -> {}]

AttemptSuccessors ==
  [s \in AttemptStates |->
    CASE s = "PREPARED" -> {"IN_FLIGHT", "VERIFIED", "BLOCKED"}
      [] s = "IN_FLIGHT" ->
           {"PROVIDER_ACKNOWLEDGED", "EXECUTION_UNKNOWN", "FAILED_FINAL",
            "VERIFIED", "BLOCKED"}
      [] s = "PROVIDER_ACKNOWLEDGED" ->
           {"VERIFIED", "EXECUTION_UNKNOWN", "FAILED_FINAL", "BLOCKED"}
      [] s = "EXECUTION_UNKNOWN" -> {"VERIFIED", "FAILED_FINAL", "BLOCKED"}
      [] OTHER -> {}]

(***************************************************************************)
(* transition_mission: a table move, and COMPLETED only when every effect  *)
(* of the record is CHAIN_CONFIRMED.                                       *)
(***************************************************************************)
MissionMayMove(state, effects, target) ==
  /\ target \in MissionSuccessors[state]
  /\ target = "COMPLETED" =>
       \A e \in DOMAIN effects : effects[e] = "CHAIN_CONFIRMED"
=============================================================================
