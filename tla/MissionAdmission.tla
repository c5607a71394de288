-------------------------- MODULE MissionAdmission --------------------------
(***************************************************************************)
(* Durable admission of one mission key (application/mission_admission.py) *)
(* and the preparation that follows it (application/runtime_evidence_      *)
(* plan.py, tools/anna_mark_video_mission.py).                             *)
(*                                                                         *)
(* Any number of processes admit requests with the same mission key, some  *)
(* with another content; any of them may die and be run again.  One step   *)
(* is one transaction of the mission store.  As in MissionRuntime, a       *)
(* revision is abstracted to the set of the processes whose snapshot is    *)
(* current.                                                                *)
(***************************************************************************)
EXTENDS Naturals, Lifecycles

CONSTANTS
  Admitters,  \* processes that may call admit()
  Contents,   \* content fingerprints of requests with this mission key
  None        \* the absent value

ASSUME AdmissionAssumption == None \notin Contents

VARIABLES
  stored,  \* the durable mission: its state and its content
  fresh,   \* admitters whose snapshot is the current revision
  work     \* what each admitter is doing

vars == <<stored, fresh, work>>

Absent == [state |-> "ABSENT", content |-> None]
NoWork == [at |-> "idle", content |-> None, seen |-> "ABSENT", steps |-> 0]

\* _MAX_CAS_STEPS.  (The first is a mutation: one pass of the loop per move.)
OnePassPerMove == 2
MaxCasSteps == 4

Unadmitted == {"RECEIVED", "VALIDATED"}

AdmittedStates ==
  MissionStates \ (Unadmitted \cup {"MISSION_CONFLICT", "BLOCKED"})

Init ==
  /\ stored = Absent
  /\ fresh = {}
  /\ work = [a \in Admitters |-> NoWork]
-----------------------------------------------------------------------------
\* admit() or the caller raises or returns.
Stop(a) ==
  /\ work' = [work EXCEPT ![a] = NoWork]
  /\ fresh' = fresh \ {a}

\* The admitter goes on with a current snapshot, in which the mission is in s.
Saw(a, at, s, steps) ==
  work' = [work EXCEPT ![a] =
    [at |-> at, content |-> work[a].content, seen |-> s, steps |-> steps]]

Start(a, c) ==
  /\ work[a] = NoWork
  /\ work' = [work EXCEPT ![a] =
       [at |-> "create", content |-> c, seen |-> "ABSENT", steps |-> 0]]
  /\ UNCHANGED <<stored, fresh>>

\* Mutation: the duplicate returned whatever its content.
CreateOrReturnAny(a) ==
  /\ work[a].at = "create"
  /\ \/ /\ stored = Absent
        /\ stored' = [state |-> "RECEIVED", content |-> work[a].content]
     \/ /\ stored # Absent
        /\ UNCHANGED stored
  /\ fresh' = fresh \cup {a}
  /\ Saw(a, "advance", stored'.state, 0)

\* store.create: a new RECEIVED mission, the duplicate, or MISSION_CONFLICT.
Create(a) ==
  /\ work[a].at = "create"
  /\ \/ /\ \/ /\ stored = Absent
              /\ stored' = [state |-> "RECEIVED", content |-> work[a].content]
           \/ /\ stored.content = work[a].content
              /\ UNCHANGED stored
        /\ fresh' = fresh \cup {a}
        /\ Saw(a, "advance", stored'.state, 0)
     \/ /\ stored.content \notin {None, work[a].content}
        /\ Stop(a)
        /\ UNCHANGED stored

NextAdmitted(s) == IF s = "RECEIVED" THEN "VALIDATED" ELSE "PERSISTED"

InLoop(a) == work[a].at = "advance" /\ work[a].steps < MaxCasSteps

\* Mutation: the move computed from the snapshot and written over any revision.
AdvanceBlindly(a) ==
  /\ InLoop(a)
  /\ work[a].seen \in Unadmitted
  /\ stored' = [stored EXCEPT !.state = NextAdmitted(work[a].seen)]
  /\ fresh' = {a}
  /\ Saw(a, "advance", NextAdmitted(work[a].seen), work[a].steps + 1)

\* One pass of the loop: a move over the revision seen ...
Advance(a) ==
  /\ InLoop(a)
  /\ work[a].seen \in Unadmitted
  /\ a \in fresh
  /\ stored' = [stored EXCEPT !.state = NextAdmitted(work[a].seen)]
  /\ fresh' = {a}
  /\ Saw(a, "advance", NextAdmitted(work[a].seen), work[a].steps + 1)

\* ... or, the revision being stale, another look ...
LookAgain(a) ==
  /\ InLoop(a)
  /\ work[a].seen \in Unadmitted
  /\ a \notin fresh
  /\ fresh' = fresh \cup {a}
  /\ Saw(a, "advance", stored.state, work[a].steps + 1)
  /\ UNCHANGED stored

\* ... or the way out.  After the last pass there is none: the process raises
\* ADMISSION_CAS_EXHAUSTED, which leaves what a crash leaves.
LeaveLoop(a) ==
  /\ InLoop(a)
  /\ work[a].seen \notin Unadmitted
  /\ work' = [work EXCEPT ![a].at = "final"]
  /\ UNCHANGED <<stored, fresh>>

\* The last read of admit(): its own content in an admitted state, or it
\* raises, which again leaves what a crash leaves.
Admit(a) ==
  /\ work[a].at = "final"
  /\ stored.content = work[a].content
  /\ stored.state \in AdmittedStates
  /\ fresh' = fresh \cup {a}
  /\ Saw(a, "admitted", stored.state, 0)
  /\ UNCHANGED stored

(***************************************************************************)
(* admit_and_prepare_mission and _admit_ready_mission: the two moves to    *)
(* READY_FOR_EXECUTION, without retrying.                                  *)
(***************************************************************************)
Prepare(a, from, target) ==
  /\ work[a].at = "admitted"
  /\ work[a].seen = from
  /\ \/ /\ a \in fresh
        /\ stored' = [stored EXCEPT !.state = target]
        /\ fresh' = {a}
        /\ Saw(a, "admitted", target, 0)
     \/ /\ a \notin fresh
        /\ Stop(a)
        /\ UNCHANGED stored

\* Nothing left to prepare, or nothing that may be: the caller is done.
Finish(a) ==
  /\ work[a].at = "admitted"
  /\ Stop(a)
  /\ UNCHANGED stored

\* The process dies, or a store fails.
Crash(a) ==
  /\ work[a] # NoWork
  /\ Stop(a)
  /\ UNCHANGED stored

AdmitterStep(a) ==
  \/ \E c \in Contents : Start(a, c)
  \/ Create(a)
  \/ Advance(a)
  \/ LookAgain(a)
  \/ LeaveLoop(a)
  \/ Admit(a)
  \/ Prepare(a, "PERSISTED", "RECONCILING")
  \/ Prepare(a, "RECONCILING", "READY_FOR_EXECUTION")
  \/ Finish(a)
  \/ Crash(a)

\* Mutation: a move that leaves the revision as it was.
ExecutionMovesKeepingRevision ==
  /\ stored.state \in MissionStates \ Unadmitted
  /\ \E target \in MissionSuccessors[stored.state] \cap AdmittedStates :
       stored' = [stored EXCEPT !.state = target]
  /\ UNCHANGED <<fresh, work>>

\* Dispatchers and reconcilers take the mission further once it is persisted.
ExecutionMoves ==
  /\ stored.state \in MissionStates \ Unadmitted
  /\ \E target \in MissionSuccessors[stored.state] \cap AdmittedStates :
       stored' = [stored EXCEPT !.state = target]
  /\ fresh' = {}
  /\ UNCHANGED work

Next ==
  \/ \E a \in Admitters : AdmitterStep(a)
  \/ ExecutionMoves

Spec == Init /\ [][Next]_vars
-----------------------------------------------------------------------------
Stored ==
  [state : AdmittedStates \cup Unadmitted, content : Contents] \cup {Absent}

Labels == {"idle", "create", "advance", "final", "admitted"}

Work ==
  [at : Labels, content : Contents \cup {None},
   seen : MissionStates \cup {"ABSENT"}, steps : 0..MaxCasSteps]

\* The shape of the state: admission writes no other state than its own three
\* and a snapshot is what the store holds for as long as it is current.
TypeOK ==
  /\ stored \in Stored
  /\ fresh \subseteq Admitters
  /\ work \in [Admitters -> Work]
  /\ \A a \in fresh :
       work[a].at \notin {"idle", "create"} /\ work[a].seen = stored.state

\* ADMISSION_CAS_EXHAUSTED cannot happen, however many processes admit the
\* same mission at once: a lost revision always means that it advanced.
NeverExhausted ==
  \A a \in Admitters : work[a].at = "advance" => work[a].steps < MaxCasSteps

\* A mission key stands for one content: a process that gets past create()
\* works on the mission it asked for, so nobody advances, prepares or reports
\* as admitted a mission stored by a request with another content.
OneContentPerKey ==
  \A a \in Admitters :
    work[a].at \notin {"idle", "create"} => stored.content = work[a].content

\* The stages of a mission; execution goes around in the last ones.
Stage(s) ==
  CASE s = "ABSENT" -> 0
    [] s = "RECEIVED" -> 1
    [] s = "VALIDATED" -> 2
    [] s = "PERSISTED" -> 3
    [] OTHER -> 4

\* Admitting again, after a crash or late, never takes a mission back: one
\* that is being executed is not made dispatchable by a second admission.
NeverTakenBack == [][Stage(stored'.state) >= Stage(stored.state)]_vars

(***************************************************************************)
(* What makes these properties inductive: how many passes of the loop a    *)
(* stage can cost, and that a stale snapshot is of an earlier stage.       *)
(***************************************************************************)
PassInv ==
  \A a \in Admitters :
    work[a].at = "advance" =>
      /\ work[a].seen \in AdmittedStates \cup Unadmitted
      /\ work[a].steps <= 2
      /\ work[a].seen = "VALIDATED" => work[a].steps <= 1
      /\ work[a].seen = "RECEIVED" => work[a].steps = 0
      /\ work[a].seen \in Unadmitted /\ a \notin fresh =>
           Stage(work[a].seen) < Stage(stored.state)

AdmissionInv ==
  /\ TypeOK
  /\ OneContentPerKey
  /\ \A a \in Admitters : work[a].at # "idle" => work[a].content \in Contents
  /\ PassInv
=============================================================================
