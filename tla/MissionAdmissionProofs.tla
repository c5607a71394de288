------------------------ MODULE MissionAdmissionProofs ------------------------
(***************************************************************************)
(* Admission is safe for any number of processes and contents.             *)
(***************************************************************************)
EXTENDS MissionAdmission, TLAPS

\* The stage of every state, spelled out.
LEMMA Stages ==
  /\ Stage("ABSENT") = 0
  /\ Stage("RECEIVED") = 1
  /\ Stage("VALIDATED") = 2
  /\ Stage("PERSISTED") = 3
  /\ \A s \in AdmittedStates \ {"PERSISTED"} : Stage(s) = 4
  BY DEF Stage, AdmittedStates, MissionStates, Unadmitted

\* No move of the table leads from an admitted mission back to PERSISTED.
LEMMA NoWayBack ==
  ASSUME NEW s \in MissionStates \ Unadmitted,
         NEW t \in MissionSuccessors[s] \cap AdmittedStates
  PROVE  t \in AdmittedStates \ {"PERSISTED"}
  BY DEF MissionSuccessors, MissionStates, Unadmitted, AdmittedStates, Escalations

\* Once somebody is past create() there is a mission.
LEMMA PastCreate ==
  ASSUME AdmissionInv, NEW a \in Admitters, work[a].at \notin {"idle", "create"}
  PROVE  /\ stored.content = work[a].content
         /\ stored.content \in Contents
         /\ stored # Absent
         /\ stored.state \in AdmittedStates \cup Unadmitted
<1>1. stored.content = work[a].content /\ stored.content \in Contents
  BY DEF AdmissionInv, OneContentPerKey
<1>2. stored # Absent
  BY <1>1, AdmissionAssumption DEF Absent
<1> QED
  BY <1>1, <1>2 DEF AdmissionInv, TypeOK, Stored

\* Stopping one process disturbs nothing.
LEMMA StopKeeps ==
  ASSUME AdmissionInv, NEW a \in Admitters, Stop(a), UNCHANGED stored
  PROVE  AdmissionInv'
<1>1. /\ work' = [work EXCEPT ![a] = NoWork]
      /\ fresh' = fresh \ {a}
  BY DEF Stop
<1>2. TypeOK'
  BY <1>1 DEF AdmissionInv, TypeOK, Work, NoWork, Labels, MaxCasSteps
<1> QED
  BY <1>1, <1>2 DEF AdmissionInv, TypeOK, OneContentPerKey, PassInv, NoWork

\* A transaction of `a' that leaves the mission at a later stage s, and `a'
\* alone with a current snapshot.
LEMMA MoveKeeps ==
  ASSUME AdmissionInv, NEW a \in fresh, NEW at \in {"advance", "admitted"},
         NEW s \in {"VALIDATED", "PERSISTED", "RECONCILING", "READY_FOR_EXECUTION"},
         NEW n \in 0..2,
         at = "advance" =>
           s \in {"VALIDATED", "PERSISTED"} /\ (s = "VALIDATED" => n <= 1),
         Stage(stored.state) <= Stage(s),
         stored.state \in Unadmitted => Stage(stored.state) < Stage(s),
         stored' = [stored EXCEPT !.state = s],
         fresh' = {a},
         Saw(a, at, s, n)
  PROVE  AdmissionInv'
<1>1. a \in Admitters /\ work[a].at \notin {"idle", "create"}
  BY DEF AdmissionInv, TypeOK
<1>2. s \in AdmittedStates \cup Unadmitted
  BY DEF AdmittedStates, Unadmitted, MissionStates
<1>3. /\ stored \in [state : AdmittedStates \cup Unadmitted, content : Contents]
      /\ stored'.state = s
      /\ stored'.content = stored.content
  BY <1>1, <1>2, PastCreate DEF AdmissionInv, TypeOK, Stored
<1>4. work' = [work EXCEPT ![a] =
        [at |-> at, content |-> work[a].content, seen |-> s, steps |-> n]]
  BY DEF Saw
<1>5. TypeOK'
  BY <1>1, <1>2, <1>3, <1>4
  DEF AdmissionInv, TypeOK, Stored, Work, Labels, MaxCasSteps, MissionStates
<1>6. OneContentPerKey' /\ \A b \in Admitters :
        work'[b].at # "idle" => work'[b].content \in Contents
  BY <1>1, <1>3, <1>4 DEF AdmissionInv, TypeOK, OneContentPerKey
<1>7. PassInv'
  <2> SUFFICES ASSUME NEW b \in Admitters, work'[b].at = "advance"
               PROVE  PassInv!(b)!2'
    BY DEF PassInv
  <2>1. CASE b = a
    BY <1>1, <1>2, <1>4, <2>1 DEF AdmissionInv, TypeOK, PassInv
  <2>2. CASE b # a
    <3>1. work'[b] = work[b] /\ b \notin fresh'
      BY <1>1, <1>4, <2>2 DEF AdmissionInv, TypeOK
    <3>2. CASE b \in fresh /\ work[b].seen \in Unadmitted
      <4>1. work[b].seen = stored.state
        BY <3>2 DEF AdmissionInv, TypeOK
      <4>2. Stage(work[b].seen) < Stage(stored'.state)
        BY <4>1, <3>2, <1>3
      <4> QED
        BY <4>2, <3>1 DEF AdmissionInv, PassInv
    <3>3. CASE ~(b \in fresh /\ work[b].seen \in Unadmitted)
      <4>1. Stage(stored.state) \in Nat /\ Stage(s) \in Nat
        BY <1>2, <1>3, Stages DEF Unadmitted
      <4>2. work[b].seen \in Unadmitted => Stage(work[b].seen) \in Nat
        BY Stages DEF Unadmitted
      <4> QED
        BY <4>1, <4>2, <3>1, <3>3, <1>3 DEF AdmissionInv, PassInv
    <3> QED
      BY <3>2, <3>3
  <2> QED
    BY <2>1, <2>2
<1> QED
  BY <1>5, <1>6, <1>7 DEF AdmissionInv

\* A process that reads the mission in its present state.
LEMMA LookKeeps ==
  ASSUME AdmissionInv, NEW a \in Admitters,
         work[a].at \notin {"idle", "create"},
         NEW at \in {"advance", "final", "admitted"}, NEW n \in 0..MaxCasSteps,
         at = "advance" =>
           /\ n <= 2
           /\ stored.state = "VALIDATED" => n <= 1
           /\ stored.state = "RECEIVED" => n = 0,
         UNCHANGED stored,
         fresh' = fresh \cup {a},
         Saw(a, at, stored.state, n)
  PROVE  AdmissionInv'
<1>1. /\ stored.content = work[a].content
      /\ stored.state \in AdmittedStates \cup Unadmitted
  BY PastCreate
<1>2. work' = [work EXCEPT ![a] =
        [at |-> at, content |-> work[a].content, seen |-> stored.state, steps |-> n]]
  BY DEF Saw
<1>3. TypeOK'
  BY <1>1, <1>2 DEF AdmissionInv, TypeOK, Work, Labels, AdmittedStates, Unadmitted, MissionStates
<1> QED
  BY <1>1, <1>2, <1>3 DEF AdmissionInv, TypeOK, OneContentPerKey, PassInv

\* Every step keeps the inductive invariant.
LEMMA AdmissionStep == AdmissionInv /\ [Next]_vars => AdmissionInv'
<1> SUFFICES ASSUME AdmissionInv, [Next]_vars PROVE AdmissionInv'
  OBVIOUS
<1>1. ASSUME NEW a \in Admitters, NEW c \in Contents, Start(a, c)
      PROVE  AdmissionInv'
  <2>1. /\ a \notin fresh
        /\ work' = [work EXCEPT ![a] =
             [at |-> "create", content |-> c, seen |-> "ABSENT", steps |-> 0]]
    BY <1>1 DEF Start, NoWork, AdmissionInv, TypeOK
  <2>2. stored' = stored /\ fresh' = fresh
    BY <1>1 DEF Start
  <2>3. TypeOK'
    BY <2>1, <2>2 DEF AdmissionInv, TypeOK, Work, Labels, MaxCasSteps
  <2> QED
    BY <2>1, <2>2, <2>3 DEF AdmissionInv, TypeOK, OneContentPerKey, PassInv
<1>2. ASSUME NEW a \in Admitters, Create(a)
      PROVE  AdmissionInv'
  <2>1. a \notin fresh /\ work[a].content \in Contents /\ work[a].at = "create"
    BY <1>2 DEF Create, AdmissionInv, TypeOK
  <2>2. CASE stored = Absent /\ stored' = [state |-> "RECEIVED", content |-> work[a].content]
             /\ fresh' = fresh \cup {a} /\ Saw(a, "advance", stored'.state, 0)
    <3>1. \A b \in Admitters : b \notin fresh /\ work[b].at \in {"idle", "create"}
      BY <2>2, PastCreate DEF AdmissionInv, TypeOK
    <3>2. work' = [work EXCEPT ![a] =
            [at |-> "advance", content |-> work[a].content, seen |-> "RECEIVED", steps |-> 0]]
      BY <2>2 DEF Saw
    <3> QED
      BY <2>1, <2>2, <3>1, <3>2
      DEF AdmissionInv, TypeOK, Stored, Work, Labels, MaxCasSteps, MissionStates,
          Unadmitted, OneContentPerKey, PassInv
  <2>3. CASE stored.content = work[a].content /\ UNCHANGED stored
             /\ fresh' = fresh \cup {a} /\ Saw(a, "advance", stored'.state, 0)
    <3>1. stored # Absent
      BY <2>1, <2>3, AdmissionAssumption DEF Absent
    <3>2. stored.state \in AdmittedStates \cup Unadmitted
      BY <3>1 DEF AdmissionInv, TypeOK, Stored
    <3>3. work' = [work EXCEPT ![a] =
            [at |-> "advance", content |-> work[a].content, seen |-> stored.state, steps |-> 0]]
      BY <2>3 DEF Saw
    <3>4. TypeOK'
      BY <2>1, <2>3, <3>2, <3>3
      DEF AdmissionInv, TypeOK, Work, Labels, MaxCasSteps, MissionStates, AdmittedStates, Unadmitted
    <3> QED
      BY <2>1, <2>3, <3>2, <3>3, <3>4
      DEF AdmissionInv, TypeOK, OneContentPerKey, PassInv
  <2>4. CASE Stop(a) /\ UNCHANGED stored
    BY <2>4, StopKeeps
  <2> QED
    BY <1>2, <2>2, <2>3, <2>4 DEF Create
<1>3. ASSUME NEW a \in Admitters, Advance(a)
      PROVE  AdmissionInv'
  <2>1. /\ work[a].at = "advance"
        /\ work[a].seen \in Unadmitted
        /\ a \in fresh
        /\ stored.state = work[a].seen
    BY <1>3 DEF Advance, InLoop, AdmissionInv, TypeOK
  <2>2. work[a].steps \in 0..MaxCasSteps /\ work[a].steps <= 1
        /\ (work[a].seen = "RECEIVED" => work[a].steps = 0)
    BY <1>3, <2>1 DEF AdmissionInv, TypeOK, PassInv, Work, Unadmitted
  <2>3. work[a].steps + 1 \in 0..2
        /\ (NextAdmitted(work[a].seen) = "VALIDATED" => work[a].steps + 1 <= 1)
    BY <2>1, <2>2 DEF NextAdmitted, MaxCasSteps, Unadmitted
  <2>4. /\ NextAdmitted(work[a].seen) \in {"VALIDATED", "PERSISTED"}
        /\ Stage(stored.state) < Stage(NextAdmitted(work[a].seen))
        /\ Stage(stored.state) \in Nat /\ Stage(NextAdmitted(work[a].seen)) \in Nat
    BY <2>1, Stages DEF NextAdmitted, Unadmitted
  <2> QED
    BY <1>3, <2>1, <2>3, <2>4, MoveKeeps DEF Advance
<1>4. ASSUME NEW a \in Admitters, LookAgain(a)
      PROVE  AdmissionInv'
  <2>1. /\ work[a].at = "advance"
        /\ work[a].seen \in Unadmitted
        /\ Stage(work[a].seen) < Stage(stored.state)
        /\ work[a].steps \in 0..MaxCasSteps
        /\ work[a].steps <= 1
        /\ (work[a].seen = "RECEIVED" => work[a].steps = 0)
    BY <1>4 DEF LookAgain, InLoop, AdmissionInv, TypeOK, PassInv, Work, Unadmitted
  <2>2. /\ stored.state # "RECEIVED"
        /\ (stored.state = "VALIDATED" => work[a].seen = "RECEIVED")
    BY <2>1, Stages DEF Unadmitted
  <2>3. work[a].steps + 1 \in 0..MaxCasSteps /\ work[a].steps + 1 <= 2
    BY <2>1 DEF MaxCasSteps
  <2> QED
    BY <1>4, <2>1, <2>2, <2>3, LookKeeps DEF LookAgain
<1>5. ASSUME NEW a \in Admitters, LeaveLoop(a)
      PROVE  AdmissionInv'
  BY <1>5 DEF LeaveLoop, InLoop, AdmissionInv, TypeOK, Work, Labels,
              OneContentPerKey, PassInv
<1>6. ASSUME NEW a \in Admitters, Admit(a)
      PROVE  AdmissionInv'
  BY <1>6, LookKeeps DEF Admit, MaxCasSteps
<1>7. ASSUME NEW a \in Admitters,
             NEW from \in {"PERSISTED", "RECONCILING"},
             NEW target \in {"RECONCILING", "READY_FOR_EXECUTION"},
             Prepare(a, from, target)
      PROVE  AdmissionInv'
  <2>1. CASE a \in fresh /\ stored' = [stored EXCEPT !.state = target]
             /\ fresh' = {a} /\ Saw(a, "admitted", target, 0)
    <3>1. stored.state = from
      BY <1>7, <2>1 DEF Prepare, AdmissionInv, TypeOK
    <3>2. Stage(stored.state) <= Stage(target) /\ stored.state \notin Unadmitted
      BY <3>1, Stages DEF AdmittedStates, MissionStates, Unadmitted
    <3> QED
      BY <2>1, <3>2, MoveKeeps
  <2>2. CASE Stop(a) /\ UNCHANGED stored
    BY <2>2, StopKeeps
  <2> QED
    BY <1>7, <2>1, <2>2 DEF Prepare
<1>8. ASSUME NEW a \in Admitters, Finish(a) \/ Crash(a)
      PROVE  AdmissionInv'
  BY <1>8, StopKeeps DEF Finish, Crash
<1>9. ASSUME ExecutionMoves
      PROVE  AdmissionInv'
  <2>1. PICK t \in MissionSuccessors[stored.state] \cap AdmittedStates :
          stored' = [stored EXCEPT !.state = t]
    BY <1>9 DEF ExecutionMoves
  <2>2. stored.state \in MissionStates \ Unadmitted /\ fresh' = {} /\ work' = work
    BY <1>9 DEF ExecutionMoves
  <2>3. stored \in [state : AdmittedStates \cup Unadmitted, content : Contents]
    BY <2>2 DEF AdmissionInv, TypeOK, Stored, Absent, MissionStates
  <2>4. t \in AdmittedStates \ {"PERSISTED"}
    BY <2>2, NoWayBack
  <2>5. stored' = [state |-> t, content |-> stored.content]
    BY <2>1, <2>3
  <2>6. TypeOK' /\ OneContentPerKey'
    BY <2>2, <2>3, <2>4, <2>5 DEF AdmissionInv, TypeOK, Stored, OneContentPerKey
  <2>7. \A s \in Unadmitted : Stage(s) < Stage(t)
    BY <2>4, Stages DEF Unadmitted
  <2> QED
    BY <2>2, <2>5, <2>6, <2>7 DEF AdmissionInv, PassInv
<1>10. CASE UNCHANGED vars
  BY <1>10 DEF vars, AdmissionInv, TypeOK, OneContentPerKey, PassInv
<1> QED
  BY <1>1, <1>2, <1>3, <1>4, <1>5, <1>6, <1>7, <1>8, <1>9, <1>10
  DEF Next, AdmitterStep

\* The inductive invariant holds of every behaviour.
THEOREM AdmissionSafety == Spec => []AdmissionInv
<1>1. Init => AdmissionInv
  BY DEF Init, AdmissionInv, TypeOK, Stored, Absent, NoWork, Work, Labels,
         MaxCasSteps, OneContentPerKey, PassInv
<1> QED
  BY <1>1, AdmissionStep, PTL DEF Spec

\* However many processes admit the same mission at once, the four passes of
\* admit()'s loop are enough: none ends in ADMISSION_CAS_EXHAUSTED.
THEOREM FourPassesSuffice == Spec => []NeverExhausted
<1>1. AdmissionInv => NeverExhausted
  BY DEF AdmissionInv, TypeOK, PassInv, Work, NeverExhausted, MaxCasSteps
<1> QED
  BY <1>1, AdmissionSafety, PTL

\* Whoever gets past create() works on the mission it asked for.
THEOREM KeyNamesOneContent == Spec => []OneContentPerKey
<1>1. AdmissionInv => OneContentPerKey
  BY DEF AdmissionInv
<1> QED
  BY <1>1, AdmissionSafety, PTL

\* No step of any process, however stale, takes the mission back.
THEOREM AdmissionOnlyAdvances == Spec => NeverTakenBack
<1>1. AdmissionInv /\ [Next]_vars => [Stage(stored'.state) >= Stage(stored.state)]_vars
  <2> SUFFICES ASSUME AdmissionInv, Next
               PROVE  Stage(stored'.state) >= Stage(stored.state)
    OBVIOUS
  <2>1. stored.state \in AdmittedStates \cup Unadmitted \cup {"ABSENT"}
    BY DEF AdmissionInv, TypeOK, Stored, Absent
  <2>2. Stage(stored.state) \in 0..4
    BY <2>1, Stages DEF Unadmitted
  <2>3. CASE UNCHANGED stored
    BY <2>2, <2>3
  <2>4. ASSUME NEW a \in Admitters, Create(a), stored = Absent,
               stored'.state = "RECEIVED"
        PROVE  Stage(stored'.state) >= Stage(stored.state)
    BY <2>4, Stages DEF Absent
  <2>5. ASSUME NEW a \in Admitters, Advance(a)
        PROVE  Stage(stored'.state) >= Stage(stored.state)
    <3>1. stored.state = work[a].seen /\ work[a].seen \in Unadmitted
      BY <2>5 DEF Advance, InLoop, AdmissionInv, TypeOK
    <3>2. stored'.state = NextAdmitted(work[a].seen)
      <4>1. stored # Absent
        BY <3>1 DEF Absent, Unadmitted
      <4> QED
        BY <2>5, <4>1 DEF Advance, AdmissionInv, TypeOK, Stored
    <3> QED
      BY <3>1, <3>2, Stages DEF NextAdmitted, Unadmitted
  <2>6. ASSUME NEW a \in Admitters,
               NEW target \in {"RECONCILING", "READY_FOR_EXECUTION"},
               NEW from \in {"PERSISTED", "RECONCILING"},
               Prepare(a, from, target)
        PROVE  Stage(stored'.state) >= Stage(stored.state)
    <3>1. CASE UNCHANGED stored
      BY <3>1, <2>3
    <3>2. CASE stored' = [stored EXCEPT !.state = target] /\ a \in fresh
      <4>1. stored # Absent
        BY <2>6, <3>2, PastCreate DEF AdmissionInv, TypeOK
      <4>2. stored'.state = target
        BY <3>2, <4>1 DEF AdmissionInv, TypeOK, Stored
      <4> QED
        BY <4>2, <2>2, Stages DEF AdmittedStates, MissionStates, Unadmitted
    <3> QED
      BY <2>6, <3>1, <3>2 DEF Prepare
  <2>7. ASSUME ExecutionMoves
        PROVE  Stage(stored'.state) >= Stage(stored.state)
    <3>1. PICK t \in MissionSuccessors[stored.state] \cap AdmittedStates :
            stored' = [stored EXCEPT !.state = t]
      BY <2>7 DEF ExecutionMoves
    <3>2. stored.state \in MissionStates \ Unadmitted
      BY <2>7 DEF ExecutionMoves
    <3>3. stored'.state = t
      BY <3>1, <3>2 DEF AdmissionInv, TypeOK, Stored, Absent, MissionStates
    <3> QED
      BY <3>1, <3>2, <3>3, <2>2, NoWayBack, Stages
  <2>8. ASSUME NEW a \in Admitters,
               \/ \E c \in Contents : Start(a, c)
               \/ LookAgain(a) \/ LeaveLoop(a) \/ Admit(a) \/ Finish(a) \/ Crash(a)
        PROVE  UNCHANGED stored
    BY <2>8 DEF Start, LookAgain, LeaveLoop, Admit, Finish, Crash
  <2>9. ASSUME NEW a \in Admitters, Create(a)
        PROVE  UNCHANGED stored \/ (stored = Absent /\ stored'.state = "RECEIVED")
    BY <2>9 DEF Create
  <2> QED
    BY <2>3, <2>4, <2>5, <2>6, <2>7, <2>8, <2>9 DEF Next, AdmitterStep
<1> QED
  BY <1>1, AdmissionSafety, PTL DEF Spec, NeverTakenBack

\* The state of admission has the shape TypeOK gives it, whoever else moves the
\* mission meanwhile.
THEOREM AdmissionTypeCorrect == Spec => []TypeOK
  BY AdmissionSafety, PTL DEF AdmissionInv
=============================================================================
