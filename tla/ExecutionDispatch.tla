-------------------------- MODULE ExecutionDispatch --------------------------
(***************************************************************************)
(* Crash-safe dispatch of economic effects                                 *)
(* (application/execution_dispatch.py, application/provider_reference_     *)
(* port.py) over the attempt journal and the provider-reference store      *)
(* (persistence/sqlite_execution_attempt_store.py, persistence/sqlite_     *)
(* provider_execution_reference_store.py).                                 *)
(*                                                                         *)
(* Every process that calls dispatch() is a dispatcher.  One step is one   *)
(* SQLite transaction or one message of the provider call, so dispatchers  *)
(* interleave exactly where the code lets them, and a crash may fall       *)
(* between any two steps.  What the other components may do to the journal *)
(* and to the mission meanwhile is the environment at the end of the       *)
(* module; MissionRuntime replaces it by the real reconcilers.             *)
(*                                                                         *)
(* An effect has at most one attempt because the attempt id is a hash of   *)
(* the effect id alone: attempts are indexed by effect.                    *)
(***************************************************************************)
EXTENDS Naturals, Lifecycles

CONSTANTS
  Effects,      \* canonical effect ids
  Contents,     \* provider namespace, request key and request fingerprint
  References,   \* provider references (KeeperHub executionId)
  Dispatchers,  \* processes that may call dispatch()
  None          \* the absent value

ASSUME DispatchAssumption ==
  /\ None \notin Effects
  /\ None \notin Contents
  /\ None \notin References

VARIABLES
  dispatchable, \* effects the mission lookup shows PLANNED in a READY mission
  attempts,     \* the journal: state, content and revision of each attempt
  references,   \* the provider reference stored for each attempt
  posts,        \* execution requests put on the wire for each effect
  provider,     \* what the provider made of them
  pc,           \* where each dispatcher is in dispatch()
  call          \* its local variables

durable  == <<attempts, references>>
wire     == <<posts, provider>>
volatile == <<pc, call>>
vars     == <<dispatchable, attempts, references, posts, provider, pc, call>>

Absent == [state |-> "ABSENT", content |-> None, revision |-> 0]
NoCall == [effect |-> None, content |-> None, revision |-> 0,
           reference |-> None]

Init ==
  /\ dispatchable \in SUBSET Effects
  /\ attempts   = [e \in Effects |-> Absent]
  /\ references = [e \in Effects |-> None]
  /\ posts      = [e \in Effects |-> 0]
  /\ provider   = [e \in Effects |-> "idle"]
  /\ pc         = [d \in Dispatchers |-> "idle"]
  /\ call       = [d \in Dispatchers |-> NoCall]
-----------------------------------------------------------------------------
(***************************************************************************)
(* The journal's compare-and-set: transition() refuses a stale revision    *)
(* and every move that is not in the table.                                *)
(***************************************************************************)
MayTransition(e, revision, target) ==
  /\ attempts[e].state \in AttemptStates
  /\ attempts[e].revision = revision
  /\ target \in AttemptSuccessors[attempts[e].state]

\* create_initial, and the record a transition leaves.  (NewAttemptAtZero is a
\* mutation: revisions counted from zero.)
NewAttemptAtZero(c) == [state |-> "PREPARED", content |-> c, revision |-> 0]

NewAttempt(c) == [state |-> "PREPARED", content |-> c, revision |-> 1]

Moved(attempt, target) ==
  [state |-> target, content |-> attempt.content,
   revision |-> attempt.revision + 1]

WriteAttempt(e, target) ==
  attempts' = [attempts EXCEPT ![e] = Moved(attempts[e], target)]

Goto(d, label) == pc' = [pc EXCEPT ![d] = label]

\* dispatch() returns or raises: its local variables are gone.
Leave(d) ==
  /\ Goto(d, "idle")
  /\ call' = [call EXCEPT ![d] = NoCall]

(***************************************************************************)
(* dispatch(plan, port): the mission is read first and never again.        *)
(***************************************************************************)
Begin(d, e, c) ==
  /\ pc[d] = "idle"
  /\ e \in dispatchable
  /\ Goto(d, "create")
  /\ call' = [call EXCEPT ![d] = [NoCall EXCEPT !.effect = e, !.content = c]]
  /\ UNCHANGED <<dispatchable, durable, wire>>

\* Mutations of the two journal steps, named for the mistake they make.
CreateIgnoringPlan(d) ==
  LET e == call[d].effect
      c == call[d].content
  IN
  /\ pc[d] = "create"
  /\ \/ /\ attempts[e].state = "ABSENT"
        /\ attempts' = [attempts EXCEPT ![e] = NewAttempt(c)]
        /\ call' = [call EXCEPT ![d].revision = 1]
        /\ Goto(d, "claim")
     \/ /\ attempts[e].state = "PREPARED"
        /\ call' = [call EXCEPT ![d].revision = attempts[e].revision]
        /\ Goto(d, "claim")
        /\ UNCHANGED attempts
  /\ UNCHANGED <<dispatchable, references, wire>>

CreateThenCallPort(d) ==
  LET e == call[d].effect IN
  /\ pc[d] = "create"
  /\ attempts[e].state = "ABSENT"
  /\ attempts' = [attempts EXCEPT ![e] = NewAttempt(call[d].content)]
  /\ call' = [call EXCEPT ![d].revision = 1]
  /\ Goto(d, "port")
  /\ UNCHANGED <<dispatchable, references, wire>>

ClaimOrResumeAttempt(d) ==
  LET e == call[d].effect IN
  /\ pc[d] = "claim"
  /\ attempts[e].state \in {"PREPARED", "IN_FLIGHT"}
  /\ WriteAttempt(e, "IN_FLIGHT")
  /\ call' = [call EXCEPT ![d].revision = attempts[e].revision + 1]
  /\ Goto(d, "port")
  /\ UNCHANGED <<dispatchable, references, wire>>

\* attempt_store.create: a new PREPARED attempt, or the existing one when its
\* plan is the same.  Only a PREPARED one is taken further.
CreateAttempt(d) ==
  LET e == call[d].effect
      c == call[d].content
  IN
  /\ pc[d] = "create"
  /\ \/ /\ attempts[e].state = "ABSENT"
        /\ attempts' = [attempts EXCEPT ![e] = NewAttempt(c)]
        /\ call' = [call EXCEPT ![d].revision = 1]
        /\ Goto(d, "claim")
     \/ /\ attempts[e].state = "PREPARED"
        /\ attempts[e].content = c
        /\ call' = [call EXCEPT ![d].revision = attempts[e].revision]
        /\ Goto(d, "claim")
        /\ UNCHANGED attempts
     \/ /\ attempts[e].state # "ABSENT"
        /\ attempts[e].content = c => attempts[e].state # "PREPARED"
        /\ Leave(d)
        /\ UNCHANGED attempts
  /\ UNCHANGED <<dispatchable, references, wire>>

\* The claim PREPARED -> IN_FLIGHT, made durable before the port is called.
\* A stale revision means another dispatcher or a reconciler moved it.
ClaimAttempt(d) ==
  LET e == call[d].effect IN
  /\ pc[d] = "claim"
  /\ \/ /\ MayTransition(e, call[d].revision, "IN_FLIGHT")
        /\ WriteAttempt(e, "IN_FLIGHT")
        /\ call' = [call EXCEPT ![d].revision = @ + 1]
        /\ Goto(d, "port")
     \/ /\ ~MayTransition(e, call[d].revision, "IN_FLIGHT")
        /\ Leave(d)
        /\ UNCHANGED attempts
  /\ UNCHANGED <<dispatchable, references, wire>>

(***************************************************************************)
(* ProviderReferencePersistingPort.execute, called with the IN_FLIGHT      *)
(* record.  Every exception of the port leads to "unknown".                *)
(***************************************************************************)
CheckReference(d) ==
  /\ pc[d] = "port"
  /\ \/ references[call[d].effect] = None /\ Goto(d, "send")
     \/ references[call[d].effect] # None /\ Goto(d, "unknown")
  /\ UNCHANGED <<dispatchable, durable, wire, call>>

\* The delegate raises before it sends (surface already bound, expired or
\* consumed authorization, changed fingerprint, undecided simulation).
RefuseToSend(d) ==
  /\ pc[d] = "send"
  /\ Goto(d, "unknown")
  /\ UNCHANGED <<dispatchable, durable, wire, call>>

\* The delegate returns REJECTED_FINAL without sending (would-revert
\* simulation).
RejectUnsent(d) ==
  /\ pc[d] = "send"
  /\ Goto(d, "reject")
  /\ UNCHANGED <<dispatchable, durable, wire, call>>

Send(d) ==
  LET e == call[d].effect IN
  /\ pc[d] = "send"
  /\ posts'    = [posts EXCEPT ![e] = @ + 1]
  /\ provider' = [provider EXCEPT ![e] = "pending"]
  /\ Goto(d, "await")
  /\ UNCHANGED <<dispatchable, durable, call>>

\* The provider takes or refuses the request, whether or not the sender is
\* still there to hear of it.
ProviderDecides(e, verdict) ==
  /\ provider[e] = "pending"
  /\ provider' = [provider EXCEPT ![e] = verdict]
  /\ UNCHANGED <<dispatchable, durable, posts, volatile>>

ReceiveAccepted(d, r) ==
  /\ pc[d] = "await"
  /\ provider[call[d].effect] = "accepted"
  /\ call' = [call EXCEPT ![d].reference = r]
  /\ Goto(d, "persist")
  /\ UNCHANGED <<dispatchable, durable, wire>>

ReceiveRejected(d) ==
  /\ pc[d] = "await"
  /\ provider[call[d].effect] = "rejected"
  /\ Goto(d, "reject")
  /\ UNCHANGED <<dispatchable, durable, wire, call>>

\* Mutation: a timeout taken for a failure.
TimeoutIsFailure(d) ==
  /\ pc[d] = "await"
  /\ Goto(d, "reject")
  /\ UNCHANGED <<dispatchable, durable, wire, call>>

\* Timeout, closed connection, malformed or ambiguous answer.
LoseAnswer(d) ==
  /\ pc[d] = "await"
  /\ Goto(d, "unknown")
  /\ UNCHANGED <<dispatchable, durable, wire, call>>

\* Mutations: the reference kept in memory only, or not unique.
SkipReference(d) ==
  /\ pc[d] = "persist"
  /\ Goto(d, "acknowledge")
  /\ UNCHANGED <<dispatchable, durable, wire, call>>

PersistSharedReference(d) ==
  /\ pc[d] = "persist"
  /\ references' = [references EXCEPT ![call[d].effect] = call[d].reference]
  /\ Goto(d, "acknowledge")
  /\ UNCHANGED <<dispatchable, attempts, wire, call>>

\* reference_store.create: idempotent for an equal record, and no reference
\* serves two attempts.
PersistReference(d) ==
  LET e == call[d].effect
      r == call[d].reference
      free == /\ references[e] \in {None, r}
              /\ \A other \in Effects \ {e} : references[other] # r
  IN
  /\ pc[d] = "persist"
  /\ \/ /\ free
        /\ references' = [references EXCEPT ![e] = r]
        /\ Goto(d, "acknowledge")
     \/ /\ ~free
        /\ Goto(d, "unknown")
        /\ UNCHANGED references
  /\ UNCHANGED <<dispatchable, attempts, wire, call>>

(***************************************************************************)
(* Back in dispatch(): the outcome is written over the revision claimed.   *)
(* (RecordOutcomeBlindly is a mutation: the revision check forgotten.)     *)
(***************************************************************************)
RecordOutcomeBlindly(d, label, target) ==
  /\ pc[d] = label
  /\ WriteAttempt(call[d].effect, target)
  /\ Leave(d)
  /\ UNCHANGED <<dispatchable, references, wire>>

RecordOutcome(d, label, target) ==
  LET e == call[d].effect IN
  /\ pc[d] = label
  /\ \/ /\ MayTransition(e, call[d].revision, target)
        /\ WriteAttempt(e, target)
        /\ Leave(d)
     \/ /\ ~MayTransition(e, call[d].revision, target)
        /\ Goto(d, "unknown")
        /\ UNCHANGED <<attempts, call>>
  /\ UNCHANGED <<dispatchable, references, wire>>

Acknowledge(d) == RecordOutcome(d, "acknowledge", "PROVIDER_ACKNOWLEDGED")
RejectFinal(d) == RecordOutcome(d, "reject", "FAILED_FINAL")

\* _mark_unknown_best_effort: over the claimed revision or not at all.
MarkUnknown(d) ==
  LET e == call[d].effect IN
  /\ pc[d] = "unknown"
  /\ \/ /\ MayTransition(e, call[d].revision, "EXECUTION_UNKNOWN")
        /\ WriteAttempt(e, "EXECUTION_UNKNOWN")
     \/ /\ ~MayTransition(e, call[d].revision, "EXECUTION_UNKNOWN")
        /\ UNCHANGED attempts
  /\ Leave(d)
  /\ UNCHANGED <<dispatchable, references, wire>>

(***************************************************************************)
(* A store refuses (locked, unreadable, or a timestamp before the          *)
(* record's): the transaction is rolled back.  Before the claim dispatch() *)
(* raises; inside the port it is one more ambiguity; while marking unknown *)
(* it is swallowed, the attempt staying IN_FLIGHT.                         *)
(***************************************************************************)
StoreFails(d) ==
  /\ \/ /\ pc[d] \in {"create", "claim", "unknown"}
        /\ Leave(d)
     \/ /\ pc[d] \in {"port", "persist", "acknowledge", "reject"}
        /\ Goto(d, "unknown")
        /\ UNCHANGED call
  /\ UNCHANGED <<dispatchable, durable, wire>>

\* The process dies.  Only the stores survive, and what is on the wire.
Crash(d) ==
  /\ pc[d] # "idle"
  /\ Leave(d)
  /\ UNCHANGED <<dispatchable, durable, wire>>

DispatcherStep(d) ==
  \/ \E e \in Effects, c \in Contents : Begin(d, e, c)
  \/ CreateAttempt(d)
  \/ ClaimAttempt(d)
  \/ CheckReference(d)
  \/ RefuseToSend(d)
  \/ RejectUnsent(d)
  \/ Send(d)
  \/ \E r \in References : ReceiveAccepted(d, r)
  \/ ReceiveRejected(d)
  \/ LoseAnswer(d)
  \/ PersistReference(d)
  \/ Acknowledge(d)
  \/ RejectFinal(d)
  \/ MarkUnknown(d)
  \/ StoreFails(d)
  \/ Crash(d)

ProviderStep ==
  \E e \in Effects : \E verdict \in {"accepted", "rejected"} :
    ProviderDecides(e, verdict)
-----------------------------------------------------------------------------
(***************************************************************************)
(* The environment: the attempt a controlled simulation prepares, what a   *)
(* reconciler may write in the journal, and the mission moving under the   *)
(* dispatchers.                                                            *)
(***************************************************************************)
\* simulate() creates the attempt it will simulate, whatever the mission is.
PrepareAttempt(e, c) ==
  /\ attempts[e].state = "ABSENT"
  /\ attempts' = [attempts EXCEPT ![e] = NewAttempt(c)]
  /\ UNCHANGED <<dispatchable, references, wire, volatile>>

ReconcilerTargets == {"EXECUTION_UNKNOWN", "VERIFIED", "BLOCKED"}

ReconcilerWrites(e, target) ==
  /\ attempts[e].state \in AttemptStates
  /\ target \in AttemptSuccessors[attempts[e].state]
  /\ WriteAttempt(e, target)
  /\ UNCHANGED <<dispatchable, references, wire, volatile>>

MissionMoves ==
  /\ dispatchable' \in SUBSET Effects
  /\ UNCHANGED <<durable, wire, volatile>>

Next ==
  \/ \E d \in Dispatchers : DispatcherStep(d)
  \/ ProviderStep
  \/ \E e \in Effects, c \in Contents : PrepareAttempt(e, c)
  \/ \E e \in Effects, target \in ReconcilerTargets :
       ReconcilerWrites(e, target)
  \/ MissionMoves

Spec == Init /\ [][Next]_vars
-----------------------------------------------------------------------------
Labels == {"idle", "create", "claim", "port", "send", "await", "persist",
           "acknowledge", "reject", "unknown"}

\* Where a dispatcher owns the claim it made.
Owning == {"port", "send", "await", "persist", "acknowledge", "reject",
           "unknown"}

Attempt ==
  [state : AttemptStates, content : Contents, revision : Nat \ {0}]

Call ==
  [effect : Effects \cup {None}, content : Contents \cup {None},
   revision : Nat, reference : References \cup {None}]

\* The shape of the state, the only property here that is about types.
TypeOK ==
  /\ dispatchable \subseteq Effects
  /\ attempts \in [Effects -> Attempt \cup {Absent}]
  /\ references \in [Effects -> References \cup {None}]
  /\ posts \in [Effects -> Nat]
  /\ provider \in [Effects -> {"idle", "pending", "accepted", "rejected"}]
  /\ pc \in [Dispatchers -> Labels]
  /\ call \in [Dispatchers -> Call]
  /\ \A d \in Dispatchers :
       pc[d] # "idle" => call[d].effect \in Effects /\ call[d].content \in Contents

\* However dispatchers interleave, crash, time out and retry, the provider
\* is asked at most once to pay an effect (README.md, safety invariants:
\* retries never duplicate the payment).
PaidAtMostOnce == \A e \in Effects : posts[e] <= 1

\* No request leaves before its attempt is durably IN_FLIGHT: after a crash
\* at any point, a request that may have been sent is never taken for one
\* that was not (execution_dispatch.py persists IN_FLIGHT before the port).
NeverSentUnclaimed ==
  \A e \in Effects :
    posts[e] > 0 => attempts[e].state \notin {"ABSENT", "PREPARED"}

\* What is on its way to the provider is what the journal says: a second
\* plan for the same effect never rides on the first one's claim.
SentAsJournaled ==
  \A d \in Dispatchers :
    pc[d] \in Owning => attempts[call[d].effect].content = call[d].content

\* An acknowledged attempt was really accepted, and its provider reference
\* was durable before the acknowledgement, so that a restarted process can
\* always ask the provider about it (provider_reference_port.py).
AcknowledgedIsTraceable ==
  \A e \in Effects :
    attempts[e].state = "PROVIDER_ACKNOWLEDGED" =>
      references[e] # None /\ provider[e] = "accepted"

\* FAILED_FINAL is a proof that nothing was or will be paid: it is never
\* written over an accepted, a pending or a still possible request
\* (docs/STATE_MACHINES.md: only for a proved pre-effect rejection).
FinalFailureMeansNoPayment ==
  \A e \in Effects :
    attempts[e].state = "FAILED_FINAL" =>
      /\ provider[e] \in {"idle", "rejected"}
      /\ \A d \in Dispatchers :
           call[d].effect = e => pc[d] \notin {"port", "send", "await"}

\* A provider reference leads back to one effect, even when the provider
\* hands out the same one twice.
ReferenceServesOneEffect ==
  \A e1, e2 \in Effects :
    references[e1] = references[e2] /\ references[e1] # None => e1 = e2

(***************************************************************************)
(* The dispatch layer implements SinglePayment.                            *)
(***************************************************************************)
PhaseOf ==
  [s \in AttemptStates \cup {"ABSENT"} |->
    CASE s \in {"ABSENT", "PREPARED"} -> "open"
      [] s = "IN_FLIGHT" -> "claimed"
      [] s = "PROVIDER_ACKNOWLEDGED" -> "acknowledged"
      [] s = "EXECUTION_UNKNOWN" -> "unknown"
      [] s = "FAILED_FINAL" -> "rejected"
      [] OTHER -> "settled"]

Journal == [e \in Effects |-> PhaseOf[attempts[e].state]]
Permits == {call[d].effect : d \in {x \in Dispatchers : pc[x] \in {"port", "send"}}}

Payment == INSTANCE SinglePayment
             WITH journal <- Journal, permits <- Permits, sends <- posts

\* Dispatchers over the durable stores do what SinglePayment promises, step
\* by step: one permit per effect, used at most once, nothing final undone.
ImplementsSinglePayment == Payment!Spec
=============================================================================
