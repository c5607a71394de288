----------------------- MODULE ExecutionDispatchProofs -----------------------
(***************************************************************************)
(* Proofs about ExecutionDispatch, for any numbers of effects, plans,      *)
(* references and dispatchers.                                             *)
(***************************************************************************)
EXTENDS ExecutionDispatch, TLAPS

(***************************************************************************)
(* The inductive invariant.  A dispatcher that is past "create" holds a    *)
(* revision of its attempt; a dispatcher in Owning holds the claim.        *)
(***************************************************************************)

\* What a dispatcher at a label knows about the effect of its call k.
Knows(label, k) ==
  /\ label = "claim" =>
       /\ attempts[k.effect].state # "ABSENT"
       /\ k.revision <= attempts[k.effect].revision
       /\ attempts[k.effect].content = k.content
       /\ k.revision = attempts[k.effect].revision =>
            attempts[k.effect].state = "PREPARED"
  /\ label \in Owning =>
       /\ attempts[k.effect].state \notin {"ABSENT", "PREPARED"}
       /\ k.revision <= attempts[k.effect].revision
       /\ k.revision = attempts[k.effect].revision =>
            attempts[k.effect].state = "IN_FLIGHT"
  /\ label \in {"port", "send"} => posts[k.effect] = 0
  /\ label \in {"await", "persist", "acknowledge"} => posts[k.effect] = 1
  /\ label = "persist" => k.reference \in References
  /\ label \in {"persist", "acknowledge"} => provider[k.effect] = "accepted"
  /\ label = "acknowledge" => references[k.effect] # None
  /\ label = "reject" => provider[k.effect] \in {"idle", "rejected"}

CallInv == \A d \in Dispatchers : Knows(pc[d], call[d])

\* A claim has one holder.
OneOwner ==
  \A d1, d2 \in Dispatchers :
    /\ pc[d1] \in Owning
    /\ pc[d2] \in Owning
    /\ call[d1].effect = call[d2].effect
    => d1 = d2

\* The provider has been asked exactly about what was posted.
WireInv ==
  \A e \in Effects : provider[e] = "idle" <=> posts[e] = 0

SafetyInv ==
  /\ CallInv
  /\ OneOwner
  /\ WireInv
  /\ PaidAtMostOnce
  /\ NeverSentUnclaimed
  /\ SentAsJournaled
  /\ AcknowledgedIsTraceable
  /\ FinalFailureMeansNoPayment
  /\ ReferenceServesOneEffect

DispatchInv == TypeOK /\ SafetyInv
-----------------------------------------------------------------------------
\* What the transition table of attempts says, state by state: nobody moves
\* back to PREPARED, only PREPARED is claimed, only IN_FLIGHT is acknowledged
\* or failed, and the three terminal states have no successor.
LEMMA AttemptTable ==
  ASSUME NEW s \in AttemptStates, NEW t \in AttemptSuccessors[s]
  PROVE  /\ t \in AttemptStates \ {"PREPARED"}
         /\ t = "IN_FLIGHT" => s = "PREPARED"
         /\ t = "PROVIDER_ACKNOWLEDGED" => s = "IN_FLIGHT"
         /\ t = "FAILED_FINAL" => s \in {"IN_FLIGHT", "PROVIDER_ACKNOWLEDGED", "EXECUTION_UNKNOWN"}
         /\ t = "EXECUTION_UNKNOWN" => s \in {"IN_FLIGHT", "PROVIDER_ACKNOWLEDGED"}
         /\ s \notin {"VERIFIED", "FAILED_FINAL", "BLOCKED"}
BY DEF AttemptStates, AttemptSuccessors

LEMMA TypeInit == Init => TypeOK
BY DispatchAssumption DEF Init, TypeOK, Call, NoCall, Labels

\* The call of a dispatcher after each of the updates the actions make.
LEMMA CallUpdates ==
  ASSUME NEW k \in Call
  PROVE  /\ k.revision \in Nat
         /\ k.reference \in References \cup {None}
         /\ \A n \in Nat :
              /\ [k EXCEPT !.revision = n] \in Call
              /\ [k EXCEPT !.revision = n].effect = k.effect
              /\ [k EXCEPT !.revision = n].content = k.content
              /\ [k EXCEPT !.revision = n].revision = n
              /\ [k EXCEPT !.revision = n].reference = k.reference
         /\ \A r \in References \cup {None} :
              /\ [k EXCEPT !.reference = r] \in Call
              /\ [k EXCEPT !.reference = r].effect = k.effect
              /\ [k EXCEPT !.reference = r].content = k.content
              /\ [k EXCEPT !.reference = r].revision = k.revision
              /\ [k EXCEPT !.reference = r].reference = r
BY DEF Call

LEMMA CallStarts ==
  /\ NoCall \in Call
  /\ \A e \in Effects, c \in Contents :
       /\ [NoCall EXCEPT !.effect = e, !.content = c] \in Call
       /\ [NoCall EXCEPT !.effect = e, !.content = c].effect = e
       /\ [NoCall EXCEPT !.effect = e, !.content = c].content = c
BY DEF Call, NoCall

\* The part of TypeOK that is about the dispatchers, and when a step of one
\* of them keeps it.
DispatchersOK ==
  /\ pc \in [Dispatchers -> Labels]
  /\ call \in [Dispatchers -> Call]
  /\ \A d \in Dispatchers :
       pc[d] # "idle" => call[d].effect \in Effects /\ call[d].content \in Contents

LEMMA DispatcherMoves ==
  ASSUME DispatchersOK, NEW d \in Dispatchers,
         NEW label \in Labels, NEW k \in Call, 
         label # "idle" => k.effect \in Effects /\ k.content \in Contents,
         pc' = [pc EXCEPT ![d] = label],
         call' = [call EXCEPT ![d] = k]
  PROVE  DispatchersOK'
<1>1. pc' \in [Dispatchers -> Labels]
  BY DEF DispatchersOK
<1>2. call' \in [Dispatchers -> Call]
  BY DEF DispatchersOK
<1>3. ASSUME NEW x \in Dispatchers, pc'[x] # "idle"
      PROVE  call'[x].effect \in Effects /\ call'[x].content \in Contents
  BY <1>3 DEF DispatchersOK
<1> QED
  BY <1>1, <1>2, <1>3 DEF DispatchersOK

LEMMA DispatcherTurns ==
  ASSUME DispatchersOK, NEW d \in Dispatchers,
         NEW label \in Labels, pc[d] # "idle",
         pc' = [pc EXCEPT ![d] = label],
         call' = call
  PROVE  DispatchersOK'
BY DEF DispatchersOK

LEMMA DispatcherLeaves ==
  ASSUME DispatchersOK, NEW d \in Dispatchers, Leave(d)
  PROVE  DispatchersOK'
BY DispatcherMoves, CallStarts DEF Leave, Goto, Labels

LEMMA WriteKeepsType ==
  ASSUME TypeOK, NEW e \in Effects, NEW t \in AttemptStates,
         attempts[e].state \in AttemptStates, WriteAttempt(e, t)
  PROVE  attempts' \in [Effects -> Attempt \cup {Absent}]
<1>1. attempts[e] \in Attempt
  BY DEF TypeOK, Absent, AttemptStates
<1>2. Moved(attempts[e], t) \in Attempt
  BY <1>1 DEF Attempt, Moved
<1> QED
  BY <1>2 DEF TypeOK, WriteAttempt

StoresOK ==
  /\ dispatchable \subseteq Effects
  /\ attempts \in [Effects -> Attempt \cup {Absent}]
  /\ references \in [Effects -> References \cup {None}]
  /\ posts \in [Effects -> Nat]
  /\ provider \in [Effects -> {"idle", "pending", "accepted", "rejected"}]

LEMMA TypeSplit ==
  /\ TypeOK <=> StoresOK /\ DispatchersOK
  /\ TypeOK' <=> StoresOK' /\ DispatchersOK'
BY DEF TypeOK, StoresOK, DispatchersOK

LEMMA TypeDispatcherStep ==
  ASSUME TypeOK, NEW d \in Dispatchers, DispatcherStep(d)
  PROVE  TypeOK'
<1> DEFINE e == call[d].effect
<1> USE TypeSplit
<1>t. StoresOK /\ DispatchersOK
  OBVIOUS
<1>e. pc[d] # "idle" => e \in Effects /\ call[d].content \in Contents
  BY DEF TypeOK
<1>k. call[d] \in Call
  BY DEF TypeOK
<1>1. ASSUME NEW f \in Effects, NEW c \in Contents, Begin(d, f, c)
      PROVE  TypeOK'
  <2>1. DispatchersOK'
    <3> DEFINE k == [NoCall EXCEPT !.effect = f, !.content = c]
    <3>1. k \in Call /\ k.effect \in Effects /\ k.content \in Contents
      BY CallStarts
    <3>2. call' = [call EXCEPT ![d] = k] /\ pc' = [pc EXCEPT ![d] = "create"]
      BY <1>1 DEF Begin, Goto
    <3> HIDE DEF k
    <3> QED
      BY <1>t, <3>1, <3>2, DispatcherMoves DEF Labels
  <2> QED
    BY <1>1, <1>t, <2>1 DEF Begin, StoresOK, durable, wire
<1>2. CASE CreateAttempt(d)
  <2> USE DEF CreateAttempt
  <2>1. attempts[e].revision \in Nat
    BY <1>2, <1>e DEF TypeOK, Attempt, Absent
  <2>2. NewAttempt(call[d].content) \in Attempt
    BY <1>2, <1>e DEF NewAttempt, Attempt, AttemptStates
  <2>3. StoresOK'
    BY <1>2, <1>t, <1>e, <2>2 DEF StoresOK, wire
  <2>4. CASE call' = [call EXCEPT ![d].revision = 1] /\ Goto(d, "claim")
    <3>1. [call[d] EXCEPT !.revision = 1] \in Call
      BY <1>k, CallUpdates
    <3>2. /\ [call[d] EXCEPT !.revision = 1].effect = e
          /\ [call[d] EXCEPT !.revision = 1].content = call[d].content
      BY <1>k, CallUpdates
    <3> QED
      BY <1>2, <2>3, <2>4, <1>t, <1>e, <3>1, <3>2, DispatcherMoves DEF Goto, Labels
  <2>5. CASE /\ call' = [call EXCEPT ![d].revision = attempts[e].revision]
             /\ Goto(d, "claim")
    BY <1>2, <2>1, <2>3, <2>5, <1>t, <1>e, <1>k, CallUpdates, DispatcherMoves
       DEF Goto, Labels
  <2>6. CASE Leave(d)
    BY <2>3, <2>6, <1>t, DispatcherLeaves
  <2> QED
    BY <1>2, <2>4, <2>5, <2>6
<1>3. CASE ClaimAttempt(d)
  <2>1. CASE MayTransition(e, call[d].revision, "IN_FLIGHT")
    <3>1. attempts' \in [Effects -> Attempt \cup {Absent}]
      BY <1>3, <1>e, <2>1, WriteKeepsType DEF ClaimAttempt, MayTransition, AttemptStates
    <3>2. DispatchersOK'
      <4> DEFINE k == [call[d] EXCEPT !.revision = call[d].revision + 1]
      <4>1. call[d].revision + 1 \in Nat
        BY <1>k, CallUpdates
      <4>2. k \in Call /\ k.effect = e /\ k.content = call[d].content
        BY <1>k, <4>1, CallUpdates
      <4>3. /\ call' = [call EXCEPT ![d] = k]
            /\ pc' = [pc EXCEPT ![d] = "port"]
        BY <1>3, <2>1 DEF ClaimAttempt, Goto
      <4>4. pc[d] # "idle"
        BY <1>3 DEF ClaimAttempt
      <4> HIDE DEF k
      <4> QED
        BY <1>t, <1>e, <4>2, <4>3, <4>4, DispatcherMoves DEF Labels
    <3> QED
      BY <1>3, <1>t, <3>1, <3>2 DEF ClaimAttempt, StoresOK, wire
  <2>2. CASE ~MayTransition(e, call[d].revision, "IN_FLIGHT")
    BY <1>3, <2>2, <1>t, DispatcherLeaves DEF ClaimAttempt, StoresOK, wire
  <2> QED
    BY <2>1, <2>2
<1>4. CASE CheckReference(d)
  BY <1>4, <1>t, DispatcherTurns
     DEF CheckReference, StoresOK, Goto, Labels, durable, wire
<1>5. CASE RefuseToSend(d)
  BY <1>5, <1>t, DispatcherTurns
     DEF RefuseToSend, StoresOK, Goto, Labels, durable, wire
<1>6. CASE RejectUnsent(d)
  BY <1>6, <1>t, DispatcherTurns
     DEF RejectUnsent, StoresOK, Goto, Labels, durable, wire
<1>7. CASE Send(d)
  <2>1. DispatchersOK'
    BY <1>7, <1>t, DispatcherTurns DEF Send, Goto, Labels
  <2>2. posts[e] + 1 \in Nat
    BY <1>7, <1>t, <1>e DEF Send, StoresOK
  <2>3. /\ posts' = [posts EXCEPT ![e] = posts[e] + 1]
        /\ provider' = [provider EXCEPT ![e] = "pending"]
        /\ UNCHANGED <<dispatchable, attempts, references>>
    BY <1>7 DEF Send, durable
  <2>4. StoresOK'
    BY <1>t, <2>2, <2>3 DEF StoresOK
  <2> QED
    BY <2>1, <2>4
<1>8. ASSUME NEW r \in References, ReceiveAccepted(d, r)
      PROVE  TypeOK'
  <2>1. DispatchersOK'
    <3> DEFINE k == [call[d] EXCEPT !.reference = r]
    <3>1. k \in Call /\ k.effect = e /\ k.content = call[d].content
      BY <1>k, CallUpdates
    <3>2. /\ call' = [call EXCEPT ![d] = k]
          /\ pc' = [pc EXCEPT ![d] = "persist"]
          /\ pc[d] # "idle"
      BY <1>8 DEF ReceiveAccepted, Goto
    <3> HIDE DEF k
    <3> QED
      BY <1>t, <1>e, <3>1, <3>2, DispatcherMoves DEF Labels
  <2> QED
    BY <1>8, <1>t, <2>1 DEF ReceiveAccepted, StoresOK, durable, wire
<1>9. CASE ReceiveRejected(d)
  BY <1>9, <1>t, DispatcherTurns
     DEF ReceiveRejected, StoresOK, Goto, Labels, durable, wire
<1>10. CASE LoseAnswer(d)
  BY <1>10, <1>t, DispatcherTurns
     DEF LoseAnswer, StoresOK, Goto, Labels, durable, wire
<1>11. CASE PersistReference(d)
  <2>1. DispatchersOK'
    BY <1>11, <1>t, DispatcherTurns DEF PersistReference, Goto, Labels
  <2>2. references' \in [Effects -> References \cup {None}]
    BY <1>11, <1>t, <1>k, CallUpdates DEF PersistReference, StoresOK
  <2> QED
    BY <1>11, <1>t, <2>1, <2>2 DEF PersistReference, StoresOK, wire
<1>12. ASSUME NEW label \in Labels \ {"idle"}, NEW target,
              RecordOutcome(d, label, target)
       PROVE  TypeOK'
  <2>1. CASE MayTransition(e, call[d].revision, target) /\ WriteAttempt(e, target)
               /\ Leave(d)
    <3>1. attempts' \in [Effects -> Attempt \cup {Absent}]
      BY <1>12, <1>e, <2>1, AttemptTable, WriteKeepsType
         DEF RecordOutcome, MayTransition
    <3> QED
      BY <1>12, <1>t, <2>1, <3>1, DispatcherLeaves DEF RecordOutcome, StoresOK, wire
  <2>2. CASE Goto(d, "unknown") /\ UNCHANGED <<attempts, call>>
    BY <1>12, <1>t, <2>2, DispatcherTurns DEF RecordOutcome, StoresOK, wire, Goto, Labels
  <2> QED
    BY <1>12, <2>1, <2>2 DEF RecordOutcome
<1>13. CASE MarkUnknown(d)
  <2>1. attempts' \in [Effects -> Attempt \cup {Absent}]
    BY <1>13, <1>e, <1>t, WriteKeepsType
       DEF MarkUnknown, MayTransition, AttemptStates, StoresOK
  <2> QED
    BY <1>13, <1>t, <2>1, DispatcherLeaves DEF MarkUnknown, StoresOK, wire
<1>14. CASE StoreFails(d)
  BY <1>14, <1>t, DispatcherLeaves, DispatcherTurns
     DEF StoreFails, StoresOK, Goto, Labels, durable, wire
<1>15. CASE Crash(d)
  BY <1>15, <1>t, DispatcherLeaves DEF Crash, StoresOK, durable, wire
<1> QED
  BY <1>1, <1>2, <1>3, <1>4, <1>5, <1>6, <1>7, <1>8, <1>9, <1>10, <1>11,
     <1>12, <1>13, <1>14, <1>15
     DEF DispatcherStep, Acknowledge, RejectFinal, Labels

LEMMA TypeStep == TypeOK /\ [Next]_vars => TypeOK'
<1> SUFFICES ASSUME TypeOK, [Next]_vars PROVE TypeOK'
  OBVIOUS
<1>1. ASSUME NEW d \in Dispatchers, DispatcherStep(d)
      PROVE  TypeOK'
  BY <1>1, TypeDispatcherStep
<1>2. CASE ProviderStep
  BY <1>2 DEF ProviderStep, ProviderDecides, TypeOK, durable, volatile
<1>3. ASSUME NEW e \in Effects, NEW t \in ReconcilerTargets,
             ReconcilerWrites(e, t)
      PROVE  TypeOK'
  <2>1. attempts' \in [Effects -> Attempt \cup {Absent}]
    BY <1>3, WriteKeepsType DEF ReconcilerWrites, ReconcilerTargets, AttemptStates
  <2> QED
    BY <1>3, <2>1 DEF ReconcilerWrites, TypeOK, wire, volatile
<1>4. ASSUME NEW e \in Effects, NEW c \in Contents, PrepareAttempt(e, c)
      PROVE  TypeOK'
  <2>1. NewAttempt(c) \in Attempt
    BY DEF NewAttempt, Attempt, AttemptStates
  <2> QED
    BY <1>4, <2>1 DEF PrepareAttempt, TypeOK, wire, volatile
<1>5. CASE MissionMoves
  BY <1>5 DEF MissionMoves, TypeOK, durable, wire, volatile
<1>6. CASE UNCHANGED vars
  BY <1>6 DEF vars, TypeOK
<1> QED
  BY <1>1, <1>2, <1>3, <1>4, <1>5, <1>6 DEF Next

\* Every reachable state has the shape TypeOK gives it.
THEOREM TypeCorrect == Spec => []TypeOK
BY TypeInit, TypeStep, PTL DEF Spec
-----------------------------------------------------------------------------
LEMMA SafetyInit == Init => SafetyInv
BY DEF Init, SafetyInv, CallInv, Knows, Owning, OneOwner, WireInv, PaidAtMostOnce,
       NeverSentUnclaimed, SentAsJournaled, AcknowledgedIsTraceable,
       FinalFailureMeansNoPayment, ReferenceServesOneEffect, Absent, NoCall

\* Where a request may still leave or an answer may still come.
Sending == {"port", "send", "await"}

\* A dispatcher moves on, learning no more than it may, while the stores and
\* the wire stay what they are.
LEMMA QuietTurn ==
  ASSUME DispatchInv, NEW d \in Dispatchers, NEW label \in Labels, NEW k,
         UNCHANGED <<attempts, references, posts, provider>>,
         pc' = [pc EXCEPT ![d] = label], call' = [call EXCEPT ![d] = k],
         Knows(label, k),
         label \in Owning =>
           /\ pc[d] \in Owning
           /\ k.effect = call[d].effect
           /\ k.content = call[d].content,
         label \in Sending => pc[d] \in Sending
  PROVE  SafetyInv'
<1> USE DEF DispatchInv, SafetyInv
<1>1. /\ pc'[d] = label /\ call'[d] = k
      /\ \A x \in Dispatchers \ {d} : pc'[x] = pc[x] /\ call'[x] = call[x]
  BY DEF TypeOK
<1>2. CallInv'
  BY <1>1 DEF CallInv, Knows
<1>3. OneOwner'
  BY <1>1 DEF OneOwner
<1>4. SentAsJournaled'
  BY <1>1 DEF SentAsJournaled
<1>5. FinalFailureMeansNoPayment'
  BY <1>1 DEF FinalFailureMeansNoPayment, Sending, Owning
<1>6. /\ WireInv' /\ PaidAtMostOnce' /\ NeverSentUnclaimed'
      /\ AcknowledgedIsTraceable' /\ ReferenceServesOneEffect'
  BY DEF WireInv, PaidAtMostOnce, NeverSentUnclaimed,
         AcknowledgedIsTraceable, ReferenceServesOneEffect
<1> QED
  BY <1>2, <1>3, <1>4, <1>5, <1>6

\* The journal moves, and nobody claims: the writer, if it is a dispatcher,
\* leaves.
LEMMA JournalMoves ==
  ASSUME DispatchInv, NEW e \in Effects, NEW target,
         attempts[e].state \in AttemptStates,
         target \in AttemptSuccessors[attempts[e].state],
         target # "IN_FLIGHT",
         WriteAttempt(e, target),
         UNCHANGED <<references, posts, provider>>,
         UNCHANGED <<pc, call>> \/ \E d \in Dispatchers : Leave(d),
         target = "PROVIDER_ACKNOWLEDGED" =>
           references[e] # None /\ provider[e] = "accepted",
         target = "FAILED_FINAL" =>
           /\ provider[e] \in {"idle", "rejected"}
           /\ \A d \in Dispatchers : call[d].effect = e => pc[d] \notin Sending
  PROVE  SafetyInv'
<1> USE DEF DispatchInv, SafetyInv
<1>1. /\ attempts'[e].state = target
      /\ attempts'[e].content = attempts[e].content
      /\ attempts'[e].revision = attempts[e].revision + 1
      /\ \A f \in Effects \ {e} : attempts'[f] = attempts[f]
  BY DEF TypeOK, WriteAttempt, Moved
<1>2. attempts[e].revision \in Nat
  BY DEF TypeOK, Attempt, Absent
<1>3. /\ target \in AttemptStates \ {"PREPARED"}
      /\ attempts[e].state # "ABSENT"
  BY AttemptTable DEF AttemptStates
<1>4. \A x \in Dispatchers :
        \/ pc'[x] = pc[x] /\ call'[x] = call[x]
        \/ pc'[x] = "idle" /\ call'[x] = NoCall
  BY DEF TypeOK, Leave, Goto
<1>5. \A x \in Dispatchers :
        /\ call[x].revision \in Nat
        /\ pc[x] # "idle" => call[x].effect \in Effects
  BY DEF TypeOK, Call
<1>6. CallInv'
  <2> SUFFICES ASSUME NEW x \in Dispatchers, pc'[x] = pc[x], call'[x] = call[x],
                      pc[x] # "idle"
               PROVE  Knows(pc[x], call[x])'
    BY <1>4 DEF CallInv, Knows, Owning
  <2>1. Knows(pc[x], call[x])
    BY DEF CallInv
  <2> DEFINE k == call[x]
  <2>2. k.effect \in Effects /\ k.revision \in Nat
    BY <1>5
  <2>3. CASE k.effect = e
    BY <1>1, <1>2, <1>3, <2>1, <2>2, <2>3 DEF Knows, AttemptStates
  <2>4. CASE k.effect # e
    BY <1>1, <2>1, <2>2, <2>4 DEF Knows
  <2> QED
    BY <2>3, <2>4
<1>7. OneOwner'
  BY <1>4 DEF OneOwner, Owning
<1>8. SentAsJournaled'
  BY <1>1, <1>4, <1>5 DEF SentAsJournaled, Owning
<1>9. NeverSentUnclaimed'
  BY <1>1, <1>3 DEF NeverSentUnclaimed, AttemptStates
<1>10. AcknowledgedIsTraceable'
  BY <1>1 DEF AcknowledgedIsTraceable
<1>11. FinalFailureMeansNoPayment'
  BY <1>1, <1>4 DEF FinalFailureMeansNoPayment, Sending
<1>12. WireInv' /\ PaidAtMostOnce' /\ ReferenceServesOneEffect'
  BY DEF WireInv, PaidAtMostOnce, ReferenceServesOneEffect
<1> QED
  BY <1>6, <1>7, <1>8, <1>9, <1>10, <1>11, <1>12

\* The provider decides about a request it has.
LEMMA ProviderMoves ==
  ASSUME DispatchInv, NEW e \in Effects,
         NEW verdict \in {"accepted", "rejected"}, ProviderDecides(e, verdict)
  PROVE  SafetyInv'
<1> USE DEF DispatchInv, SafetyInv, ProviderDecides, durable, volatile
<1>1. /\ provider[e] = "pending" /\ provider'[e] = verdict
      /\ \A f \in Effects \ {e} : provider'[f] = provider[f]
  BY DEF TypeOK
<1>2. CallInv'
  BY <1>1 DEF TypeOK, CallInv, Knows
<1>3. AcknowledgedIsTraceable' /\ FinalFailureMeansNoPayment'
  BY <1>1 DEF AcknowledgedIsTraceable, FinalFailureMeansNoPayment
<1>4. WireInv'
  BY <1>1 DEF WireInv
<1>5. /\ OneOwner' /\ PaidAtMostOnce' /\ NeverSentUnclaimed'
      /\ SentAsJournaled' /\ ReferenceServesOneEffect'
  BY DEF OneOwner, PaidAtMostOnce, NeverSentUnclaimed, SentAsJournaled,
         ReferenceServesOneEffect
<1> QED
  BY <1>2, <1>3, <1>4, <1>5

\* A new attempt: no dispatcher held one, so only its creator has a stake.
LEMMA AttemptCreated ==
  ASSUME DispatchInv, NEW d \in Dispatchers, CreateAttempt(d),
         attempts[call[d].effect].state = "ABSENT"
  PROVE  SafetyInv'
<1> DEFINE e == call[d].effect
           k == [call[d] EXCEPT !.revision = 1]
<1> USE DEF DispatchInv, SafetyInv
<1>1. /\ pc[d] = "create" /\ e \in Effects /\ call[d] \in Call
      /\ attempts' = [attempts EXCEPT ![e] = NewAttempt(call[d].content)]
      /\ call' = [call EXCEPT ![d] = k]
      /\ pc' = [pc EXCEPT ![d] = "claim"]
      /\ UNCHANGED <<references, posts, provider>>
  BY DEF CreateAttempt, Goto, TypeOK, wire
<1>2. /\ k.effect = e /\ k.content = call[d].content /\ k.revision = 1
  BY <1>1, CallUpdates
<1> HIDE DEF k
<1>3. /\ attempts'[e].state = "PREPARED"
      /\ attempts'[e].content = call[d].content
      /\ attempts'[e].revision = 1
      /\ \A f \in Effects \ {e} : attempts'[f] = attempts[f]
  BY <1>1 DEF TypeOK, NewAttempt
<1>4. /\ pc'[d] = "claim" /\ call'[d] = k
      /\ \A x \in Dispatchers \ {d} : pc'[x] = pc[x] /\ call'[x] = call[x]
  BY <1>1 DEF TypeOK
<1>5. \A x \in Dispatchers :
        call[x].effect = e => pc[x] # "claim" /\ pc[x] \notin Owning
  BY DEF CallInv, Knows
<1>6. \A x \in Dispatchers : pc[x] # "idle" => call[x].effect \in Effects
  BY DEF TypeOK
<1>7. CallInv'
  <2>1. Knows(pc[d], call[d])'
    BY <1>2, <1>3, <1>4 DEF Knows, Owning
  <2>2. ASSUME NEW x \in Dispatchers \ {d}
        PROVE  Knows(pc[x], call[x])'
    <3>1. Knows(pc[x], call[x])
      BY DEF CallInv
    <3> QED
      BY <1>1, <1>3, <1>4, <1>5, <1>6, <3>1 DEF Knows, Owning
  <2> QED
    BY <2>1, <2>2 DEF CallInv
<1>8. OneOwner'
  BY <1>4 DEF OneOwner, Owning
<1>9. SentAsJournaled'
  BY <1>3, <1>4, <1>5, <1>6 DEF SentAsJournaled, Owning
<1>10. FinalFailureMeansNoPayment'
  BY <1>1, <1>3, <1>4 DEF FinalFailureMeansNoPayment
<1>11. NeverSentUnclaimed' /\ AcknowledgedIsTraceable'
  BY <1>1, <1>3 DEF TypeOK, NeverSentUnclaimed, AcknowledgedIsTraceable
<1>12. WireInv' /\ PaidAtMostOnce' /\ ReferenceServesOneEffect'
  BY <1>1 DEF WireInv, PaidAtMostOnce, ReferenceServesOneEffect
<1> QED
  BY <1>7, <1>8, <1>9, <1>10, <1>11, <1>12

\* The claim: the revision read is still the current one, so the attempt is
\* PREPARED, nobody owns it and nothing was posted for it.
LEMMA AttemptClaimed ==
  ASSUME DispatchInv, NEW d \in Dispatchers, ClaimAttempt(d),
         MayTransition(call[d].effect, call[d].revision, "IN_FLIGHT")
  PROVE  SafetyInv'
<1> DEFINE e == call[d].effect
           k == [call[d] EXCEPT !.revision = call[d].revision + 1]
<1> USE DEF DispatchInv, SafetyInv
<1>1. /\ pc[d] = "claim" /\ e \in Effects /\ call[d] \in Call
      /\ WriteAttempt(e, "IN_FLIGHT")
      /\ call' = [call EXCEPT ![d] = k]
      /\ pc' = [pc EXCEPT ![d] = "port"]
      /\ UNCHANGED <<references, posts, provider>>
  BY DEF ClaimAttempt, Goto, TypeOK, wire
<1>2. /\ k.effect = e /\ k.content = call[d].content
      /\ k.revision = call[d].revision + 1
  <2>1. call[d].revision + 1 \in Nat
    BY <1>1, CallUpdates
  <2> QED
    BY <1>1, <2>1, CallUpdates
<1> HIDE DEF k
<1>3. Knows("claim", call[d])
  BY <1>1 DEF CallInv
<1>4. /\ attempts[e].state = "PREPARED" /\ attempts[e].content = call[d].content
      /\ attempts[e].revision = call[d].revision
  BY <1>3 DEF MayTransition, Knows
<1>5. /\ attempts'[e].state = "IN_FLIGHT"
      /\ attempts'[e].content = attempts[e].content
      /\ attempts'[e].revision = attempts[e].revision + 1
      /\ \A f \in Effects \ {e} : attempts'[f] = attempts[f]
  BY <1>1 DEF TypeOK, WriteAttempt, Moved
<1>6. attempts[e].revision \in Nat
  BY <1>1 DEF TypeOK, Attempt, Absent
<1>7. /\ pc'[d] = "port" /\ call'[d] = k
      /\ \A x \in Dispatchers \ {d} : pc'[x] = pc[x] /\ call'[x] = call[x]
  BY <1>1 DEF TypeOK
<1>8. \A x \in Dispatchers : call[x].effect = e => pc[x] \notin Owning
  BY <1>4 DEF CallInv, Knows
<1>9. \A x \in Dispatchers :
        /\ call[x].revision \in Nat
        /\ pc[x] # "idle" => call[x].effect \in Effects
  BY DEF TypeOK, Call
<1>10. posts[e] = 0
  BY <1>1, <1>4 DEF NeverSentUnclaimed, TypeOK
<1>11. CallInv'
  <2>1. Knows(pc[d], call[d])'
    BY <1>1, <1>2, <1>4, <1>5, <1>6, <1>7, <1>10 DEF Knows, Owning
  <2>2. ASSUME NEW x \in Dispatchers \ {d}
        PROVE  Knows(pc[x], call[x])'
    <3>1. Knows(pc[x], call[x])
      BY DEF CallInv
    <3>2. CASE call[x].effect = e
      BY <1>1, <1>4, <1>5, <1>6, <1>7, <1>8, <1>9, <3>1, <3>2 DEF Knows, Owning
    <3>3. CASE call[x].effect # e
      BY <1>1, <1>5, <1>7, <1>9, <3>1, <3>3 DEF Knows, Owning
    <3> QED
      BY <3>2, <3>3
  <2> QED
    BY <2>1, <2>2 DEF CallInv
<1>12. OneOwner'
  BY <1>2, <1>7, <1>8 DEF OneOwner
<1>13. SentAsJournaled'
  BY <1>2, <1>4, <1>5, <1>7, <1>8, <1>9 DEF SentAsJournaled, Owning
<1>14. FinalFailureMeansNoPayment'
  BY <1>1, <1>2, <1>5, <1>7 DEF FinalFailureMeansNoPayment
<1>15. NeverSentUnclaimed' /\ AcknowledgedIsTraceable'
  BY <1>1, <1>5 DEF NeverSentUnclaimed, AcknowledgedIsTraceable
<1>16. WireInv' /\ PaidAtMostOnce' /\ ReferenceServesOneEffect'
  BY <1>1 DEF WireInv, PaidAtMostOnce, ReferenceServesOneEffect
<1> QED
  BY <1>11, <1>12, <1>13, <1>14, <1>15, <1>16

\* The request leaves: the sender is the only owner, and it had not sent yet.
LEMMA RequestSent ==
  ASSUME DispatchInv, NEW d \in Dispatchers, Send(d)
  PROVE  SafetyInv'
<1> DEFINE e == call[d].effect
<1> USE DEF DispatchInv, SafetyInv
<1>1. /\ pc[d] = "send" /\ e \in Effects
      /\ posts' = [posts EXCEPT ![e] = posts[e] + 1]
      /\ provider' = [provider EXCEPT ![e] = "pending"]
      /\ pc' = [pc EXCEPT ![d] = "await"]
      /\ UNCHANGED <<attempts, references, call>>
  BY DEF Send, Goto, TypeOK, durable
<1>2. Knows("send", call[d])
  BY <1>1 DEF CallInv
<1>3. /\ posts[e] = 0 /\ attempts[e].state \notin {"ABSENT", "PREPARED"}
      /\ provider[e] = "idle"
  BY <1>1, <1>2 DEF Knows, Owning, WireInv
<1>4. /\ posts'[e] = 1 /\ provider'[e] = "pending"
      /\ \A f \in Effects \ {e} :
           posts'[f] = posts[f] /\ provider'[f] = provider[f]
  BY <1>1, <1>3 DEF TypeOK
<1>5. /\ pc'[d] = "await"
      /\ \A x \in Dispatchers \ {d} : pc'[x] = pc[x]
  BY <1>1 DEF TypeOK
<1>6. \A x \in Dispatchers \ {d} : call[x].effect = e => pc[x] \notin Owning
  BY <1>1 DEF OneOwner, Owning
<1>7. \A x \in Dispatchers : pc[x] # "idle" => call[x].effect \in Effects
  BY DEF TypeOK
<1>8. CallInv'
  <2>1. Knows(pc[d], call[d])'
    BY <1>1, <1>2, <1>3, <1>4, <1>5 DEF Knows, Owning
  <2>2. ASSUME NEW x \in Dispatchers \ {d}
        PROVE  Knows(pc[x], call[x])'
    <3>1. Knows(pc[x], call[x])
      BY DEF CallInv
    <3> QED
      BY <1>1, <1>4, <1>5, <1>6, <1>7, <3>1 DEF Knows, Owning
  <2> QED
    BY <2>1, <2>2 DEF CallInv
<1>9. OneOwner' /\ SentAsJournaled'
  BY <1>1, <1>5 DEF OneOwner, SentAsJournaled, Owning
<1>10. FinalFailureMeansNoPayment' /\ AcknowledgedIsTraceable'
  <2>1. attempts[e].state # "FAILED_FINAL"
    BY <1>1 DEF FinalFailureMeansNoPayment
  <2>2. attempts[e].state # "PROVIDER_ACKNOWLEDGED"
    BY <1>1, <1>3 DEF AcknowledgedIsTraceable
  <2> QED
    BY <1>1, <1>4, <1>5, <2>1, <2>2
       DEF FinalFailureMeansNoPayment, AcknowledgedIsTraceable
<1>11. WireInv' /\ PaidAtMostOnce' /\ NeverSentUnclaimed'
  BY <1>1, <1>3, <1>4 DEF WireInv, PaidAtMostOnce, NeverSentUnclaimed
<1>12. ReferenceServesOneEffect'
  BY <1>1 DEF ReferenceServesOneEffect
<1> QED
  BY <1>8, <1>9, <1>10, <1>11, <1>12

\* A reference is stored, for the one effect it is to serve.
LEMMA ReferencePersisted ==
  ASSUME DispatchInv, NEW d \in Dispatchers, PersistReference(d),
         Goto(d, "acknowledge"),
         references' =
           [references EXCEPT ![call[d].effect] = call[d].reference],
         \A other \in Effects \ {call[d].effect} :
           references[other] # call[d].reference
  PROVE  SafetyInv'
<1> DEFINE e == call[d].effect
           r == call[d].reference
<1> USE DEF DispatchInv, SafetyInv
<1>1. /\ pc[d] = "persist" /\ e \in Effects
      /\ pc' = [pc EXCEPT ![d] = "acknowledge"]
      /\ UNCHANGED <<attempts, posts, provider, call>>
  BY DEF PersistReference, Goto, TypeOK, wire
<1>2. Knows("persist", call[d])
  BY <1>1 DEF CallInv
<1>3. r # None
  BY <1>2, DispatchAssumption DEF Knows
<1>4. /\ references'[e] = r
      /\ \A f \in Effects \ {e} : references'[f] = references[f]
  BY <1>1 DEF TypeOK
<1>5. /\ pc'[d] = "acknowledge"
      /\ \A x \in Dispatchers \ {d} : pc'[x] = pc[x]
  BY <1>1 DEF TypeOK
<1>6. CallInv'
  <2>1. Knows(pc[d], call[d])'
    BY <1>1, <1>2, <1>3, <1>4, <1>5 DEF Knows, Owning
  <2>2. ASSUME NEW x \in Dispatchers \ {d}
        PROVE  Knows(pc[x], call[x])'
    <3>1. Knows(pc[x], call[x])
      BY DEF CallInv
    <3>2. pc[x] # "idle" => call[x].effect \in Effects
      BY DEF TypeOK
    <3> QED
      BY <1>1, <1>3, <1>4, <1>5, <3>1, <3>2 DEF Knows, Owning
  <2> QED
    BY <2>1, <2>2 DEF CallInv
<1>7. OneOwner' /\ SentAsJournaled' /\ FinalFailureMeansNoPayment'
  BY <1>1, <1>5 DEF OneOwner, SentAsJournaled, FinalFailureMeansNoPayment, Owning
<1>8. AcknowledgedIsTraceable'
  BY <1>1, <1>3, <1>4 DEF AcknowledgedIsTraceable
<1>9. ReferenceServesOneEffect'
  BY <1>4 DEF ReferenceServesOneEffect
<1>10. WireInv' /\ PaidAtMostOnce' /\ NeverSentUnclaimed'
  BY <1>1 DEF WireInv, PaidAtMostOnce, NeverSentUnclaimed
<1> QED
  BY <1>6, <1>7, <1>8, <1>9, <1>10

\* A dispatcher leaves, or turns to what to do about an unknown outcome.
LEMMA QuietLeave ==
  ASSUME DispatchInv, NEW d \in Dispatchers, Leave(d),
         UNCHANGED <<attempts, references, posts, provider>>
  PROVE  SafetyInv'
<1>1. Knows("idle", NoCall)
  BY DEF Knows, Owning
<1> QED
  BY <1>1, QuietTurn DEF Leave, Goto, Labels, Owning, Sending

LEMMA QuietGoto ==
  ASSUME DispatchInv, NEW d \in Dispatchers, NEW label \in Labels,
         Goto(d, label), Knows(label, call[d]),
         label \in Owning => pc[d] \in Owning,
         label \in Sending => pc[d] \in Sending,
         UNCHANGED <<attempts, references, posts, provider, call>>
  PROVE  SafetyInv'
<1>1. call' = [call EXCEPT ![d] = call[d]]
  BY DEF DispatchInv, TypeOK
<1> HIDE DEF Sending, Knows, Owning, Labels
<1> QED
  BY <1>1, QuietTurn DEF Goto

LEMMA SafetyDispatcherStep ==
  ASSUME DispatchInv, NEW d \in Dispatchers, DispatcherStep(d)
  PROVE  SafetyInv'
<1> DEFINE e == call[d].effect
<1>t. TypeOK /\ SafetyInv
  BY DEF DispatchInv
<1>k. Knows(pc[d], call[d])
  BY <1>t DEF SafetyInv, CallInv
<1>c. /\ call[d] \in Call
      /\ pc[d] # "idle" => e \in Effects
  BY <1>t DEF TypeOK
<1>1. ASSUME NEW f \in Effects, NEW c \in Contents, Begin(d, f, c)
      PROVE  SafetyInv'
  <2>1. Knows("create", [NoCall EXCEPT !.effect = f, !.content = c])
    BY DEF Knows, Owning
  <2> QED
    BY <1>1, <2>1, QuietTurn
       DEF Begin, Goto, Labels, Owning, Sending, durable, wire
<1>2. CASE CreateAttempt(d)
  <2>1. CASE attempts[e].state = "ABSENT"
    BY <1>2, <2>1, AttemptCreated
  <2>2. CASE /\ attempts[e].state = "PREPARED"
             /\ attempts[e].content = call[d].content
    <3> DEFINE k == [call[d] EXCEPT !.revision = attempts[e].revision]
    <3>1. e \in Effects /\ attempts[e].revision \in Nat
      BY <1>2, <1>t, <1>c DEF CreateAttempt, TypeOK, Attempt, Absent
    <3>2. k.effect = e /\ k.content = call[d].content
          /\ k.revision = attempts[e].revision
      BY <1>c, <3>1, CallUpdates
    <3>3. /\ call' = [call EXCEPT ![d] = k]
          /\ pc' = [pc EXCEPT ![d] = "claim"]
          /\ UNCHANGED <<attempts, references, posts, provider>>
      BY <1>2, <2>2 DEF CreateAttempt, Goto, wire
    <3> HIDE DEF k
    <3>4. Knows("claim", k)
      BY <2>2, <3>1, <3>2 DEF Knows, Owning
    <3> QED
      BY <3>3, <3>4, QuietTurn DEF Labels, Owning, Sending
  <2>3. CASE Leave(d) /\ UNCHANGED attempts
    BY <1>2, <2>3, QuietLeave DEF CreateAttempt, wire
  <2> QED
    BY <1>2, <2>1, <2>2, <2>3 DEF CreateAttempt
<1>3. CASE ClaimAttempt(d)
  <2>1. CASE MayTransition(e, call[d].revision, "IN_FLIGHT")
    BY <1>3, <2>1, AttemptClaimed
  <2>2. CASE ~MayTransition(e, call[d].revision, "IN_FLIGHT")
    BY <1>3, <2>2, QuietLeave DEF ClaimAttempt, wire
  <2> QED
    BY <2>1, <2>2
<1>4. CASE CheckReference(d)
  BY <1>4, <1>k, QuietGoto
     DEF CheckReference, Knows, Labels, Owning, Sending, durable, wire
<1>5. CASE RefuseToSend(d)
  BY <1>5, <1>k, QuietGoto
     DEF RefuseToSend, Knows, Labels, Owning, Sending, durable, wire
<1>6. CASE RejectUnsent(d)
  <2>1. provider[e] = "idle"
    BY <1>6, <1>k, <1>c, <1>t DEF RejectUnsent, Knows, SafetyInv, WireInv
  <2> QED
    BY <1>6, <1>k, <2>1, QuietGoto
       DEF RejectUnsent, Knows, Labels, Owning, Sending, durable, wire
<1>7. CASE Send(d)
  BY <1>7, RequestSent
<1>8. ASSUME NEW r \in References, ReceiveAccepted(d, r)
      PROVE  SafetyInv'
  <2> DEFINE k == [call[d] EXCEPT !.reference = r]
  <2>1. /\ k.effect = e /\ k.content = call[d].content
        /\ k.revision = call[d].revision /\ k.reference = r
    BY <1>c, CallUpdates
  <2>2. /\ call' = [call EXCEPT ![d] = k]
        /\ pc' = [pc EXCEPT ![d] = "persist"]
        /\ pc[d] = "await" /\ provider[e] = "accepted"
        /\ UNCHANGED <<attempts, references, posts, provider>>
    BY <1>8 DEF ReceiveAccepted, Goto, durable, wire
  <2> HIDE DEF k
  <2>3. Knows("persist", k)
    BY <1>k, <2>1, <2>2 DEF Knows, Owning
  <2> QED
    BY <2>1, <2>2, <2>3, QuietTurn DEF Labels, Owning, Sending
<1>9. CASE ReceiveRejected(d)
  BY <1>9, <1>k, QuietGoto
     DEF ReceiveRejected, Knows, Labels, Owning, Sending, durable, wire
<1>10. CASE LoseAnswer(d)
  BY <1>10, <1>k, QuietGoto
     DEF LoseAnswer, Knows, Labels, Owning, Sending, durable, wire
<1>11. CASE PersistReference(d)
  <2>1. CASE Goto(d, "unknown") /\ UNCHANGED references
    BY <1>11, <1>k, <2>1, QuietGoto
       DEF PersistReference, Knows, Labels, Owning, Sending, wire
  <2>2. CASE ~(Goto(d, "unknown") /\ UNCHANGED references)
    BY <1>11, <2>2, ReferencePersisted DEF PersistReference
  <2> QED
    BY <2>1, <2>2
<1>12. CASE Acknowledge(d)
  <2>1. CASE MayTransition(e, call[d].revision, "PROVIDER_ACKNOWLEDGED")
    BY <1>12, <1>k, <1>c, <2>1, JournalMoves
       DEF Acknowledge, RecordOutcome, MayTransition, Knows, wire
  <2>2. CASE ~MayTransition(e, call[d].revision, "PROVIDER_ACKNOWLEDGED")
    BY <1>12, <1>k, <2>2, QuietGoto
       DEF Acknowledge, RecordOutcome, Knows, Labels, Owning, Sending, wire
  <2> QED
    BY <2>1, <2>2
<1>13. CASE RejectFinal(d)
  <2>1. CASE MayTransition(e, call[d].revision, "FAILED_FINAL")
    <3>1. \A x \in Dispatchers : call[x].effect = e => pc[x] \notin Sending
      BY <1>13, <1>t DEF RejectFinal, RecordOutcome, SafetyInv, OneOwner, Owning, Sending
    <3> QED
      BY <1>13, <1>k, <1>c, <2>1, <3>1, JournalMoves
         DEF RejectFinal, RecordOutcome, MayTransition, Knows, wire
  <2>2. CASE ~MayTransition(e, call[d].revision, "FAILED_FINAL")
    BY <1>13, <1>k, <2>2, QuietGoto
       DEF RejectFinal, RecordOutcome, Knows, Labels, Owning, Sending, wire
  <2> QED
    BY <2>1, <2>2
<1>14. CASE MarkUnknown(d)
  <2>1. CASE MayTransition(e, call[d].revision, "EXECUTION_UNKNOWN")
    BY <1>14, <1>c, <2>1, JournalMoves DEF MarkUnknown, MayTransition, wire
  <2>2. CASE ~MayTransition(e, call[d].revision, "EXECUTION_UNKNOWN")
    BY <1>14, <2>2, QuietLeave DEF MarkUnknown, wire
  <2> QED
    BY <2>1, <2>2
<1>15. CASE StoreFails(d)
  <2>1. CASE Leave(d)
    BY <1>15, <2>1, QuietLeave DEF StoreFails, durable, wire
  <2>2. CASE ~Leave(d)
    BY <1>15, <1>k, <2>2, QuietGoto
       DEF StoreFails, Knows, Labels, Owning, Sending, durable, wire
  <2> QED
    BY <2>1, <2>2
<1>16. CASE Crash(d)
  BY <1>16, QuietLeave DEF Crash, durable, wire
<1> QED
  BY <1>1, <1>2, <1>3, <1>4, <1>5, <1>6, <1>7, <1>8, <1>9, <1>10, <1>11,
     <1>12, <1>13, <1>14, <1>15, <1>16
     DEF DispatcherStep

\* A simulation prepares an attempt: nobody had read it yet.
LEMMA AttemptPrepared ==
  ASSUME DispatchInv, NEW e \in Effects, NEW c \in Contents, PrepareAttempt(e, c)
  PROVE  SafetyInv'
<1> USE DEF DispatchInv, SafetyInv
<1>1. /\ attempts[e].state = "ABSENT"
      /\ attempts'[e].state = "PREPARED"
      /\ \A f \in Effects \ {e} : attempts'[f] = attempts[f]
      /\ UNCHANGED <<references, posts, provider, pc, call>>
  BY DEF PrepareAttempt, TypeOK, NewAttempt, wire, volatile
<1>2. \A x \in Dispatchers :
        /\ pc[x] \in {"claim"} \cup Owning => call[x].effect # e
        /\ pc[x] # "idle" => call[x].effect \in Effects
  BY <1>1 DEF CallInv, Knows, TypeOK
<1>3. CallInv'
  <2>1. ASSUME NEW x \in Dispatchers
        PROVE  Knows(pc[x], call[x])'
    BY <1>1, <1>2 DEF CallInv, Knows, Owning
  <2> QED
    BY <2>1 DEF CallInv
<1>4. SentAsJournaled' /\ OneOwner'
  BY <1>1, <1>2 DEF SentAsJournaled, OneOwner, Owning
<1>5. NeverSentUnclaimed' /\ AcknowledgedIsTraceable' /\ FinalFailureMeansNoPayment'
  BY <1>1 DEF NeverSentUnclaimed, AcknowledgedIsTraceable, FinalFailureMeansNoPayment
<1>6. WireInv' /\ PaidAtMostOnce' /\ ReferenceServesOneEffect'
  BY <1>1 DEF WireInv, PaidAtMostOnce, ReferenceServesOneEffect
<1> QED
  BY <1>3, <1>4, <1>5, <1>6

LEMMA SafetyStep == DispatchInv /\ [Next]_vars => SafetyInv'
<1> SUFFICES ASSUME DispatchInv, [Next]_vars PROVE SafetyInv'
  OBVIOUS
<1>1. ASSUME NEW d \in Dispatchers, DispatcherStep(d)
      PROVE  SafetyInv'
  BY <1>1, SafetyDispatcherStep
<1>2. CASE ProviderStep
  BY <1>2, ProviderMoves DEF ProviderStep
<1>3. ASSUME NEW e \in Effects, NEW t \in ReconcilerTargets,
             ReconcilerWrites(e, t)
      PROVE  SafetyInv'
  BY <1>3, JournalMoves DEF ReconcilerWrites, ReconcilerTargets, wire, volatile
<1>4. ASSUME NEW e \in Effects, NEW c \in Contents, PrepareAttempt(e, c)
      PROVE  SafetyInv'
  BY <1>4, AttemptPrepared
<1>5. CASE UNCHANGED <<attempts, references, posts, provider, pc, call>>
  BY <1>5
     DEF DispatchInv, SafetyInv, CallInv, Knows, OneOwner, WireInv,
         PaidAtMostOnce, NeverSentUnclaimed, SentAsJournaled,
         AcknowledgedIsTraceable, FinalFailureMeansNoPayment,
         ReferenceServesOneEffect
<1> QED
  BY <1>1, <1>2, <1>3, <1>4, <1>5 DEF Next, MissionMoves, vars, durable, wire, volatile

\* The inductive invariant holds in every reachable state.
THEOREM DispatchSafety == Spec => []DispatchInv
<1>1. Init => DispatchInv
  BY TypeInit, SafetyInit DEF DispatchInv
<1>2. DispatchInv /\ [Next]_vars => DispatchInv'
  BY TypeStep, SafetyStep DEF DispatchInv
<1> QED
  BY <1>1, <1>2, PTL DEF Spec

\* An effect is paid at most once, for any number of dispatchers, plans and
\* crashes: dispatch() claims the attempt before it calls the port.
THEOREM OnlyOnePayment == Spec => []PaidAtMostOnce
BY DispatchSafety, PTL DEF DispatchInv, SafetyInv

\* Nothing is on the wire for an attempt that is not durably IN_FLIGHT or
\* beyond: a restart never takes a payment that may exist for one that does not.
THEOREM ClaimPrecedesPayment == Spec => []NeverSentUnclaimed
BY DispatchSafety, PTL DEF DispatchInv, SafetyInv

\* What an owner of the claim sends is what the journal says was planned.
THEOREM JournalNamesThePayment == Spec => []SentAsJournaled
BY DispatchSafety, PTL DEF DispatchInv, SafetyInv

\* An acknowledged attempt was accepted, and its reference is durable.
THEOREM AcknowledgementIsTraceable == Spec => []AcknowledgedIsTraceable
BY DispatchSafety, PTL DEF DispatchInv, SafetyInv

\* FAILED_FINAL is written only when nothing was paid and nobody can pay.
THEOREM FinalFailureIsProof == Spec => []FinalFailureMeansNoPayment
BY DispatchSafety, PTL DEF DispatchInv, SafetyInv

\* Even a provider that repeats a reference never gets one effect taken for
\* another.
THEOREM ReferencesAreNotShared == Spec => []ReferenceServesOneEffect
BY DispatchSafety, PTL DEF DispatchInv, SafetyInv

(***************************************************************************)
(* What modules that contain this one need of its steps.                   *)
(***************************************************************************)
\* A journaled plan never changes.
LEMMA PlanIsKept ==
  ASSUME TypeOK, Next, NEW e \in Effects, attempts[e].state # "ABSENT"
  PROVE  /\ attempts'[e].state # "ABSENT"
         /\ attempts'[e].content = attempts[e].content
<1> USE DEF TypeOK
<1>1. ASSUME NEW f \in Effects, NEW t \in AttemptStates, WriteAttempt(f, t)
      PROVE  /\ attempts'[e].state # "ABSENT"
             /\ attempts'[e].content = attempts[e].content
  BY <1>1 DEF WriteAttempt, Moved, AttemptStates
<1>2. ASSUME NEW f \in Effects, NEW c, attempts[f].state = "ABSENT",
             attempts' = [attempts EXCEPT ![f] = NewAttempt(c)]
      PROVE  attempts'[e] = attempts[e]
  BY <1>2
<1>3. ASSUME NEW d \in Dispatchers, DispatcherStep(d), pc[d] # "idle"
      PROVE  \/ UNCHANGED attempts
             \/ \E f \in Effects, t \in AttemptStates : WriteAttempt(f, t)
             \/ \E f \in Effects, c \in Contents :
                  /\ attempts[f].state = "ABSENT"
                  /\ attempts' = [attempts EXCEPT ![f] = NewAttempt(c)]
  <2>1. call[d].effect \in Effects /\ call[d].content \in Contents
    BY <1>3
  <2>2. {"IN_FLIGHT", "PROVIDER_ACKNOWLEDGED", "FAILED_FINAL", "EXECUTION_UNKNOWN"}
          \subseteq AttemptStates
    BY DEF AttemptStates
  <2> QED
    BY <1>3, <2>1, <2>2
    DEF DispatcherStep, Begin, CreateAttempt, ClaimAttempt, CheckReference,
        RefuseToSend, RejectUnsent, Send, ReceiveAccepted, ReceiveRejected,
        LoseAnswer, PersistReference, Acknowledge, RejectFinal, RecordOutcome,
        MarkUnknown, StoreFails, Crash, durable
<1>4. ASSUME NEW d \in Dispatchers, DispatcherStep(d), pc[d] = "idle"
      PROVE  UNCHANGED attempts
  BY <1>4
  DEF DispatcherStep, Begin, CreateAttempt, ClaimAttempt, CheckReference,
      RefuseToSend, RejectUnsent, Send, ReceiveAccepted, ReceiveRejected,
      LoseAnswer, PersistReference, Acknowledge, RejectFinal, RecordOutcome,
      MarkUnknown, StoreFails, Crash, durable
<1>5. ReconcilerTargets \subseteq AttemptStates
  BY DEF ReconcilerTargets, AttemptStates
<1>6. CASE ProviderStep \/ MissionMoves
  BY <1>6 DEF ProviderStep, ProviderDecides, MissionMoves, durable
<1> QED
  BY <1>1, <1>2, <1>3, <1>4, <1>5, <1>6 DEF Next, PrepareAttempt, ReconcilerWrites

\* A call keeps its plan until it is over.
LEMMA CallKeepsPlan ==
  ASSUME TypeOK, Next, NEW d \in Dispatchers, pc[d] # "idle", pc'[d] # "idle"
  PROVE  /\ call'[d].effect = call[d].effect
         /\ call'[d].content = call[d].content
<1> USE DEF TypeOK
<1>1. CASE UNCHANGED call
  BY <1>1
<1>2. ASSUME NEW x \in Dispatchers, DispatcherStep(x), x # d
      PROVE  call'[d] = call[d]
  BY <1>2
  DEF DispatcherStep, Begin, CreateAttempt, ClaimAttempt, CheckReference,
      RefuseToSend, RejectUnsent, Send, ReceiveAccepted, ReceiveRejected,
      LoseAnswer, PersistReference, Acknowledge, RejectFinal, RecordOutcome,
      MarkUnknown, StoreFails, Crash, Leave
<1>3. CASE DispatcherStep(d)
  <2>1. ~Leave(d)
    BY DEF Leave, Goto
  <2>2. call[d] \in Call
    OBVIOUS
  <2>3. \/ UNCHANGED call
        \/ \E n : call' = [call EXCEPT ![d].revision = n]
        \/ \E r : call' = [call EXCEPT ![d].reference = r]
    <3>1. CASE CreateAttempt(d)
      BY <3>1, <2>1 DEF CreateAttempt
    <3>2. CASE ClaimAttempt(d)
      BY <3>2, <2>1 DEF ClaimAttempt
    <3>3. ASSUME NEW r \in References, ReceiveAccepted(d, r)
          PROVE  call' = [call EXCEPT ![d].reference = r]
      BY <3>3 DEF ReceiveAccepted
    <3> QED
      BY <1>3, <2>1, <3>1, <3>2, <3>3
      DEF DispatcherStep, Begin, CheckReference, RefuseToSend, RejectUnsent, Send,
          ReceiveRejected, LoseAnswer, PersistReference, Acknowledge, RejectFinal,
          RecordOutcome, MarkUnknown, StoreFails, Crash
  <2> QED
    BY <2>2, <2>3 DEF Call
<1> QED
  BY <1>1, <1>2, <1>3
  DEF Next, ProviderStep, ProviderDecides, PrepareAttempt, ReconcilerWrites,
      MissionMoves, volatile

\* What ended stays as it ended: nobody's write goes over a final attempt, not
\* even to raise its revision.
LEMMA FinalStays ==
  ASSUME TypeOK, [Next]_vars, NEW e \in Effects,
         attempts[e].state \in {"VERIFIED", "FAILED_FINAL", "BLOCKED"}
  PROVE  attempts'[e] = attempts[e]
<1>1. ASSUME NEW x, NEW target, NEW revision, MayTransition(x, revision, target),
             WriteAttempt(x, target)
      PROVE  attempts'[e] = attempts[e]
  <2>1. x # e
    BY <1>1, AttemptTable DEF MayTransition, AttemptStates
  <2> QED
    BY <1>1, <2>1 DEF WriteAttempt, TypeOK
<1>2. ASSUME NEW d \in Dispatchers, DispatcherStep(d)
      PROVE  attempts'[e] = attempts[e]
  <2>1. CASE CreateAttempt(d)
    <3>1. \/ UNCHANGED attempts
          \/ /\ attempts[call[d].effect].state = "ABSENT"
             /\ attempts' = [attempts EXCEPT ![call[d].effect] = NewAttempt(call[d].content)]
      BY <2>1 DEF CreateAttempt
    <3> QED
      BY <3>1 DEF TypeOK
  <2>2. CASE ClaimAttempt(d)
    BY <1>1, <2>2 DEF ClaimAttempt
  <2>3. ASSUME NEW label, NEW target, RecordOutcome(d, label, target)
        PROVE  attempts'[e] = attempts[e]
    BY <1>1, <2>3 DEF RecordOutcome
  <2>4. CASE MarkUnknown(d)
    BY <1>1, <2>4 DEF MarkUnknown
  <2> QED
    BY <1>2, <2>1, <2>2, <2>3, <2>4
    DEF DispatcherStep, Begin, CheckReference, RefuseToSend, RejectUnsent, Send,
        ReceiveAccepted, ReceiveRejected, LoseAnswer, PersistReference, Acknowledge,
        RejectFinal, StoreFails, Crash, durable
<1>3. ASSUME NEW x \in Effects, NEW c \in Contents, PrepareAttempt(x, c)
      PROVE  attempts'[e] = attempts[e]
  BY <1>3 DEF PrepareAttempt, TypeOK
<1>4. ASSUME NEW x \in Effects, NEW target \in ReconcilerTargets, ReconcilerWrites(x, target)
      PROVE  attempts'[e] = attempts[e]
  <2>1. x # e
    BY <1>4, AttemptTable DEF ReconcilerWrites, AttemptStates
  <2> QED
    BY <1>4, <2>1 DEF ReconcilerWrites, WriteAttempt, TypeOK
<1> QED
  BY <1>2, <1>3, <1>4
  DEF Next, ProviderStep, ProviderDecides, MissionMoves, durable, vars

\* A stored reference stays.
LEMMA ReferenceStays ==
  ASSUME TypeOK, [Next]_vars, NEW e \in Effects, references[e] # None
  PROVE  references'[e] = references[e]
<1>1. ASSUME NEW d \in Dispatchers, PersistReference(d)
      PROVE  references'[e] = references[e]
  BY <1>1 DEF PersistReference, TypeOK
<1>2. UNCHANGED references \/ \E d \in Dispatchers : PersistReference(d)
  BY DEF Next, vars, DispatcherStep, Begin, CreateAttempt, ClaimAttempt, CheckReference,
     RefuseToSend, RejectUnsent, Send, ReceiveAccepted, ReceiveRejected, LoseAnswer,
     Acknowledge, RejectFinal, RecordOutcome, MarkUnknown, StoreFails, Crash, ProviderStep,
     ProviderDecides, PrepareAttempt, ReconcilerWrites, MissionMoves, durable
<1> QED
  BY <1>1, <1>2

\* A dispatcher's step leaves the other calls alone, and prepares no attempt but
\* the one of its own call.
LEMMA OthersStand ==
  ASSUME TypeOK, NEW d \in Dispatchers, DispatcherStep(d)
  PROVE  /\ \A x \in Dispatchers \ {d} : pc'[x] = pc[x] /\ call'[x] = call[x]
         /\ \A e \in Effects : attempts[e].state = "ABSENT" /\ attempts'[e].state # "ABSENT"
              => pc[d] # "idle" /\ e = call[d].effect
<1>1. \A x \in Dispatchers \ {d} : pc'[x] = pc[x] /\ call'[x] = call[x]
  BY DEF TypeOK, DispatcherStep, Begin, CreateAttempt, ClaimAttempt, CheckReference,
     RefuseToSend, RejectUnsent, Send, ReceiveAccepted, ReceiveRejected,
     LoseAnswer, PersistReference, Acknowledge, RejectFinal, RecordOutcome,
     MarkUnknown, StoreFails, Crash, Leave, Goto
<1>2. \/ UNCHANGED attempts
      \/ /\ pc[d] # "idle"
         /\ \E new : attempts' = [attempts EXCEPT ![call[d].effect] = new]
  BY DEF DispatcherStep, Begin, CreateAttempt, ClaimAttempt, CheckReference,
     RefuseToSend, RejectUnsent, Send, ReceiveAccepted, ReceiveRejected,
     LoseAnswer, PersistReference, Acknowledge, RejectFinal, RecordOutcome,
     MarkUnknown, StoreFails, Crash, WriteAttempt, durable
<1> QED
  BY <1>1, <1>2 DEF TypeOK

\* Dispatch blocks no attempt: only a reconciler does.
LEMMA DispatchNeverBlocks ==
  ASSUME TypeOK, NEW d \in Dispatchers, DispatcherStep(d), NEW e \in Effects,
         attempts'[e].state = "BLOCKED"
  PROVE  attempts[e].state = "BLOCKED"
<1>1. ASSUME NEW x, NEW target, target # "BLOCKED", WriteAttempt(x, target)
      PROVE  attempts[e].state = "BLOCKED"
  BY <1>1 DEF WriteAttempt, Moved, TypeOK
<1>2. ASSUME NEW x, NEW c, attempts' = [attempts EXCEPT ![x] = NewAttempt(c)]
      PROVE  attempts[e].state = "BLOCKED"
  BY <1>2 DEF NewAttempt, TypeOK
<1>3. \/ UNCHANGED attempts
      \/ \E x, c : attempts' = [attempts EXCEPT ![x] = NewAttempt(c)]
      \/ \E x, target : target # "BLOCKED" /\ WriteAttempt(x, target)
  <2>1. CASE CreateAttempt(d)
    BY <2>1 DEF CreateAttempt
  <2>2. CASE ClaimAttempt(d)
    BY <2>2 DEF ClaimAttempt
  <2>3. CASE Acknowledge(d) \/ RejectFinal(d)
    BY <2>3 DEF Acknowledge, RejectFinal, RecordOutcome
  <2>4. CASE MarkUnknown(d)
    BY <2>4 DEF MarkUnknown
  <2> QED
    BY <2>1, <2>2, <2>3, <2>4
    DEF DispatcherStep, Begin, CheckReference, RefuseToSend, RejectUnsent, Send,
        ReceiveAccepted, ReceiveRejected, LoseAnswer, PersistReference, StoreFails, Crash,
        durable
<1> QED
  BY <1>1, <1>2, <1>3

\* What was ever claimed is never again absent or only prepared.
Claimed(e) == attempts[e].state \notin {"ABSENT", "PREPARED"}

LEMMA ClaimedStays ==
  ASSUME TypeOK, [Next]_vars, NEW e \in Effects, Claimed(e)
  PROVE  Claimed(e)'
<1>1. ASSUME NEW x, NEW target \in AttemptStates \ {"PREPARED"}, WriteAttempt(x, target)
      PROVE  Claimed(e)'
  BY <1>1 DEF Claimed, WriteAttempt, Moved, AttemptStates, TypeOK
<1>2. ASSUME NEW x \in Effects, NEW c, attempts[x].state = "ABSENT",
             attempts' = [attempts EXCEPT ![x] = NewAttempt(c)]
      PROVE  Claimed(e)'
  BY <1>2 DEF Claimed, TypeOK
<1>3. ASSUME NEW d \in Dispatchers, DispatcherStep(d)
      PROVE  Claimed(e)'
  <2>1. CASE CreateAttempt(d)
    <3>1. \/ UNCHANGED attempts
          \/ /\ attempts[call[d].effect].state = "ABSENT"
             /\ attempts' = [attempts EXCEPT ![call[d].effect] = NewAttempt(call[d].content)]
      BY <2>1 DEF CreateAttempt
    <3>2. CreateAttempt(d) => call[d].effect \in Effects
      BY DEF CreateAttempt, TypeOK
    <3> QED
      BY <1>2, <2>1, <3>1, <3>2 DEF Claimed
  <2>2. CASE ClaimAttempt(d)
    BY <1>1, <2>2 DEF ClaimAttempt, AttemptStates, Claimed
  <2>3. CASE Acknowledge(d) \/ RejectFinal(d)
    BY <1>1, <2>3 DEF Acknowledge, RejectFinal, RecordOutcome, AttemptStates, Claimed
  <2>4. CASE MarkUnknown(d)
    BY <1>1, <2>4 DEF MarkUnknown, AttemptStates, Claimed
  <2> QED
    BY <1>3, <2>1, <2>2, <2>3, <2>4
    DEF DispatcherStep, Begin, CheckReference, RefuseToSend, RejectUnsent, Send,
        ReceiveAccepted, ReceiveRejected, LoseAnswer, PersistReference, StoreFails, Crash,
        durable, Claimed
<1>4. ASSUME NEW x \in Effects, NEW c \in Contents, PrepareAttempt(x, c)
      PROVE  Claimed(e)'
  BY <1>2, <1>4 DEF PrepareAttempt
<1>5. ASSUME NEW x \in Effects, NEW target \in ReconcilerTargets, ReconcilerWrites(x, target)
      PROVE  Claimed(e)'
  BY <1>1, <1>5 DEF ReconcilerWrites, ReconcilerTargets, AttemptStates
<1> QED
  BY <1>3, <1>4, <1>5
  DEF Next, ProviderStep, ProviderDecides, MissionMoves, durable, vars, Claimed

\* A reference is stored for a claimed attempt only.
LEMMA StoredIsClaimed ==
  ASSUME DispatchInv, [Next]_vars, NEW e \in Effects,
         references[e] # None => Claimed(e), references'[e] # None
  PROVE  Claimed(e)'
<1>1. CASE references[e] # None
  BY <1>1, ClaimedStays DEF DispatchInv
<1>2. ASSUME NEW d \in Dispatchers, PersistReference(d), references[e] = None
      PROVE  Claimed(e)'
  <2>1. e = call[d].effect /\ pc[d] = "persist" /\ UNCHANGED attempts
    BY <1>2 DEF PersistReference, DispatchInv, TypeOK
  <2> QED
    BY <2>1 DEF DispatchInv, SafetyInv, CallInv, Knows, Owning, Claimed
<1>3. UNCHANGED references \/ \E d \in Dispatchers : PersistReference(d)
  BY DEF Next, vars, DispatcherStep, Begin, CreateAttempt, ClaimAttempt, CheckReference,
     RefuseToSend, RejectUnsent, Send, ReceiveAccepted, ReceiveRejected, LoseAnswer,
     Acknowledge, RejectFinal, RecordOutcome, MarkUnknown, StoreFails, Crash, ProviderStep,
     ProviderDecides, PrepareAttempt, ReconcilerWrites, MissionMoves, durable
<1> QED
  BY <1>1, <1>2, <1>3

\* A dispatcher begins a call, ends it or goes on with it; it comes to own the
\* claim only of an attempt that was not claimed, and acknowledges only its own.
LEMMA DispatcherMovesOn ==
  ASSUME DispatchInv, NEW d \in Dispatchers, DispatcherStep(d)
  PROVE  /\ \/ call'[d].effect = call[d].effect
            \/ call'[d] = NoCall /\ pc'[d] = "idle"
            \/ \E c \in Contents : Begin(d, call'[d].effect, c)
         /\ pc'[d] \in Owning /\ pc[d] \notin Owning =>
              /\ pc[d] # "idle" /\ call'[d].effect = call[d].effect
              /\ ~Claimed(call[d].effect)
         /\ \A e \in Effects :
              /\ attempts[e].state # "PROVIDER_ACKNOWLEDGED"
              /\ attempts'[e].state = "PROVIDER_ACKNOWLEDGED"
              => pc[d] \in Owning /\ e = call[d].effect
<1> USE DEF DispatchInv, TypeOK
<1>1. ASSUME NEW e \in Effects, NEW c \in Contents, Begin(d, e, c)
      PROVE  call'[d].effect = e /\ pc'[d] = "create" /\ UNCHANGED attempts
  BY <1>1 DEF Begin, Goto, NoCall, durable
<1>2. CASE \E e \in Effects, c \in Contents : Begin(d, e, c)
  BY <1>1, <1>2 DEF Owning
<1>3. CASE Crash(d) \/ StoreFails(d)
  BY <1>3 DEF Crash, StoreFails, Leave, Goto, durable, Owning
<1>4. CASE CreateAttempt(d)
  <2>1. \/ call'[d].effect = call[d].effect
        \/ call'[d] = NoCall /\ pc'[d] = "idle"
    BY <1>4 DEF CreateAttempt, Leave, Goto, Call
  <2>2. pc'[d] \notin Owning
    BY <1>4 DEF CreateAttempt, Leave, Goto, Owning
  <2>3. UNCHANGED attempts
          \/ attempts' = [attempts EXCEPT ![call[d].effect] = NewAttempt(call[d].content)]
    BY <1>4 DEF CreateAttempt
  <2> QED
    BY <2>1, <2>2, <2>3 DEF NewAttempt
<1>5. CASE ClaimAttempt(d)
  <2>1. CASE MayTransition(call[d].effect, call[d].revision, "IN_FLIGHT")
    <3>1. /\ pc[d] = "claim" /\ WriteAttempt(call[d].effect, "IN_FLIGHT")
          /\ call'[d].effect = call[d].effect
      BY <1>5, <2>1 DEF ClaimAttempt, Call
    <3>2. ~Claimed(call[d].effect)
      BY <2>1, AttemptTable DEF MayTransition, Claimed
    <3>3. \A e \in Effects : attempts'[e].state = "PROVIDER_ACKNOWLEDGED" =>
                             attempts[e].state = "PROVIDER_ACKNOWLEDGED"
      BY <3>1 DEF WriteAttempt, Moved
    <3> QED
      BY <3>1, <3>2, <3>3 DEF Owning
  <2>2. CASE ~MayTransition(call[d].effect, call[d].revision, "IN_FLIGHT")
    BY <1>5, <2>2 DEF ClaimAttempt, Leave, Goto, Owning
  <2> QED
    BY <2>1, <2>2
<1>6. CASE Acknowledge(d)
  BY <1>6 DEF Acknowledge, RecordOutcome, Leave, Goto, Owning, WriteAttempt
<1>7. CASE RejectFinal(d) \/ MarkUnknown(d)
  BY <1>7 DEF RejectFinal, RecordOutcome, MarkUnknown, Leave, Goto, Owning, WriteAttempt, Moved
<1>8. CASE \/ CheckReference(d) \/ RefuseToSend(d) \/ RejectUnsent(d) \/ Send(d)
           \/ (\E r \in References : ReceiveAccepted(d, r)) \/ ReceiveRejected(d)
           \/ LoseAnswer(d) \/ PersistReference(d)
  <2>1. pc[d] \in Owning /\ UNCHANGED attempts
    BY <1>8 DEF CheckReference, RefuseToSend, RejectUnsent, Send, ReceiveAccepted,
       ReceiveRejected, LoseAnswer, PersistReference, durable, Owning
  <2>2. call'[d].effect = call[d].effect
    BY <1>8 DEF CheckReference, RefuseToSend, RejectUnsent, Send, ReceiveAccepted,
       ReceiveRejected, LoseAnswer, PersistReference, Call
  <2> QED
    BY <2>1, <2>2
<1> QED
  BY <1>2, <1>3, <1>4, <1>5, <1>6, <1>7, <1>8 DEF DispatcherStep
-----------------------------------------------------------------------------
(***************************************************************************)
(* ExecutionDispatch implements SinglePayment: every step of a dispatcher, *)
(* of the provider or of the environment is one step of SinglePayment or   *)
(* changes nothing it can see.                                             *)
(***************************************************************************)
\* Where a dispatcher has the claim and has not used it.
Permitting == {"port", "send"}

\* The phase of an attempt after a move of the journal.
LEMMA PhaseMoves ==
  /\ PhaseOf["ABSENT"] = "open"
  /\ PhaseOf["PREPARED"] = "open"
  /\ PhaseOf["IN_FLIGHT"] = "claimed"
  /\ PhaseOf["PROVIDER_ACKNOWLEDGED"] = "acknowledged"
  /\ PhaseOf["EXECUTION_UNKNOWN"] = "unknown"
  /\ PhaseOf["FAILED_FINAL"] = "rejected"
  /\ PhaseOf["VERIFIED"] = "settled"
  /\ PhaseOf["BLOCKED"] = "settled"
BY DEF PhaseOf, AttemptStates

LEMMA RefinementInit == Init => Payment!Init
<1> SUFFICES ASSUME Init PROVE Payment!Init
  OBVIOUS
<1>1. Journal = [e \in Effects |-> "open"]
  BY PhaseMoves DEF Init, Journal, Absent
<1>2. Permits = {}
  BY DEF Init, Permits
<1> QED
  BY <1>1, <1>2 DEF Init, Payment!Init

\* What a write of the journal is to SinglePayment.
LEMMA JournalWrite ==
  ASSUME TypeOK, NEW e \in Effects, NEW target, WriteAttempt(e, target)
  PROVE  Journal' = [Journal EXCEPT ![e] = PhaseOf[target]]
BY DEF TypeOK, WriteAttempt, Moved, Journal

LEMMA JournalSame == UNCHANGED attempts => UNCHANGED Journal
BY DEF Journal

\* The permits when one dispatcher moves.
LEMMA PermitsSame ==
  ASSUME TypeOK, NEW d \in Dispatchers, NEW label, NEW k,
         pc' = [pc EXCEPT ![d] = label], call' = [call EXCEPT ![d] = k],
         label \in Permitting <=> pc[d] \in Permitting,
         label \in Permitting => k.effect = call[d].effect
  PROVE  UNCHANGED Permits
<1>1. /\ pc'[d] = label /\ call'[d] = k
      /\ \A x \in Dispatchers \ {d} : pc'[x] = pc[x] /\ call'[x] = call[x]
  BY DEF TypeOK
<1>2. ASSUME NEW x \in Dispatchers
      PROVE  /\ pc'[x] \in Permitting <=> pc[x] \in Permitting
             /\ pc[x] \in Permitting => call'[x].effect = call[x].effect
  BY <1>1
<1> QED
  BY <1>2 DEF Permits, Permitting

LEMMA PermitDropped ==
  ASSUME DispatchInv, NEW d \in Dispatchers, NEW label, NEW k,
         pc' = [pc EXCEPT ![d] = label], call' = [call EXCEPT ![d] = k],
         pc[d] \in Permitting, label \notin Permitting
  PROVE  /\ call[d].effect \in Permits
         /\ Permits' = Permits \ {call[d].effect}
<1> DEFINE e == call[d].effect
<1>1. /\ pc'[d] = label
      /\ \A x \in Dispatchers \ {d} : pc'[x] = pc[x] /\ call'[x] = call[x]
  BY DEF DispatchInv, TypeOK
<1>2. \A x \in Dispatchers \ {d} : pc[x] \in Permitting => call[x].effect # e
  BY DEF DispatchInv, SafetyInv, OneOwner, Owning, Permitting
<1>3. e \in Permits
  BY DEF Permits, Permitting
<1>4. \A f : f \in Permits' <=> f \in Permits /\ f # e
  <2>1. ASSUME NEW f
        PROVE  f \in Permits' <=> \E x \in Dispatchers \ {d} :
                                    pc[x] \in Permitting /\ call[x].effect = f
    BY <1>1 DEF Permits, Permitting
  <2>2. ASSUME NEW f
        PROVE  f \in Permits <=> \/ f = e
                                 \/ \E x \in Dispatchers \ {d} :
                                      pc[x] \in Permitting /\ call[x].effect = f
    BY DEF Permits, Permitting
  <2> QED
    BY <1>2, <2>1, <2>2
<1> QED
  BY <1>3, <1>4

LEMMA PermitIssued ==
  ASSUME TypeOK, NEW d \in Dispatchers, NEW k,
         pc' = [pc EXCEPT ![d] = "port"], call' = [call EXCEPT ![d] = k],
         pc[d] \notin Permitting, k.effect = call[d].effect
  PROVE  Permits' = Permits \cup {call[d].effect}
<1>1. /\ pc'[d] = "port" /\ call'[d] = k
      /\ \A x \in Dispatchers \ {d} : pc'[x] = pc[x] /\ call'[x] = call[x]
  BY DEF TypeOK
<1>2. ASSUME NEW f
      PROVE  f \in Permits' <=> f \in Permits \/ f = call[d].effect
  BY <1>1 DEF Permits, Permitting
<1> QED
  BY <1>2
-----------------------------------------------------------------------------
Stutters == UNCHANGED <<Journal, Permits, posts>>

\* A dispatcher that has no permit, or keeps it, moves on quietly.
LEMMA QuietStep ==
  ASSUME TypeOK, NEW d \in Dispatchers, NEW label, NEW k,
         UNCHANGED <<attempts, posts>>,
         pc' = [pc EXCEPT ![d] = label], call' = [call EXCEPT ![d] = k],
         label \in Permitting <=> pc[d] \in Permitting,
         label \in Permitting => k.effect = call[d].effect
  PROVE  Stutters
BY JournalSame, PermitsSame DEF Stutters

\* A dispatcher gives up its permit without sending.
LEMMA DropStep ==
  ASSUME DispatchInv, NEW d \in Dispatchers, NEW label, NEW k,
         UNCHANGED <<attempts, posts>>,
         pc' = [pc EXCEPT ![d] = label], call' = [call EXCEPT ![d] = k],
         pc[d] \in Permitting, label \notin Permitting
  PROVE  Payment!Next
<1>1. call[d].effect \in Effects
  BY DEF DispatchInv, TypeOK, Permitting
<1>2. Payment!Drop(call[d].effect)
  BY JournalSame, PermitDropped DEF Payment!Drop
<1> QED
  BY <1>1, <1>2 DEF Payment!Next

\* A journal write other than the claim, by a process that has no permit.
LEMMA LearnStep ==
  ASSUME DispatchInv, NEW e \in Effects, NEW target,
         attempts[e].state \in AttemptStates,
         target \in AttemptSuccessors[attempts[e].state],
         target # "IN_FLIGHT",
         WriteAttempt(e, target), UNCHANGED posts, UNCHANGED Permits,
         target = "PROVIDER_ACKNOWLEDGED" => posts[e] > 0,
         target = "FAILED_FINAL" =>
           attempts[e].state = "IN_FLIGHT" /\ e \notin Permits
  PROVE  Payment!Next
<1>1. Journal' = [Journal EXCEPT ![e] = PhaseOf[target]]
  BY JournalWrite DEF DispatchInv
<1>2. Journal[e] = PhaseOf[attempts[e].state]
  BY DEF Journal
<1>3. Payment!Learn(e, PhaseOf[target])
  BY <1>1, <1>2, AttemptTable, PhaseMoves
     DEF Payment!Learn, Payment!Final, AttemptStates
<1>4. PhaseOf[target] \in Payment!Phases
  BY AttemptTable, PhaseMoves DEF Payment!Phases, AttemptStates
<1> QED
  BY <1>3, <1>4 DEF Payment!Next

LEMMA RefinementDispatcherStep ==
  ASSUME DispatchInv, NEW d \in Dispatchers, DispatcherStep(d)
  PROVE  Payment!Next \/ Stutters
<1> DEFINE e == call[d].effect
<1> USE DEF Goto
<1>t. TypeOK /\ SafetyInv
  BY DEF DispatchInv
<1>c. pc[d] # "idle" => e \in Effects
  BY <1>t DEF TypeOK
<1>k. Knows(pc[d], call[d])
  BY <1>t DEF SafetyInv, CallInv
<1>s. UNCHANGED call => call' = [call EXCEPT ![d] = call[d]]
  BY <1>t DEF TypeOK
<1>1. ASSUME NEW f \in Effects, NEW c \in Contents, Begin(d, f, c)
      PROVE  Stutters
  BY <1>1, <1>t, QuietStep DEF Begin, Permitting, durable, wire
<1>2. CASE CreateAttempt(d)
  <2>1. UNCHANGED Journal
    <3>1. CASE /\ attempts[e].state = "ABSENT"
               /\ attempts' = [attempts EXCEPT ![e] = NewAttempt(call[d].content)]
      BY <3>1, <1>t, PhaseMoves DEF Journal, TypeOK, NewAttempt
    <3>2. CASE UNCHANGED attempts
      BY <3>2, JournalSame
    <3> QED
      BY <1>2, <3>1, <3>2 DEF CreateAttempt
  <2>2. PICK label, k : /\ pc' = [pc EXCEPT ![d] = label]
                        /\ call' = [call EXCEPT ![d] = k]
                        /\ label \notin Permitting
    BY <1>2 DEF CreateAttempt, Leave, Permitting
  <2>3. UNCHANGED Permits
    BY <1>2, <1>t, <2>2, PermitsSame DEF CreateAttempt, Permitting
  <2> QED
    BY <1>2, <2>1, <2>3 DEF CreateAttempt, Stutters, wire
<1>3. CASE ClaimAttempt(d)
  <2>1. CASE MayTransition(e, call[d].revision, "IN_FLIGHT")
    <3> DEFINE k == [call[d] EXCEPT !.revision = call[d].revision + 1]
    <3>1. attempts[e].state = "PREPARED" /\ e \in Effects
      BY <1>3, <1>c, <2>1, AttemptTable DEF ClaimAttempt, MayTransition
    <3>2. Journal' = [Journal EXCEPT ![e] = "claimed"] /\ Journal[e] = "open"
      BY <1>3, <1>t, <2>1, <3>1, JournalWrite, PhaseMoves DEF ClaimAttempt, Journal
    <3>3. k.effect = e
      BY <1>t DEF TypeOK, Call
    <3>4. pc' = [pc EXCEPT ![d] = "port"] /\ call' = [call EXCEPT ![d] = k]
      BY <1>3, <2>1 DEF ClaimAttempt
    <3> HIDE DEF k
    <3>5. Permits' = Permits \cup {e}
      BY <1>3, <1>t, <3>3, <3>4, PermitIssued DEF ClaimAttempt, Permitting
    <3>6. Payment!Claim(e)
      BY <1>3, <3>2, <3>5 DEF ClaimAttempt, Payment!Claim, wire
    <3> QED
      BY <3>1, <3>6 DEF Payment!Next
  <2>2. CASE ~MayTransition(e, call[d].revision, "IN_FLIGHT")
    BY <1>3, <1>t, <2>2, QuietStep DEF ClaimAttempt, Leave, Permitting, wire
  <2> QED
    BY <2>1, <2>2
<1>4. CASE CheckReference(d)
  BY <1>4, <1>t, <1>s, QuietStep, DropStep
     DEF CheckReference, Permitting, durable, wire
<1>5. CASE RefuseToSend(d)
  <2>1. /\ pc[d] = "send"
        /\ pc' = [pc EXCEPT ![d] = "unknown"]
        /\ call' = [call EXCEPT ![d] = call[d]]
        /\ UNCHANGED <<attempts, posts>>
    BY <1>5, <1>s DEF RefuseToSend, durable, wire
  <2> QED
    <3>1. pc[d] \in Permitting /\ "unknown" \notin Permitting
      BY <2>1 DEF Permitting
    <3> QED
      BY <2>1, <3>1, DropStep
<1>6. CASE RejectUnsent(d)
  <2>1. /\ pc[d] = "send"
        /\ pc' = [pc EXCEPT ![d] = "reject"]
        /\ call' = [call EXCEPT ![d] = call[d]]
        /\ UNCHANGED <<attempts, posts>>
    BY <1>6, <1>s DEF RejectUnsent, durable, wire
  <2> QED
    <3>1. pc[d] \in Permitting /\ "reject" \notin Permitting
      BY <2>1 DEF Permitting
    <3> QED
      BY <2>1, <3>1, DropStep
<1>7. CASE Send(d)
  <2>1. e \in Permits /\ Permits' = Permits \ {e}
    <3>1. /\ pc[d] = "send"
          /\ pc' = [pc EXCEPT ![d] = "await"]
          /\ call' = [call EXCEPT ![d] = call[d]]
      BY <1>7, <1>s DEF Send
    <3> QED
      <4>1. pc[d] \in Permitting /\ "await" \notin Permitting
        BY <3>1 DEF Permitting
      <4> QED
        BY <3>1, <4>1, PermitDropped
  <2>2. Payment!Send(e)
    BY <1>7, <2>1, JournalSame DEF Send, Payment!Send, durable
  <2> QED
    BY <1>7, <1>c, <2>2 DEF Send, Payment!Next
<1>8. ASSUME NEW r \in References, ReceiveAccepted(d, r)
      PROVE  Stutters
  BY <1>8, <1>t, QuietStep DEF ReceiveAccepted, Permitting, durable, wire
<1>9. CASE ReceiveRejected(d)
  BY <1>9, <1>t, <1>s, QuietStep DEF ReceiveRejected, Permitting, durable, wire
<1>10. CASE LoseAnswer(d)
  BY <1>10, <1>t, <1>s, QuietStep DEF LoseAnswer, Permitting, durable, wire
<1>11. CASE PersistReference(d)
  BY <1>11, <1>t, <1>s, QuietStep DEF PersistReference, Permitting, wire
<1>12. CASE Acknowledge(d)
  <2>1. CASE MayTransition(e, call[d].revision, "PROVIDER_ACKNOWLEDGED")
    <3>1. UNCHANGED Permits
      BY <1>12, <1>t, <2>1, PermitsSame DEF Acknowledge, RecordOutcome, Leave, Permitting
    <3> QED
      BY <1>12, <1>k, <1>c, <2>1, <3>1, LearnStep
         DEF Acknowledge, RecordOutcome, MayTransition, Knows, wire
  <2>2. CASE ~MayTransition(e, call[d].revision, "PROVIDER_ACKNOWLEDGED")
    BY <1>12, <1>t, <1>s, <2>2, QuietStep DEF Acknowledge, RecordOutcome, Permitting, wire
  <2> QED
    BY <2>1, <2>2
<1>13. CASE RejectFinal(d)
  <2>1. CASE MayTransition(e, call[d].revision, "FAILED_FINAL")
    <3>1. UNCHANGED Permits
      BY <1>13, <1>t, <2>1, PermitsSame DEF RejectFinal, RecordOutcome, Leave, Permitting
    <3>2. attempts[e].state = "IN_FLIGHT"
      BY <1>13, <1>k, <2>1 DEF RejectFinal, RecordOutcome, MayTransition, Knows, Owning
    <3>3. e \notin Permits
      BY <1>13, <1>t DEF RejectFinal, RecordOutcome, SafetyInv, OneOwner, Owning, Permits
    <3> QED
      BY <1>13, <1>c, <2>1, <3>1, <3>2, <3>3, LearnStep
         DEF RejectFinal, RecordOutcome, MayTransition, wire
  <2>2. CASE ~MayTransition(e, call[d].revision, "FAILED_FINAL")
    BY <1>13, <1>t, <1>s, <2>2, QuietStep DEF RejectFinal, RecordOutcome, Permitting, wire
  <2> QED
    BY <2>1, <2>2
<1>14. CASE MarkUnknown(d)
  <2>0. UNCHANGED Permits
    BY <1>14, <1>t, PermitsSame DEF MarkUnknown, Leave, Permitting
  <2>1. CASE MayTransition(e, call[d].revision, "EXECUTION_UNKNOWN")
    BY <1>14, <1>c, <2>0, <2>1, LearnStep DEF MarkUnknown, MayTransition, wire
  <2>2. CASE ~MayTransition(e, call[d].revision, "EXECUTION_UNKNOWN")
    BY <1>14, <2>0, <2>2, JournalSame DEF MarkUnknown, Stutters, wire
  <2> QED
    BY <2>1, <2>2
<1>15. CASE StoreFails(d)
  <2>1. PICK label, k : /\ pc' = [pc EXCEPT ![d] = label]
                        /\ call' = [call EXCEPT ![d] = k]
                        /\ label \notin Permitting
    BY <1>15, <1>s DEF StoreFails, Leave, Permitting
  <2> QED
    BY <1>15, <1>t, <2>1, QuietStep, DropStep DEF StoreFails, durable, wire
<1>16. CASE Crash(d)
  BY <1>16, <1>t, QuietStep, DropStep DEF Crash, Leave, Permitting, durable, wire
<1> QED
  BY <1>1, <1>2, <1>3, <1>4, <1>5, <1>6, <1>7, <1>8, <1>9, <1>10, <1>11,
     <1>12, <1>13, <1>14, <1>15, <1>16
     DEF DispatcherStep

LEMMA RefinementStep == DispatchInv /\ [Next]_vars => [Payment!Next]_(Payment!vars)
<1> SUFFICES ASSUME DispatchInv, [Next]_vars
             PROVE  Payment!Next \/ Stutters
  BY DEF Stutters, Payment!vars
<1>1. ASSUME NEW d \in Dispatchers, DispatcherStep(d)
      PROVE  Payment!Next \/ Stutters
  BY <1>1, RefinementDispatcherStep
<1>2. ASSUME NEW e \in Effects, NEW t \in ReconcilerTargets,
             ReconcilerWrites(e, t)
      PROVE  Payment!Next
  BY <1>2, LearnStep DEF ReconcilerWrites, ReconcilerTargets, wire, volatile, Permits
<1>3. ASSUME NEW e \in Effects, NEW c \in Contents, PrepareAttempt(e, c)
      PROVE  Stutters
  <2>1. UNCHANGED Journal
    BY <1>3, PhaseMoves
       DEF PrepareAttempt, Journal, NewAttempt, DispatchInv, TypeOK
  <2> QED
    BY <1>3, <2>1 DEF PrepareAttempt, Stutters, Permits, wire, volatile
<1>4. CASE UNCHANGED <<attempts, posts, pc, call>>
  BY <1>4 DEF Stutters, Journal, Permits
<1> QED
  BY <1>1, <1>2, <1>3, <1>4
     DEF Next, MissionMoves, ProviderStep, ProviderDecides, vars, durable, wire, volatile

\* Dispatchers over the durable stores do what SinglePayment promises.
THEOREM DispatchImplementsSinglePayment == Spec => ImplementsSinglePayment
BY DispatchSafety, RefinementInit, RefinementStep, PTL
   DEF Spec, ImplementsSinglePayment, Payment!Spec
=============================================================================
