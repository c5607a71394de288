--------------------------- MODULE SinglePayment ---------------------------
(***************************************************************************)
(* What the execution layer promises about each economic effect, with no   *)
(* processes, revisions or stores:                                         *)
(*                                                                         *)
(*   - a permit to send the payment is issued once, by closing the "open"  *)
(*     phase of the effect's journal;                                      *)
(*   - only a permit sends, and sending uses the permit up;                *)
(*   - an effect whose journal was closed without a permit is never sent;  *)
(*   - "rejected" and "settled" are final.                                 *)
(*                                                                         *)
(* "The agent can retry. The money cannot duplicate" is then the theorem   *)
(* that sends[e] never exceeds one.                                        *)
(***************************************************************************)
EXTENDS Naturals

CONSTANT Effects

VARIABLES
  journal,  \* what is durably known about the effect
  permits,  \* effects whose one permit to send is issued and still unused
  sends     \* payments sent for each effect

vars == <<journal, permits, sends>>

Phases == {"open", "claimed", "acknowledged", "unknown", "rejected", "settled"}
Final  == {"rejected", "settled"}

Init ==
  /\ journal = [e \in Effects |-> "open"]
  /\ permits = {}
  /\ sends   = [e \in Effects |-> 0]

\* The durable claim that precedes every payment.
Claim(e) ==
  /\ journal[e] = "open"
  /\ journal' = [journal EXCEPT ![e] = "claimed"]
  /\ permits' = permits \cup {e}
  /\ UNCHANGED sends

\* The holder of the permit sends the payment, whatever the journal has
\* become in the meantime: it cannot know.
Send(e) ==
  /\ e \in permits
  /\ permits' = permits \ {e}
  /\ sends'   = [sends EXCEPT ![e] = @ + 1]
  /\ UNCHANGED journal

\* A permit dies with its holder, or is dropped by it.
Drop(e) ==
  /\ e \in permits
  /\ permits' = permits \ {e}
  /\ UNCHANGED <<journal, sends>>

\* What becomes known.  A payment is acknowledged only after it was sent and
\* rejected only when nobody can send it any more; doubt never returns to open.
Learn(e, phase) ==
  /\ \/ /\ phase = "acknowledged"
        /\ journal[e] = "claimed"
        /\ sends[e] > 0
     \/ /\ phase = "unknown"
        /\ journal[e] \in {"claimed", "acknowledged"}
     \/ /\ phase = "rejected"
        /\ journal[e] = "claimed"
        /\ e \notin permits
     \/ /\ phase = "settled"
        /\ journal[e] \notin Final
  /\ journal' = [journal EXCEPT ![e] = phase]
  /\ UNCHANGED <<permits, sends>>

Next ==
  \E e \in Effects :
    \/ Claim(e)
    \/ Send(e)
    \/ Drop(e)
    \/ \E phase \in Phases : Learn(e, phase)

Spec == Init /\ [][Next]_vars
-----------------------------------------------------------------------------
TypeOK ==
  /\ journal \in [Effects -> Phases]
  /\ permits \subseteq Effects
  /\ sends \in [Effects -> Nat]

\* No effect is paid twice.  The point of the whole code base: README.md's
\* "the money cannot duplicate".
PaidAtMostOnce == \A e \in Effects : sends[e] <= 1

\* PaidAtMostOnce with what makes it inductive: an open journal has neither
\* a permit nor a payment, and a live permit was not used yet.
PermitInv ==
  /\ TypeOK
  /\ PaidAtMostOnce
  /\ \A e \in Effects : journal[e] = "open" => e \notin permits /\ sends[e] = 0
  /\ \A e \in permits : sends[e] = 0
=============================================================================
