------------------------ MODULE SurfaceBindingProofs ------------------------
(***************************************************************************)
(* BindingInv is inductive, and what follows from it, for any number of    *)
(* ports, effects, missions, surfaces and references.                      *)
(***************************************************************************)
EXTENDS SurfaceBinding, TLAPS

\* A port that is idle and one that holds an attempt are told apart by "at".
LEMMA GateCases ==
  ASSUME TypeOK, NEW p \in Ports
  PROVE  /\ gate[p].at = "idle" <=> gate[p] = Idle
         /\ gate[p].at # "idle" => gate[p] \in Busy
BY DEF TypeOK, Busy, Idle

\* Steps that leave the store alone: a port starts or leaves.
LEMMA GateMoves ==
  ASSUME BindingInv, UNCHANGED bindings, NEW p \in Ports,
         NEW g \in Busy \cup {Idle}, gate' = [gate EXCEPT ![p] = g],
         g.at # "bound", UNCHANGED calls
  PROVE  BindingInv'
<1>1. TypeOK'
  BY DEF BindingInv, TypeOK
<1>2. \A q \in Ports : gate'[q].at = "bound" => gate'[q] = gate[q]
  BY DEF BindingInv, TypeOK
<1>3. QED
  BY <1>1, <1>2 DEF BindingInv, PortsAgree, CallsAgree, ReferenceBindsOneEffect, Agrees

\* The transaction of bind: what was agreed on stays agreed on.
LEMMA BindKeeps ==
  ASSUME BindingInv, NEW p \in Ports, Bind(p)
  PROVE  BindingInv'
<1> DEFINE e == gate[p].effect
           b == gate[p].binding
<1>1. e \in Effects /\ b \in Binding /\ gate[p] \in Busy
  BY GateCases DEF BindingInv, Bind, Busy
<1>2. None \notin Binding
  BY BindingAssumption
<1>3. /\ bindings' \in [Effects -> Binding \cup {None}]
      /\ \A f \in Effects : bindings[f] # None => bindings'[f] = bindings[f]
      /\ bindings'[e] # None
      /\ SameAuthority(bindings'[e], b)
  BY <1>1, <1>2 DEF BindingInv, TypeOK, Bind, SameAuthority
<1>4. gate' = [gate EXCEPT ![p] = [at |-> "bound", effect |-> e, binding |-> b]]
  <2>1. [gate[p] EXCEPT !.at = "bound"] = [at |-> "bound", effect |-> e, binding |-> b]
    BY <1>1 DEF Busy
  <2>2. gate' = [gate EXCEPT ![p] = [gate[p] EXCEPT !.at = "bound"]]
    BY DEF Bind
  <2>3. QED
    BY <2>1, <2>2
<1>5. TypeOK'
  BY <1>1, <1>3, <1>4 DEF BindingInv, TypeOK, Bind, Busy
<1>6. ReferenceBindsOneEffect'
  <2>1. CASE bindings[e] = None
    <3>1. \A f \in Effects \ {e} : bindings'[f] = bindings[f]
      BY <1>1, <2>1 DEF BindingInv, TypeOK, Bind
    <3>2. bindings'[e].reference = b.reference /\ Unused(b.reference)
      BY <1>1, <2>1 DEF BindingInv, TypeOK, Bind
    <3>3. QED
      BY <3>1, <3>2 DEF BindingInv, ReferenceBindsOneEffect, Unused
  <2>2. CASE bindings[e] # None
    BY <2>2 DEF BindingInv, ReferenceBindsOneEffect, Bind
  <2>3. QED
    BY <2>1, <2>2
<1>7. PortsAgree'
  <2>1. SUFFICES ASSUME NEW q \in Ports, gate'[q].at = "bound"
                 PROVE  /\ bindings'[gate'[q].effect] # None
                        /\ bindings'[gate'[q].effect].mission = gate'[q].binding.mission
                        /\ bindings'[gate'[q].effect].surface = gate'[q].binding.surface
    BY DEF PortsAgree, Agrees
  <2>2. CASE q = p
    BY <1>1, <1>3, <1>4, <2>2 DEF BindingInv, TypeOK, SameAuthority
  <2>3. CASE q # p
    <3>1. gate'[q] = gate[q] /\ gate[q] \in Busy
      BY <1>4, <2>1, <2>3, GateCases DEF BindingInv, TypeOK, Idle
    <3>2. QED
      BY <1>3, <2>1, <3>1 DEF BindingInv, PortsAgree, Agrees, Busy
  <2>4. QED
    BY <2>2, <2>3
<1>8. CallsAgree'
  BY <1>3 DEF BindingInv, TypeOK, CallsAgree, Agrees, Bind, Call
<1>9. QED
  BY <1>5, <1>6, <1>7, <1>8 DEF BindingInv

\* The call agrees with the binding its port saw.
LEMMA CallKeeps ==
  ASSUME BindingInv, NEW p \in Ports, CallDelegate(p)
  PROVE  BindingInv'
<1> DEFINE c == [effect |-> gate[p].effect, mission |-> gate[p].binding.mission,
                 surface |-> gate[p].binding.surface]
<1>1. gate[p] \in Busy
  BY GateCases DEF BindingInv, CallDelegate
<1>2. c \in Call /\ calls' = calls \cup {c} /\ Agrees(c.effect, c.mission, c.surface)
  BY <1>1 DEF BindingInv, PortsAgree, CallDelegate, Busy, Binding, Call
<1>3. /\ gate' = [gate EXCEPT ![p] = Idle]
      /\ UNCHANGED bindings
  BY DEF CallDelegate, Leave
<1>4. TypeOK'
  BY <1>2, <1>3 DEF BindingInv, TypeOK
<1>5. \A q \in Ports : gate'[q].at = "bound" => gate'[q] = gate[q]
  BY <1>3 DEF BindingInv, TypeOK, Idle
<1>6. QED
  BY <1>2, <1>3, <1>4, <1>5 DEF BindingInv, PortsAgree, CallsAgree, ReferenceBindsOneEffect, Agrees

LEMMA BindingStep == BindingInv /\ [Next]_vars => BindingInv'
<1> SUFFICES ASSUME BindingInv, [Next]_vars
             PROVE  BindingInv'
  OBVIOUS
<1>1. ASSUME NEW p \in Ports, NEW e \in Effects, NEW b \in Binding, Start(p, e, b)
      PROVE  BindingInv'
  <2> DEFINE g == [at |-> "bind", effect |-> e, binding |-> b]
  <2>1. g \in Busy /\ g.at # "bound"
    BY DEF Busy
  <2>2. gate' = [gate EXCEPT ![p] = g] /\ UNCHANGED <<bindings, calls>>
    BY <1>1 DEF Start
  <2> HIDE DEF g
  <2>3. QED
    BY <2>1, <2>2, GateMoves
<1>2. ASSUME NEW p \in Ports, Conflict(p) \/ Fail(p)
      PROVE  BindingInv'
  BY <1>2, GateMoves DEF Conflict, Fail, Leave, Idle
<1>3. CASE UNCHANGED vars
  BY <1>3 DEF vars, BindingInv, TypeOK, PortsAgree, CallsAgree, ReferenceBindsOneEffect, Agrees
<1>4. QED
  BY <1>1, <1>2, <1>3, BindKeeps, CallKeeps DEF Next, PortStep

\* The inductive invariant of the gate and its store.
THEOREM BindingSafety == Spec => []BindingInv
<1>1. Init => BindingInv
  BY DEF Init, BindingInv, TypeOK, PortsAgree, CallsAgree, ReferenceBindsOneEffect, Idle
<1>2. QED
  BY <1>1, BindingStep, PTL DEF Spec

\* No effect is ever given to two surfaces or two missions.
THEOREM OneSurface == Spec => []OneSurfacePerEffect
<1>1. BindingInv => OneSurfacePerEffect
  BY DEF BindingInv, TypeOK, CallsAgree, OneSurfacePerEffect, Agrees, Call
<1>2. QED
  BY <1>1, BindingSafety, PTL

\* No binding reference stands for two effects.
THEOREM ReferencesBindOnce == Spec => []ReferenceBindsOneEffect
<1>1. BindingInv => ReferenceBindsOneEffect
  BY DEF BindingInv
<1>2. QED
  BY <1>1, BindingSafety, PTL

\* No step of any port changes a binding that is there.
THEOREM BindingsLast == Spec => BindingIsForGood
<1>1. BindingInv /\ [Next]_vars =>
        [\A e \in Effects : bindings[e] # None => bindings'[e] = bindings[e]]_vars
  <2> SUFFICES ASSUME BindingInv, Next
               PROVE  \A e \in Effects : bindings[e] # None => bindings'[e] = bindings[e]
    OBVIOUS
  <2>1. PICK p \in Ports : PortStep(p)
    BY DEF Next
  <2>2. CASE Bind(p)
    BY <2>2 DEF BindingInv, TypeOK, Bind
  <2>3. CASE UNCHANGED bindings
    BY <2>3
  <2>4. QED
    BY <2>1, <2>2, <2>3 DEF PortStep, Start, Conflict, CallDelegate, Fail
<1>2. QED
  BY <1>1, BindingSafety, PTL DEF Spec, BindingIsForGood

\* The state of the gate has the shape TypeOK gives it.
THEOREM BindingTypeCorrect == Spec => []TypeOK
  BY BindingSafety, PTL DEF BindingInv
=============================================================================
