--------------------------- MODULE SurfaceBinding ---------------------------
(***************************************************************************)
(* The execution surface gate (application/execution_surface_gate.py) over *)
(* the binding store (persistence/sqlite_execution_surface_binding_store.  *)
(* py): an effect is durably bound to one provider surface before anything *)
(* of that surface is called.                                              *)
(*                                                                         *)
(* The gate trusts nobody but its store, and neither does this module: any *)
(* number of ports, of any surface, may be given an IN_FLIGHT attempt of   *)
(* any effect at the same time, again, and after a restart.  That the      *)
(* journal hands out one such attempt is ExecutionDispatch's promise; a    *)
(* gate that refuses is its RefuseToSend.                                  *)
(***************************************************************************)
EXTENDS Naturals

CONSTANTS
  Ports,       \* calls of SurfaceBoundExecutionPort.execute that may overlap
  Effects,     \* canonical effect ids
  Missions,    \* mission keys an attempt may name
  Surfaces,    \* DIRECT_EXECUTION, WORKFLOW, MCP
  References,  \* binding references
  None         \* the absent value

Binding == [mission : Missions, surface : Surfaces, reference : References]

ASSUME BindingAssumption == None \notin Binding

VARIABLES
  bindings,  \* the binding store
  calls,     \* calls of delegates ever made
  gate       \* what each port is doing

vars == <<bindings, calls, gate>>

Idle == [at |-> "idle"]

Init ==
  /\ bindings = [e \in Effects |-> None]
  /\ calls = {}
  /\ gate = [p \in Ports |-> Idle]
-----------------------------------------------------------------------------
\* execute(attempt) of a port made for a surface and a reference; an attempt
\* that is not IN_FLIGHT is turned away at once.
Start(p, e, b) ==
  /\ gate[p] = Idle
  /\ gate' = [gate EXCEPT ![p] = [at |-> "bind", effect |-> e, binding |-> b]]
  /\ UNCHANGED <<bindings, calls>>

Leave(p) == gate' = [gate EXCEPT ![p] = Idle]

Unused(r) == \A e \in Effects : bindings[e] # None => bindings[e].reference # r

SameAuthority(b, c) == b.mission = c.mission /\ b.surface = c.surface

\* Mutations of bind: the last one wins; references shared; an equal binding
\* written again.
BindLast(p) ==
  /\ gate[p].at = "bind"
  /\ bindings' = [bindings EXCEPT ![gate[p].effect] = gate[p].binding]
  /\ gate' = [gate EXCEPT ![p].at = "bound"]
  /\ UNCHANGED calls

BindSharingReference(p) ==
  LET e == gate[p].effect
      b == gate[p].binding
  IN
  /\ gate[p].at = "bind"
  /\ IF bindings[e] = None
     THEN bindings' = [bindings EXCEPT ![e] = b]
     ELSE SameAuthority(bindings[e], b) /\ UNCHANGED bindings
  /\ gate' = [gate EXCEPT ![p].at = "bound"]
  /\ UNCHANGED calls

BindAgain(p) ==
  LET e == gate[p].effect
      b == gate[p].binding
  IN
  /\ gate[p].at = "bind"
  /\ IF bindings[e] = None THEN Unused(b.reference) ELSE SameAuthority(bindings[e], b)
  /\ bindings' = [bindings EXCEPT ![e] = b]
  /\ gate' = [gate EXCEPT ![p].at = "bound"]
  /\ UNCHANGED calls

\* bind, one transaction: the effect's binding is read back when it is of the
\* same mission and surface, whatever its reference; a new one needs a
\* reference no effect has used.
Bind(p) ==
  LET e == gate[p].effect
      b == gate[p].binding
  IN
  /\ gate[p].at = "bind"
  /\ \/ /\ bindings[e] = None
        /\ Unused(b.reference)
        /\ bindings' = [bindings EXCEPT ![e] = b]
     \/ /\ bindings[e] # None
        /\ SameAuthority(bindings[e], b)
        /\ UNCHANGED bindings
  /\ gate' = [gate EXCEPT ![p].at = "bound"]
  /\ UNCHANGED calls

\* SURFACE_BINDING_CONFLICT, BINDING_REFERENCE_CONFLICT.
Conflict(p) ==
  LET e == gate[p].effect
      b == gate[p].binding
  IN
  /\ gate[p].at = "bind"
  /\ IF bindings[e] = None
     THEN ~Unused(b.reference)
     ELSE ~SameAuthority(bindings[e], b)
  /\ Leave(p)
  /\ UNCHANGED <<bindings, calls>>

\* The delegate, which may send, raise or never answer: the call counts.
\* (The first is a mutation: the port not done with its attempt.)
CallDelegateAndStay(p) ==
  /\ gate[p].at = "bound"
  /\ calls' = calls \cup
       {[effect |-> gate[p].effect, mission |-> gate[p].binding.mission,
         surface |-> gate[p].binding.surface]}
  /\ gate' = [gate EXCEPT ![p].at = "idle"]
  /\ UNCHANGED bindings

CallDelegate(p) ==
  /\ gate[p].at = "bound"
  /\ calls' = calls \cup
       {[effect |-> gate[p].effect, mission |-> gate[p].binding.mission,
         surface |-> gate[p].binding.surface]}
  /\ Leave(p)
  /\ UNCHANGED bindings

\* The store fails, or the process dies, between any two steps.
Fail(p) ==
  /\ gate[p] # Idle
  /\ Leave(p)
  /\ UNCHANGED <<bindings, calls>>

PortStep(p) ==
  \/ \E e \in Effects, b \in Binding : Start(p, e, b)
  \/ Bind(p)
  \/ Conflict(p)
  \/ CallDelegate(p)
  \/ Fail(p)

Next == \E p \in Ports : PortStep(p)

Spec == Init /\ [][Next]_vars
-----------------------------------------------------------------------------
Busy == [at : {"bind", "bound"}, effect : Effects, binding : Binding]
Call == [effect : Effects, mission : Missions, surface : Surfaces]

\* The shape of the state; a port that left keeps nothing of its attempt.
TypeOK ==
  /\ bindings \in [Effects -> Binding \cup {None}]
  /\ calls \subseteq Call
  /\ gate \in [Ports -> Busy \cup {Idle}]

\* An effect is never given to two surfaces, nor to two missions, however the
\* ports race, fail and are made again (docs/DURABLE_EXECUTION_SURFACE_
\* BINDING.md, "Invariant").
OneSurfacePerEffect ==
  \A c, d \in calls : c.effect = d.effect => c = d

\* A binding reference, an approval of one choice of surface, never stands for
\* the choice of another effect.
ReferenceBindsOneEffect ==
  \A e, f \in Effects :
    /\ bindings[e] # None
    /\ bindings[f] # None
    /\ bindings[e].reference = bindings[f].reference
    => e = f

\* A binding is for good: no restart, later reference or proposed fallback
\* changes any part of it.
BindingIsForGood ==
  [][\A e \in Effects : bindings[e] # None => bindings'[e] = bindings[e]]_vars

\* What makes the first inductive: whoever is past bind, and every call made,
\* agrees with a binding that is there.
Agrees(e, mission, surface) ==
  /\ bindings[e] # None
  /\ bindings[e].mission = mission
  /\ bindings[e].surface = surface

PortsAgree ==
  \A p \in Ports :
    gate[p].at = "bound" =>
      Agrees(gate[p].effect, gate[p].binding.mission, gate[p].binding.surface)

CallsAgree == \A c \in calls : Agrees(c.effect, c.mission, c.surface)

BindingInv ==
  /\ TypeOK
  /\ ReferenceBindsOneEffect
  /\ PortsAgree
  /\ CallsAgree
=============================================================================
