------------------------------ MODULE Circuit ------------------------------
(***************************************************************************)
(* The circuit that CircuitExtractor hands to the SABRE passes: the gates  *)
(* of a kernel in IR order, each with the flat indices of the wires it     *)
(* acts on, and the dependency edges between them.  Gate kinds and angles  *)
(* are left out: routing only looks at the wires.                          *)
(***************************************************************************)
EXTENDS Integers, Sequences

WiresOf(gate) == { gate[i] : i \in DOMAIN gate }

(***************************************************************************)
(* successors: gate j depends on the last gate before it on each of its    *)
(* wires (lastGateOnQubit).                                                *)
(***************************************************************************)
Dependencies(gates) ==
  { d \in (DOMAIN gates) \X (DOMAIN gates) :
      /\ d[1] < d[2]
      /\ \E q \in WiresOf(gates[d[1]]) \cap WiresOf(gates[d[2]]) :
           \A k \in (d[1] + 1) .. (d[2] - 1) : q \notin WiresOf(gates[k]) }

CircuitOf(width, gates) ==
  [numQubits |-> width, gates |-> gates, deps |-> Dependencies(gates)]

Wires(c)     == 0 .. (c.numQubits - 1)
GateIds(c)   == 1 .. Len(c.gates)
IsTwoQ(c, g) == Len(c.gates[g]) >= 2

(* The circuits the passes are run on. *)
IsCircuit(c) ==
  /\ c.numQubits \in Nat
  /\ c.gates \in Seq(Seq(Wires(c)))
  /\ \A g \in GateIds(c) :
       \/ \E q \in Wires(c) : c.gates[g] = <<q>>
       \/ \E q, r \in Wires(c) : q # r /\ c.gates[g] = <<q, r>>
  /\ c.deps \subseteq { d \in GateIds(c) \X GateIds(c) : d[1] < d[2] }

(* Mutant: the edges keep their direction. *)
ReverseCircuitSameEdges(c) ==
  LET Mirror(g) == Len(c.gates) + 1 - g
  IN  [numQubits |-> c.numQubits,
       gates     |-> [g \in GateIds(c) |-> c.gates[Mirror(g)]],
       deps      |-> { <<Mirror(d[1]), Mirror(d[2])>> : d \in c.deps }]

(***************************************************************************)
(* SabreLayout::reverseCircuit: gates in reverse order, each edge turned   *)
(* round with its ends renumbered.                                         *)
(***************************************************************************)
ReverseCircuit(c) ==
  LET Mirror(g) == Len(c.gates) + 1 - g
  IN  [numQubits |-> c.numQubits,
       gates     |-> [g \in GateIds(c) |-> c.gates[Mirror(g)]],
       deps      |-> { <<Mirror(d[2]), Mirror(d[1])>> : d \in c.deps }]

(***************************************************************************)
(* A layout places each logical wire on a physical qubit.                  *)
(***************************************************************************)
SwappedByHalf(layout, v, w) == [layout EXCEPT ![v] = layout[w]]   \* mutant

Swapped(layout, v, w) ==
  [layout EXCEPT ![v] = layout[w], ![w] = layout[v]]

InjectiveOn(S, f) == \A v, w \in S : f[v] = f[w] => v = w
=============================================================================
