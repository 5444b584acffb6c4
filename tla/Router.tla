------------------------------- MODULE Router -------------------------------
(***************************************************************************)
(* What qubit routing promises.  The wires of a circuit sit on distinct    *)
(* physical qubits of a device; two wires on coupled qubits may trade      *)
(* places; and the gates are performed one after the other in program      *)
(* order, a two-qubit gate only while its wires sit on coupled qubits.     *)
(* Module SabreSwap is shown to implement this.                            *)
(***************************************************************************)
EXTENDS CouplingMap, Circuit

VARIABLES device, circ, layout,
          performed              \* the gates that have been performed

vars == <<device, circ, layout, performed>>

Placed == /\ layout \in [Wires(circ) -> Phys(device)]
          /\ InjectiveOn(Wires(circ), layout)

Init == IsDevice(device) /\ IsCircuit(circ) /\ Placed /\ performed = {}

Trade(v, w) ==
  /\ Adjacent(device, layout[v], layout[w])
  /\ layout' = Swapped(layout, v, w)
  /\ UNCHANGED <<device, circ, performed>>

Perform(g) ==
  /\ g \notin performed
  /\ \A h \in 1 .. (g - 1) : h \in performed
  /\ LET gate == circ.gates[g]
     IN  Len(gate) >= 2 => Adjacent(device, layout[gate[1]], layout[gate[2]])
  /\ performed' = performed \cup {g}
  /\ UNCHANGED <<device, circ, layout>>

Next ==
  \/ \E g \in GateIds(circ) : Perform(g)
  \/ \E v, w \in Wires(circ) : Trade(v, w)

Spec == Init /\ [][Next]_vars
=============================================================================
