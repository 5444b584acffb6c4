---------------------------- MODULE CouplingMap ----------------------------
(***************************************************************************)
(* The hardware topology of passes/lib/CouplingMap.cpp: what adjacent,     *)
(* neighbors and distance answer for a list of undirected couplings        *)
(* between physical qubits.  Distances are given here by their meaning     *)
(* (the length of a shortest path); module CouplingBfs models the          *)
(* breadth-first search that computes them.                                *)
(***************************************************************************)
EXTENDS Integers, FiniteSetsExt

Unreachable == -1

(* The indices that occur in an edge list. *)
Endpoints(edges) == UNION { {e[1], e[2]} : e \in edges }

Phys(d) == 0 .. (d.size - 1)

Adjacent(d, p, q) ==
  /\ p \in Phys(d)
  /\ q \in Phys(d)
  /\ <<p, q>> \in d.edges \/ <<q, p>> \in d.edges

Neighbors(d, p) == { q \in Phys(d) : Adjacent(d, p, q) }

(* Ball(d, p)[k]: the qubits at most k couplings away from p. *)
Ball(d, p) ==
  LET B[k \in 0 .. d.size] ==
        IF k = 0 THEN {p}
        ELSE B[k-1] \cup UNION { Neighbors(d, q) : q \in B[k-1] }
  IN  B

(* distance(p, q); -1 when no path joins them. *)
Distance(d, p, q) ==
  LET B    == Ball(d, p)
      Hops == { k \in 0 .. d.size : q \in B[k] }
  IN  IF Hops = {} THEN Unreachable ELSE Min(Hops)

(***************************************************************************)
(* The constructor: the device is as wide as the largest index that occurs *)
(* in an edge, so an index that no edge names is an isolated qubit.  The   *)
(* distances are computed once.                                            *)
(***************************************************************************)
GraphOf(edges) ==
  [size  |-> IF edges = {} THEN 0 ELSE 1 + Max(Endpoints(edges)),
   edges |-> edges]

DeviceOf(edges) ==
  LET g == GraphOf(edges)
  IN  [size  |-> g.size,
       edges |-> edges,
       dist  |-> [p \in Phys(g) |-> [q \in Phys(g) |-> Distance(g, p, q)]]]

(* What the constructor guarantees of a device (CouplingBfsProofs: of any  *)
(* list of edges it fills in these distances); couplings join two qubits.  *)
IsDevice(d) ==
  /\ d.size \in Nat
  /\ \A e \in d.edges : e \in Phys(d) \X Phys(d) /\ e[1] # e[2]
  /\ d.dist = [p \in Phys(d) |-> [q \in Phys(d) |-> Distance(d, p, q)]]

Connected(d) == \A p, q \in Phys(d) : d.dist[p][q] # Unreachable
=============================================================================
