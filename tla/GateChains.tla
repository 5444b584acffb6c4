----------------------------- MODULE GateChains -----------------------------
(***************************************************************************)
(* The chains the optimisers walk.  A program is the sequence of its       *)
(* operations; "mz" is a measurement, every other operation returns a new  *)
(* value of each wire it uses (a ValueSemanticsInstOp of the quantum       *)
(* dialect).  A measurement returns no value: the gate behind it reads,    *)
(* as the measurement does, what the gate before it returned               *)
(* (SimplifyQubitExtractPass has linked them), so that value has two users *)
(* and the walks that ask for a single one end there.                      *)
(***************************************************************************)
EXTENDS GateMeaning

Mz(q)       == Gate("mz", <<q>>, <<>>)
IsValue(g)  == g.name # "mz"
WiresIn(g)  == ToSet(g.wires)
OnOneWire(g) == Len(g.wires) = 1

(* The next operation on wire w behind gate i, 0 if there is none; and     *)
(* hasOneUse with user_begin: the gate that alone uses what i returns.     *)
User(gates, i, w) ==
  LET later == {j \in i + 1 .. Len(gates) : w \in WiresIn(gates[j])}
  IN  IF later = {} THEN 0 ELSE Min(later)
NextGate(gates, i, w) ==
  LET j == User(gates, i, w) IN IF j # 0 /\ IsValue(gates[j]) THEN j ELSE 0

(* getOwner of an operand: the gate that returned it, 0 for an extract.    *)
Owner(gates, i, w) ==
  LET before == {j \in 1 .. i - 1 : IsValue(gates[j]) /\ w \in WiresIn(gates[j])}
  IN  IF before = {} THEN 0 ELSE Max(before)

(* The owner of a measurement's operand.  Measured twice in a row, a wire  *)
(* was extracted again for the second one, unless the gates in between     *)
(* have been erased since.                                                 *)
MeasuredFrom(gates, m) ==
  LET w      == gates[m].wires[1]
      before == {j \in 1 .. m - 1 : w \in WiresIn(gates[j])}
  IN  {Owner(gates, m, w)} \cup IF before # {} /\ ~ IsValue(gates[Max(before)]) THEN {0} ELSE {}

(* A measurement reads what gate i returns for wire w. *)
IsMeasured(gates, i, w) == LET j == User(gates, i, w) IN j # 0 /\ ~ IsValue(gates[j])

(* Places of a program in its order.                                       *)
Ascending(gates, places) == SelectSeq([i \in DOMAIN gates |-> i], LAMBDA i : i \in places)

(* The gates reached from gate i along wire w, gate i included.            *)
ChainFrom(gates, i, w) ==
  LET ends == {j \in i + 1 .. Len(gates) : gates[j] = Mz(w)}
      last == IF ends = {} THEN Len(gates) ELSE Min(ends) - 1
  IN  Ascending(gates, {j \in i .. last : w \in WiresIn(gates[j])})

(* Gates erased together, of which only the last result on a wire is       *)
(* replaced: dropAllUses leaves a measurement in their midst without its   *)
(* operand, and the verifier refuses the program.                          *)
CutsMeasurement(gates, dead) ==
  \E i, j \in dead : i < j /\ \E w \in WiresIn(gates[i]) \cap WiresIn(gates[j]) : IsMeasured(gates, i, w)

(* replaceAllUsesWith(operand) and erase: the gate is gone, its wires stay. *)
Erase(gates, dead) ==
  LET kept == Ascending(gates, DOMAIN gates \ dead)
  IN  [k \in DOMAIN kept |-> gates[kept[k]]]

-----------------------------------------------------------------------------
(* A gate that numerical resynthesis wrote stands for the rotations whose  *)
(* product is that of the gates it replaces; it carries these.             *)
Parts(g)     == IF g.name = "unitary" THEN g.parts ELSE <<g>>
Fused(gates) ==
  LET wires == UNION {WiresIn(gates[i]) : i \in DOMAIN gates}
  IN  [Gate("unitary", SetToSortSeq(wires, <), <<>>) EXCEPT
         !.parts = FlattenSeq([i \in DOMAIN gates |-> Parts(gates[i])])]
Apply(g, psi) == After(Parts(g), psi)

(* Two gates in either order, on the basis states of their wires.          *)
OrderIsFree(g, h) ==
  LET wires == WiresIn(g) \cup WiresIn(h)
  IN  \A k \in SUBSET wires :
        LET psi == [b \in SUBSET wires |-> IF b = k THEN 1 ELSE 0]
        IN  Cardinality({After(order, psi) :
                         order \in {Parts(g) \o Parts(h), Parts(h) \o Parts(g)}}) = 1
=============================================================================
