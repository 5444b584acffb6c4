------------------------------ MODULE SabreSwap ------------------------------
(***************************************************************************)
(* SabreSwap::run (passes/lib/SabreSwap.cpp): given a circuit and an       *)
(* initial layout, execute the gates that are executable on the device and *)
(* record swaps where the blocking two-qubit gates are too far apart.      *)
(* Each action is one turn of the loop.  The pseudo random choices and the *)
(* order std::sort gives to equal scores are nondeterministic; inDegree is *)
(* the set of dependency edges that are still pending.                     *)
(***************************************************************************)
EXTENDS CouplingMap, Circuit

CONSTANTS
  Devices,      \* the devices (records, see CouplingMap) a run may be given
  Circuits,     \* the circuits (records, see Circuit) a run may be given
  Limits        \* the six numbers the two loop limits are computed from

ASSUME DevicesAssumption  == \A d \in Devices : IsDevice(d)
ASSUME CircuitsAssumption == \A c \in Circuits : IsCircuit(c)
ASSUME LimitsAssumption ==
  Limits \in [iterFloor : Nat, iterPerGate : Nat, iterPerQubit : Nat,
              insFloor : Nat, insPerTwoQ : Nat, insPerGate : Nat]

VARIABLES
  device, circ,   \* the arguments: coupling_ and circ
  layout,         \* layout[v]: the physical qubit of wire v
  executed,       \* the gates with executed[gi]
  pending,        \* dependency edges not yet discounted from inDegree
  iterations,     \* swapIterations
  insertions,     \* result.insertions, in the order they were pushed
  layoutBefore,   \* result.layoutBeforeGate, for the executed gates
  seen,           \* seenLayouts
  pc              \* "routing" in the loop, "done" after it

vars == <<device, circ, layout, executed, pending, iterations, insertions,
          layoutBefore, seen, pc>>

Larger(a, b) == IF a >= b THEN a ELSE b

(* kMaxSwapIterations and kMaxInsertions; 2000, 80, 32 and 500, 8, 6. *)
MaxSwapIterations ==
  Larger(Limits.iterFloor, Limits.iterPerGate * Len(circ.gates)
                             + Limits.iterPerQubit * circ.numQubits)

MaxInsertions ==
  Larger(Limits.insFloor,
         Limits.insPerTwoQ * Cardinality({ g \in GateIds(circ) : IsTwoQ(circ, g) })
           + Limits.insPerGate * Len(circ.gates))

WithinLimits ==
  iterations < MaxSwapIterations /\ Len(insertions) < MaxInsertions

(***************************************************************************)
(* The front layer, and the only gate of it that may execute: the one that *)
(* comes first in the IR.                                                  *)
(***************************************************************************)
FrontLayer ==
  { g \in GateIds(circ) \ executed : \A d \in pending : d[2] # g }

(* Mutant: being joined by a path is taken for being coupled. *)
IsReachable(g) ==
  IsTwoQ(circ, g) =>
    device.dist[layout[circ.gates[g][1]]][layout[circ.gates[g][2]]] # Unreachable

IsRoutable(g) ==
  IsTwoQ(circ, g) =>
    Adjacent(device, layout[circ.gates[g][1]], layout[circ.gates[g][2]])

(* Mutant: the loop without the rule; any executable gate may go first. *)
AnyRoutableFrontGate ==
  IF \E g \in FrontLayer : IsRoutable(g)
  THEN CHOOSE g \in FrontLayer : IsRoutable(g)
  ELSE CHOOSE g \in FrontLayer : \A h \in FrontLayer : g <= h

MinFrontGate == CHOOSE g \in FrontLayer : \A h \in FrontLayer : g <= h

TwoQInFront == { g \in FrontLayer : IsTwoQ(circ, g) }

(***************************************************************************)
(* The candidate swaps: a wire of a blocked gate with the wire on a        *)
(* neighbouring qubit.  A qubit that holds no wire offers no swap.         *)
(***************************************************************************)
Ordered(v, w) == IF v < w THEN <<v, w>> ELSE <<w, v>>

(* Mutant: a pair is kept only when the blocked wire has the lower index. *)
HalfOfTheCandidates ==
  { s \in Wires(circ) \X Wires(circ) :
      \E g \in TwoQInFront : \E i \in {1, 2} :
        /\ s[1] = circ.gates[g][i] /\ s[1] < s[2]
        /\ Adjacent(device, layout[s[1]], layout[s[2]]) }

(* Mutant: any wire within reach is taken for a neighbour. *)
DistantCandidates ==
  { s \in Wires(circ) \X Wires(circ) :
      \E g \in TwoQInFront : \E i \in {1, 2} :
        /\ s[1] = circ.gates[g][i] /\ s[1] < s[2]
        /\ device.dist[layout[s[1]]][layout[s[2]]] # Unreachable }

CandidateSwaps ==
  { s \in Wires(circ) \X Wires(circ) :
      \E g \in TwoQInFront : \E i \in {1, 2} : \E w \in Wires(circ) :
        /\ Adjacent(device, layout[circ.gates[g][i]], layout[w])
        /\ s = Ordered(circ.gates[g][i], w) }

(***************************************************************************)
(* scoreSwap: the sum of the distances of the blocked gates once the swap  *)
(* is made; more than any sum when one of them cannot be reached.          *)
(***************************************************************************)
Infinity == 2 * (1 + device.size * Len(circ.gates))

ScoreSwap(s) ==
  LET after  == Swapped(layout, s[1], s[2])
      Hop(g) == device.dist[after[circ.gates[g][1]]][after[circ.gates[g][2]]]
  IN  IF \E g \in TwoQInFront : Hop(g) = Unreachable THEN Infinity
      ELSE MapThenSumSet(Hop, TwoQInFront)

(***************************************************************************)
(* The swap to make: a best one that leads to a new layout, the first in   *)
(* the order of the candidate set; else the best of those up to half as    *)
(* bad again that lead to a new layout; else any with a finite score; else *)
(* any.                                                                    *)
(***************************************************************************)
IsFresh(s) == Swapped(layout, s[1], s[2]) \notin seen

FirstOf(S) ==
  { s \in S : \A t \in S : s[1] < t[1] \/ (s[1] = t[1] /\ s[2] <= t[2]) }

SwapChoices ==
  LET score   == [s \in CandidateSwaps |-> ScoreSwap(s)]
      Best(S) == { s \in S : \A t \in S : score[s] <= score[t] }
      best    == Best(CandidateSwaps)
      bound   == 3 * score[CHOOSE s \in best : TRUE]
      fresh   == { s \in best : IsFresh(s) }
      near    == { s \in CandidateSwaps : IsFresh(s) /\ 2 * score[s] <= bound }
      finite  == { s \in CandidateSwaps : score[s] < Infinity }
  IN  CASE fresh # {}                           -> FirstOf(fresh)
        [] fresh = {} /\ near # {}              -> Best(near)
        [] fresh \cup near = {} /\ finite # {}  -> finite
        [] fresh \cup near \cup finite = {}     -> CandidateSwaps

----------------------------------------------------------------------------

(* The state at the head of the loop of a call run(c, initial). *)
Called(c, initial) ==
  /\ circ = c
  /\ layout = initial
  /\ executed = {}
  /\ pending = c.deps
  /\ iterations = 0
  /\ insertions = <<>>
  /\ layoutBefore = [g \in {} |-> initial]
  /\ seen = {initial}
  /\ pc = "routing"

Placements(c) ==
  { f \in [Wires(c) -> Phys(device)] : InjectiveOn(Wires(c), f) }

Init ==
  /\ device \in Devices
  /\ \E c \in Circuits : \E initial \in Placements(c) : Called(c, initial)

(* The first ready gate is executable: it runs, and its successors lose a  *)
(* dependency.                                                             *)
ExecuteGate ==
  /\ pc = "routing" /\ WithinLimits /\ FrontLayer # {}
  /\ LET g == MinFrontGate
     IN  /\ IsRoutable(g)
         /\ layoutBefore' = [h \in executed \cup {g} |->
                               IF h = g THEN layout ELSE layoutBefore[h]]
         /\ executed' = executed \cup {g}
         /\ pending' = { d \in pending : d[1] # g }
  /\ iterations' = 0
  /\ UNCHANGED <<device, circ, layout, insertions, seen, pc>>

(* Mutant: the layout is stored after the swap has been made. *)
RecordSwapTooLate(s) ==
  /\ layout' = Swapped(layout, s[1], s[2])
  /\ insertions' = Append(insertions, [before |-> MinFrontGate,
                                       v0     |-> s[1],
                                       v1     |-> s[2],
                                       layout |-> layout'])
  /\ seen' = seen \cup {layout'}

(* The swap is made, and recorded with the layout it was made in. *)
RecordSwap(s) ==
  /\ layout' = Swapped(layout, s[1], s[2])
  /\ insertions' = Append(insertions, [before |-> MinFrontGate,
                                       v0     |-> s[1],
                                       v1     |-> s[2],
                                       layout |-> layout])
  /\ seen' = seen \cup {layout'}

(* The first ready gate is blocked: a swap is recorded in front of it. *)
InsertSwap ==
  /\ pc = "routing" /\ WithinLimits /\ FrontLayer # {}
  /\ ~IsRoutable(MinFrontGate)
  /\ CandidateSwaps # {}
  /\ \E s \in SwapChoices : RecordSwap(s)
  /\ iterations' = iterations + 1
  /\ UNCHANGED <<device, circ, executed, pending, layoutBefore, pc>>

(* Every gate has run. *)
Finish ==
  /\ pc = "routing" /\ executed = GateIds(circ)
  /\ pc' = "done"
  /\ UNCHANGED <<device, circ, layout, executed, pending, iterations,
                 insertions, layoutBefore, seen>>

(* A limit is reached: the loop is left with gates that have not run. *)
GiveUp ==
  /\ pc = "routing" /\ executed # GateIds(circ)
  /\ ~WithinLimits
  /\ pc' = "done"
  /\ UNCHANGED <<device, circ, layout, executed, pending, iterations,
                 insertions, layoutBefore, seen>>

(* Mutant: a turn without candidates counts as progress. *)
RetryStranded ==
  /\ pc = "routing" /\ WithinLimits /\ FrontLayer # {}
  /\ ~IsRoutable(MinFrontGate)
  /\ CandidateSwaps = {}
  /\ iterations' = 0
  /\ UNCHANGED <<device, circ, layout, executed, pending, insertions,
                 layoutBefore, seen, pc>>

(* No wire sits next to a wire of a blocked gate: the loop is left too. *)
Strand ==
  /\ pc = "routing" /\ WithinLimits /\ FrontLayer # {}
  /\ ~IsRoutable(MinFrontGate)
  /\ CandidateSwaps = {}
  /\ pc' = "done"
  /\ UNCHANGED <<device, circ, layout, executed, pending, iterations,
                 insertions, layoutBefore, seen>>

Next == ExecuteGate \/ InsertSwap \/ Finish \/ GiveUp \/ Strand

Spec == Init /\ [][Next]_vars /\ WF_vars(Next)

----------------------------------------------------------------------------

(* Every variable has its type; in particular a snapshot exists for exactly *)
(* the executed gates and each layout keeps the wires on distinct qubits.   *)
Layouts == Placements(circ)

InsertionType ==
  [before : GateIds(circ), v0 : Wires(circ), v1 : Wires(circ),
   layout : Layouts]

TypeOK ==
  /\ device \in Devices
  /\ IsCircuit(circ)
  /\ layout \in Layouts
  /\ executed \subseteq GateIds(circ)
  /\ pending \subseteq circ.deps
  /\ iterations \in Nat
  /\ insertions \in Seq(InsertionType)
  /\ DOMAIN layoutBefore = executed
  /\ \A g \in executed : layoutBefore[g] \in Layouts
  /\ seen \subseteq Layouts
  /\ pc \in {"routing", "done"}

(***************************************************************************)
(* Gates execute in IR order although the loop picks them from the front   *)
(* layer of the dependency graph: what has run is always a prefix of the   *)
(* circuit ("Match LLVM/QIR block order", SabreSwap.cpp).                  *)
(***************************************************************************)
ExecutedIsPrefix ==
  \A g \in executed : \A h \in 1 .. (g - 1) : h \in executed

(***************************************************************************)
(* The recorded swaps, performed in front of the gates they are anchored   *)
(* to, lead from the initial layout to the snapshot of each gate and to    *)
(* the final layout: a replay of the list in IR order cannot drift from    *)
(* the simulation that recorded it.                                        *)
(***************************************************************************)
After(k) == Swapped(insertions[k].layout, insertions[k].v0, insertions[k].v1)

LayoutBeforeInsertion(k) ==
  IF k <= Len(insertions) THEN insertions[k].layout ELSE layout

IsLastUpTo(k, g) ==
  /\ k > 0 => insertions[k].before <= g
  /\ k < Len(insertions) => insertions[k + 1].before > g

ReplayMatchesSimulation ==
  /\ \A k \in 1 .. Len(insertions) : After(k) = LayoutBeforeInsertion(k + 1)
  /\ \A k \in 1 .. (Len(insertions) - 1) :
       insertions[k].before <= insertions[k + 1].before
  /\ \A g \in executed : \A k \in 0 .. Len(insertions) :
       IsLastUpTo(k, g) => layoutBefore[g] = LayoutBeforeInsertion(k + 1)

(***************************************************************************)
(* Every recorded swap and every executed two-qubit gate acts on two       *)
(* qubits that the device couples, at the moment it is performed.          *)
(***************************************************************************)
ActsOnCouplings ==
  /\ \A k \in 1 .. Len(insertions) :
       LET i == insertions[k]
       IN  Adjacent(device, i.layout[i.v0], i.layout[i.v1])
  /\ \A g \in executed : IsTwoQ(circ, g) =>
       Adjacent(device, layoutBefore[g][circ.gates[g][1]],
                        layoutBefore[g][circ.gates[g][2]])

(***************************************************************************)
(* On a connected device whose every qubit holds a wire, a blocked gate    *)
(* always has a candidate swap that brings its two wires closer, so the    *)
(* random fallback of the loop can always get out of the tabu list.        *)
(***************************************************************************)
Gap(g, l) == device.dist[l[circ.gates[g][1]]][l[circ.gates[g][2]]]

ProgressIsPossible ==
  ( /\ pc = "routing" /\ FrontLayer # {}
    /\ ~IsRoutable(MinFrontGate)
    /\ circ.numQubits = device.size
    /\ Connected(device) ) =>
  \E s \in CandidateSwaps :
     Gap(MinFrontGate, Swapped(layout, s[1], s[2])) < Gap(MinFrontGate, layout)

(* The call returns. *)
Terminates == <>(pc = "done")

(* The loop implements the router that moves wires along couplings only    *)
(* and performs the gates in program order.                                *)
Routing == INSTANCE Router WITH performed <- executed

ImplementsRouter == Routing!Spec

=============================================================================
