-------------------------- MODULE SabreSwapProofs --------------------------
(***************************************************************************)
(* Proofs about SabreSwap for every device, circuit and limit.  The        *)
(* inductive invariant adds to the properties that the pending edges are   *)
(* those that leave a gate that has not run, and that no swap is anchored  *)
(* beyond the first gate that has not run.                                 *)
(***************************************************************************)
EXTENDS SabreSwap, CouplingMapProofs, SequenceTheorems

(* A layout that keeps the wires of a circuit on distinct qubits still     *)
(* does after two wires trade places (std::swap of two layout entries).    *)
LEMMA SwappedIsPlacement ==
  ASSUME NEW c, NEW l \in Placements(c), NEW v \in Wires(c), NEW w \in Wires(c)
  PROVE  Swapped(l, v, w) \in Placements(c)
<1> DEFINE s == Swapped(l, v, w)
<1>1. l \in [Wires(c) -> Phys(device)] /\ InjectiveOn(Wires(c), l)
  BY DEF Placements
<1>2. s \in [Wires(c) -> Phys(device)]
  BY <1>1 DEF Swapped
<1>3. \A x \in Wires(c) : s[x] = IF x = w THEN l[v] ELSE IF x = v THEN l[w] ELSE l[x]
  BY <1>1 DEF Swapped
<1>4. InjectiveOn(Wires(c), s)
  <2> SUFFICES ASSUME NEW x \in Wires(c), NEW y \in Wires(c), s[x] = s[y]
               PROVE  x = y
    BY DEF InjectiveOn
  <2>1. \A a, b \in Wires(c) : l[a] = l[b] => a = b
    BY <1>1 DEF InjectiveOn
  <2> QED BY <1>3, <2>1
<1> QED BY <1>2, <1>4 DEF Placements

(* Coupling is symmetric: the device's edges are undirected. *)
LEMMA AdjacentIsSymmetric ==
  ASSUME NEW d, NEW p, NEW q, Adjacent(d, p, q)
  PROVE  Adjacent(d, q, p)
  BY DEF Adjacent

(* The choice rules of the loop only ever pick a candidate swap. *)
LEMMA ChoicesAreCandidates == SwapChoices \subseteq CandidateSwaps
  BY DEF SwapChoices, FirstOf

(* A candidate swap is a pair of wires that sit on coupled qubits. *)
LEMMA CandidateIsCoupled ==
  ASSUME NEW s \in CandidateSwaps
  PROVE  /\ s[1] \in Wires(circ) /\ s[2] \in Wires(circ)
         /\ Adjacent(device, layout[s[1]], layout[s[2]])
<1>1. PICK g \in TwoQInFront, i \in {1, 2}, w \in Wires(circ) :
        /\ Adjacent(device, layout[circ.gates[g][i]], layout[w])
        /\ s = Ordered(circ.gates[g][i], w)
  BY DEF CandidateSwaps
<1>2. s[1] \in Wires(circ) /\ s[2] \in Wires(circ)
  BY DEF CandidateSwaps
<1>3. \/ s[1] = circ.gates[g][i] /\ s[2] = w
      \/ s[1] = w /\ s[2] = circ.gates[g][i]
  BY <1>1 DEF Ordered
<1> QED BY <1>1, <1>2, <1>3, AdjacentIsSymmetric

----------------------------------------------------------------------------

(* The pending edges are those whose source has not run; every anchor of a *)
(* recorded swap has only executed gates in front of it.                   *)
PendingIsUnexecuted == pending = { d \in circ.deps : d[1] \notin executed }

AnchorsAreReached ==
  \A k \in 1 .. Len(insertions) :
    \A h \in 1 .. (insertions[k].before - 1) : h \in executed

Inv == /\ TypeOK
       /\ PendingIsUnexecuted
       /\ ExecutedIsPrefix

(***************************************************************************)
(* While a gate has not run, the front layer holds the first such gate,    *)
(* and MinFrontGate is that gate: dependency edges point forward.          *)
(***************************************************************************)
LEMMA FirstUnexecuted ==
  ASSUME TypeOK, PendingIsUnexecuted, FrontLayer # {}
  PROVE  /\ MinFrontGate \in GateIds(circ) \ executed
         /\ \A h \in 1 .. (MinFrontGate - 1) : h \in executed
<1>1. FrontLayer \subseteq GateIds(circ) \ executed
  BY DEF FrontLayer
<1>2. GateIds(circ) \subseteq Nat /\ \A g \in GateIds(circ) : 1 .. (g - 1) \subseteq GateIds(circ)
  BY DEF TypeOK, IsCircuit, GateIds
<1> DEFINE Rest == GateIds(circ) \ executed
<1>3. Rest # {} /\ Rest \in SUBSET Nat
  BY <1>1, <1>2
<1>4. PICK m \in Rest : \A h \in Rest : m <= h
  BY <1>3, LeastNatural
<1>5. m \in FrontLayer
  <2>1. ASSUME NEW d \in pending, d[2] = m
        PROVE  FALSE
    <3>1. d \in circ.deps /\ d[1] \notin executed
      BY <2>1 DEF PendingIsUnexecuted
    <3>2. d[1] \in GateIds(circ) /\ d[1] < d[2]
      BY <3>1 DEF TypeOK, IsCircuit
    <3>3. d[1] \in Rest
      BY <3>1, <3>2
    <3> QED BY <1>2, <1>4, <2>1, <3>2, <3>3
  <2> QED BY <2>1 DEF FrontLayer
<1>6. \A h \in FrontLayer : m <= h
  BY <1>1, <1>4
<1>7. MinFrontGate \in FrontLayer /\ \A h \in FrontLayer : MinFrontGate <= h
  BY <1>5, <1>6 DEF MinFrontGate
<1>8. MinFrontGate = m
  BY <1>1, <1>2, <1>4, <1>5, <1>6, <1>7
<1>9. \A h \in 1 .. (m - 1) : h \in executed
  BY <1>2, <1>4
<1> QED BY <1>1, <1>7, <1>8, <1>9

----------------------------------------------------------------------------

(* A call starts in a state that satisfies the invariant. *)
LEMMA InitInv == Init => Inv
<1> SUFFICES ASSUME Init PROVE Inv
  OBVIOUS
<1>0. PICK c \in Circuits : \E i \in Placements(c) : Called(c, i)
  BY DEF Init
<1>1. PICK initial \in Placements(c) : Called(c, initial)
  BY <1>0
<1> USE <1>1 DEF Called
<1>2. IsCircuit(circ)
  BY CircuitsAssumption
<1>3. layout \in Layouts
  BY DEF Layouts, Placements
<1>4. insertions \in Seq(InsertionType) /\ iterations \in Nat
  BY EmptySeq
<1>5. DOMAIN layoutBefore = executed
  OBVIOUS
<1>6. TypeOK
  BY <1>2, <1>3, <1>4, <1>5 DEF TypeOK, Init
<1>7. PendingIsUnexecuted /\ ExecutedIsPrefix
  BY DEF PendingIsUnexecuted, ExecutedIsPrefix
<1> QED BY <1>6, <1>7 DEF Inv

(* The first ready gate runs. *)
LEMMA ExecuteGateInv ==
  ASSUME Inv, ExecuteGate
  PROVE  Inv'
<1> DEFINE g == MinFrontGate
<1> USE DEF Inv
<1>1. g \in GateIds(circ) \ executed /\ \A h \in 1 .. (g - 1) : h \in executed
  BY FirstUnexecuted DEF ExecuteGate
<1>2. executed' = executed \cup {g} /\ pending' = { d \in pending : d[1] # g }
  BY DEF ExecuteGate
<1>3. UNCHANGED <<device, circ, layout, insertions, seen, pc>> /\ iterations' = 0
  BY DEF ExecuteGate
<1>4. Layouts' = Layouts /\ InsertionType' = InsertionType
  BY <1>3 DEF Layouts, InsertionType, Placements
<1>5. layoutBefore' = [h \in executed \cup {g} |-> IF h = g THEN layout ELSE layoutBefore[h]]
  BY DEF ExecuteGate
<1>6. DOMAIN layoutBefore' = executed'
      /\ \A h \in executed' : layoutBefore'[h] \in Layouts
  BY <1>2, <1>5 DEF TypeOK
<1>7. TypeOK'
  BY <1>1, <1>2, <1>3, <1>4, <1>6 DEF TypeOK, GateIds
<1>8. PendingIsUnexecuted'
  BY <1>2, <1>3 DEF PendingIsUnexecuted
<1>9. ExecutedIsPrefix'
  BY <1>1, <1>2, <1>3 DEF ExecutedIsPrefix
<1> QED BY <1>7, <1>8, <1>9

(* What a step that inserts a swap does. *)
LEMMA InsertSwapStep ==
  ASSUME Inv, InsertSwap
  PROVE  \E s \in CandidateSwaps :
           /\ layout' = Swapped(layout, s[1], s[2])
           /\ insertions' = Append(insertions, [before |-> MinFrontGate,
                                                v0     |-> s[1],
                                                v1     |-> s[2],
                                                layout |-> layout])
           /\ [before |-> MinFrontGate, v0 |-> s[1], v1 |-> s[2], layout |-> layout]
                \in InsertionType
           /\ seen' = seen \cup {layout'}
           /\ layout' \in Layouts
           /\ UNCHANGED <<device, circ, executed, pending, layoutBefore, pc>>
<1>1. PICK s \in SwapChoices :
        /\ layout' = Swapped(layout, s[1], s[2])
        /\ insertions' = Append(insertions, [before |-> MinFrontGate,
                                             v0     |-> s[1],
                                             v1     |-> s[2],
                                             layout |-> layout])
        /\ seen' = seen \cup {layout'}
  BY DEF InsertSwap, RecordSwap
<1>2. s \in CandidateSwaps
  BY ChoicesAreCandidates
<1>3. s[1] \in Wires(circ) /\ s[2] \in Wires(circ)
  BY <1>2, CandidateIsCoupled
<1>4. layout \in Layouts /\ layout' \in Layouts
  BY <1>1, <1>3, SwappedIsPlacement DEF Inv, TypeOK, Layouts
<1>5. MinFrontGate \in GateIds(circ)
  BY FirstUnexecuted DEF Inv, InsertSwap
<1>6. UNCHANGED <<device, circ, executed, pending, layoutBefore, pc>>
  BY DEF InsertSwap
<1> QED BY <1>1, <1>2, <1>3, <1>4, <1>5, <1>6 DEF InsertionType

(* A swap is recorded in front of the blocked gate. *)
LEMMA InsertSwapInv ==
  ASSUME Inv, InsertSwap
  PROVE  Inv'
<1> USE DEF Inv
<1>1. PICK s \in CandidateSwaps :
        /\ insertions' = Append(insertions, [before |-> MinFrontGate,
                                             v0     |-> s[1],
                                             v1     |-> s[2],
                                             layout |-> layout])
        /\ [before |-> MinFrontGate, v0 |-> s[1], v1 |-> s[2], layout |-> layout]
             \in InsertionType
        /\ seen' = seen \cup {layout'}
        /\ layout' \in Layouts
        /\ UNCHANGED <<device, circ, executed, pending, layoutBefore, pc>>
  BY InsertSwapStep
<1>2. Layouts' = Layouts /\ InsertionType' = InsertionType
  BY <1>1 DEF Layouts, InsertionType, Placements
<1>3. insertions' \in Seq(InsertionType)
  BY <1>1, AppendProperties DEF TypeOK
<1>4. iterations' \in Nat
  BY DEF InsertSwap, TypeOK
<1>5. TypeOK'
  BY <1>1, <1>2, <1>3, <1>4 DEF TypeOK
<1>6. PendingIsUnexecuted' /\ ExecutedIsPrefix'
  BY <1>1 DEF PendingIsUnexecuted, ExecutedIsPrefix
<1> QED BY <1>5, <1>6

(* A step that leaves the loop, or none at all, changes pc only. *)
LEMMA LeaveInv ==
  ASSUME Inv, UNCHANGED <<device, circ, layout, executed, pending, iterations,
                          insertions, layoutBefore, seen>>,
         pc' \in {"routing", "done"}
  PROVE  Inv'
<1>1. Layouts' = Layouts /\ InsertionType' = InsertionType
  BY DEF Layouts, InsertionType, Placements
<1>2. TypeOK'
  BY <1>1 DEF Inv, TypeOK
<1> QED BY <1>2 DEF Inv, PendingIsUnexecuted, ExecutedIsPrefix

LEMMA NextInv == Inv /\ [Next]_vars => Inv'
<1> SUFFICES ASSUME Inv, [Next]_vars PROVE Inv'
  OBVIOUS
<1>1. CASE ExecuteGate
  BY <1>1, ExecuteGateInv
<1>2. CASE InsertSwap
  BY <1>2, InsertSwapInv
<1>3. CASE Finish \/ GiveUp \/ Strand
  BY <1>3, LeaveInv DEF Finish, GiveUp, Strand
<1>4. CASE UNCHANGED vars
  BY <1>4, LeaveInv DEF vars, Inv, TypeOK
<1> QED BY <1>1, <1>2, <1>3, <1>4 DEF Next

(* The invariant holds throughout every call. *)
THEOREM Invariance == Spec => []Inv
<1> QED BY InitInv, NextInv, PTL DEF Spec

(* Every variable keeps its type: in particular each snapshot and the      *)
(* layout itself keep the wires on distinct qubits.                        *)
THEOREM TypeCorrect == Spec => []TypeOK
<1>1. Inv => TypeOK
  BY DEF Inv
<1> QED BY <1>1, Invariance, PTL

(* Gates run in IR order although they are picked from the front layer of  *)
(* the dependency graph.                                                   *)
THEOREM RunsInProgramOrder == Spec => []ExecutedIsPrefix
<1>1. Inv => ExecutedIsPrefix
  BY DEF Inv
<1> QED BY <1>1, Invariance, PTL

----------------------------------------------------------------------------

RInv == Inv /\ AnchorsAreReached /\ ReplayMatchesSimulation /\ ActsOnCouplings

LEMMA InitRInv == Init => AnchorsAreReached /\ ReplayMatchesSimulation /\ ActsOnCouplings
<1> SUFFICES ASSUME Init
             PROVE  AnchorsAreReached /\ ReplayMatchesSimulation /\ ActsOnCouplings
  OBVIOUS
<1>1. executed = {} /\ insertions = <<>>
  BY DEF Init, Called
<1>2. Len(insertions) = 0
  BY <1>1
<1> QED BY <1>1, <1>2 DEF AnchorsAreReached, ReplayMatchesSimulation, ActsOnCouplings

(* A gate runs: its snapshot is the layout, and no swap is recorded in     *)
(* front of a later gate.                                                  *)
LEMMA ExecuteGateRInv ==
  ASSUME RInv, ExecuteGate
  PROVE  AnchorsAreReached' /\ ReplayMatchesSimulation' /\ ActsOnCouplings'
<1> DEFINE g == MinFrontGate
<1> USE DEF RInv
<1>1. g \in GateIds(circ) \ executed /\ \A h \in 1 .. (g - 1) : h \in executed
  BY FirstUnexecuted DEF ExecuteGate, Inv
<1>2. executed' = executed \cup {g} /\ UNCHANGED <<device, circ, layout, insertions>>
  BY DEF ExecuteGate
<1>3. \A h \in executed' : layoutBefore'[h] = IF h = g THEN layout ELSE layoutBefore[h]
  BY <1>2 DEF ExecuteGate
<1>4. insertions \in Seq(InsertionType) /\ Len(insertions) \in Nat /\ g \in Nat
      /\ \A k \in 1 .. Len(insertions) : insertions[k].before \in Nat \ {0}
  <2>1. insertions \in Seq(InsertionType) /\ GateIds(circ) \subseteq Nat \ {0}
    BY DEF Inv, TypeOK, GateIds, IsCircuit
  <2>2. \A k \in 1 .. Len(insertions) : insertions[k] \in InsertionType
    BY <2>1, ElementOfSeq
  <2> QED BY <1>1, <2>1, <2>2 DEF InsertionType
<1>5. AnchorsAreReached'
  BY <1>2 DEF AnchorsAreReached
<1>6. ASSUME NEW k \in 0 .. Len(insertions), IsLastUpTo(k, g)
      PROVE  k = Len(insertions)
  <2> SUFFICES ASSUME k < Len(insertions) PROVE FALSE
    BY <1>4
  <2>1. k + 1 \in 1 .. Len(insertions) /\ insertions[k + 1].before > g
    BY <1>4, <1>6 DEF IsLastUpTo
  <2>2. g \in executed
    BY <1>1, <1>4, <2>1 DEF AnchorsAreReached, GateIds
  <2> QED BY <1>1, <2>2
<1>7. ASSUME NEW h \in executed', NEW k \in 0 .. Len(insertions), IsLastUpTo(k, h)
      PROVE  layoutBefore'[h] = LayoutBeforeInsertion(k + 1)
  <2>1. CASE h = g
    BY <1>3, <1>4, <1>6, <1>7, <2>1 DEF LayoutBeforeInsertion
  <2>2. CASE h # g
    BY <1>2, <1>3, <1>7, <2>2 DEF ReplayMatchesSimulation
  <2> QED BY <2>1, <2>2
<1>8. ReplayMatchesSimulation'
  BY <1>2, <1>7 DEF ReplayMatchesSimulation, After, LayoutBeforeInsertion, IsLastUpTo
<1>9. IsTwoQ(circ, g) =>
        Adjacent(device, layout[circ.gates[g][1]], layout[circ.gates[g][2]])
  BY DEF ExecuteGate, IsRoutable
<1>10. ActsOnCouplings'
  <2>1. \A h \in executed' : IsTwoQ(circ, h) =>
          Adjacent(device, layoutBefore'[h][circ.gates[h][1]],
                           layoutBefore'[h][circ.gates[h][2]])
    BY <1>2, <1>3, <1>9 DEF ActsOnCouplings
  <2> QED BY <1>2, <2>1 DEF ActsOnCouplings, Adjacent, Phys, IsTwoQ
<1> QED BY <1>5, <1>8, <1>10

(* A swap is recorded: it extends the chain of layouts and is anchored at  *)
(* or after every earlier one, in front of no gate that has run.           *)
LEMMA InsertSwapRInv ==
  ASSUME RInv, InsertSwap
  PROVE  AnchorsAreReached' /\ ReplayMatchesSimulation' /\ ActsOnCouplings'
<1> DEFINE g == MinFrontGate
           n == Len(insertions)
<1> USE DEF RInv
<1>1. PICK s \in CandidateSwaps :
        /\ layout' = Swapped(layout, s[1], s[2])
        /\ insertions' = Append(insertions, [before |-> g,
                                             v0     |-> s[1],
                                             v1     |-> s[2],
                                             layout |-> layout])
        /\ [before |-> g, v0 |-> s[1], v1 |-> s[2], layout |-> layout]
             \in InsertionType
        /\ UNCHANGED <<device, circ, executed, layoutBefore>>
  BY InsertSwapStep
<1>2. /\ n \in Nat /\ Len(insertions') = n + 1
      /\ \A k \in 1 .. n : insertions'[k] = insertions[k]
      /\ insertions'[n + 1] = [before |-> g, v0 |-> s[1], v1 |-> s[2], layout |-> layout]
  BY <1>1, AppendProperties DEF Inv, TypeOK
<1>3. g \in GateIds(circ) \ executed /\ \A h \in 1 .. (g - 1) : h \in executed
  BY FirstUnexecuted DEF InsertSwap, Inv
<1>4. GateIds(circ) \subseteq Nat \ {0}
      /\ \A k \in 1 .. n : insertions[k].before \in GateIds(circ)
  <2>1. insertions \in Seq(InsertionType) /\ GateIds(circ) \subseteq Nat \ {0}
    BY DEF Inv, TypeOK, GateIds, IsCircuit
  <2>2. \A k \in 1 .. n : insertions[k] \in InsertionType
    BY <2>1, ElementOfSeq
  <2> QED BY <2>1, <2>2 DEF InsertionType
<1>5. \A k \in 1 .. n : insertions[k].before <= g
  <2> SUFFICES ASSUME NEW k \in 1 .. n, insertions[k].before > g PROVE FALSE
    BY <1>3, <1>4
  <2>1. g \in 1 .. (insertions[k].before - 1)
    BY <1>3, <1>4
  <2> QED BY <1>3, <2>1 DEF AnchorsAreReached
<1>6. \A h \in executed : h < g
  <2> SUFFICES ASSUME NEW h \in executed, g <= h PROVE FALSE
    BY <1>3, <1>4 DEF Inv, TypeOK
  <2>1. h \in GateIds(circ) /\ h # g
    BY <1>3 DEF Inv, TypeOK
  <2>2. g \in 1 .. (h - 1)
    BY <1>3, <1>4, <2>1
  <2> QED BY <1>3, <2>2 DEF Inv, ExecutedIsPrefix
<1>7. AnchorsAreReached'
  <2> SUFFICES ASSUME NEW k \in 1 .. (n + 1)
               PROVE  \A h \in 1 .. (insertions'[k].before - 1) : h \in executed
    BY <1>1, <1>2 DEF AnchorsAreReached
  <2>1. CASE k = n + 1
    BY <1>2, <1>3, <2>1
  <2>2. CASE k \in 1 .. n
    BY <1>2, <2>2 DEF AnchorsAreReached
  <2> QED BY <1>2, <2>1, <2>2
<1>8. \A k \in 1 .. (n + 1) : LayoutBeforeInsertion(k)' = LayoutBeforeInsertion(k)
  <2> TAKE k \in 1 .. (n + 1)
  <2>1. CASE k = n + 1
    BY <1>2, <2>1 DEF LayoutBeforeInsertion
  <2>2. CASE k \in 1 .. n
    BY <1>2, <2>2 DEF LayoutBeforeInsertion
  <2> QED BY <1>2, <2>1, <2>2
<1>9. \A k \in 1 .. (n + 1) : After(k)' = LayoutBeforeInsertion(k + 1)'
  <2> TAKE k \in 1 .. (n + 1)
  <2>1. CASE k = n + 1
    BY <1>1, <1>2, <2>1 DEF After, LayoutBeforeInsertion
  <2>2. CASE k \in 1 .. n
    <3>1. After(k)' = After(k) /\ k + 1 \in 1 .. (n + 1)
      BY <1>2, <2>2 DEF After
    <3> QED BY <1>8, <2>2, <3>1 DEF ReplayMatchesSimulation
  <2> QED BY <1>2, <2>1, <2>2
<1>10. \A k \in 1 .. n : insertions'[k].before <= insertions'[k + 1].before
  <2> TAKE k \in 1 .. n
  <2>1. CASE k = n
    BY <1>2, <1>5, <2>1
  <2>2. CASE k \in 1 .. (n - 1)
    BY <1>2, <2>2 DEF ReplayMatchesSimulation
  <2> QED BY <1>2, <2>1, <2>2
<1>11. \A h \in executed : \A k \in 0 .. (n + 1) :
         IsLastUpTo(k, h)' => layoutBefore[h] = LayoutBeforeInsertion(k + 1)'
  <2> SUFFICES ASSUME NEW h \in executed, NEW k \in 0 .. (n + 1), IsLastUpTo(k, h)'
               PROVE  layoutBefore[h] = LayoutBeforeInsertion(k + 1)'
    OBVIOUS
  <2>0. h < g /\ h \in Nat /\ g \in Nat
    BY <1>3, <1>4, <1>6 DEF Inv, TypeOK
  <2>1. k # n + 1
    BY <1>2, <2>0 DEF IsLastUpTo
  <2>2. k \in 0 .. n
    BY <1>2, <2>1
  <2>3. IsLastUpTo(k, h)
    BY <1>2, <2>2 DEF IsLastUpTo
  <2> QED BY <1>2, <1>8, <2>2, <2>3 DEF ReplayMatchesSimulation
<1>12. ReplayMatchesSimulation'
  BY <1>1, <1>2, <1>9, <1>10, <1>11 DEF ReplayMatchesSimulation
<1>13. ActsOnCouplings'
  <2>1. \A k \in 1 .. (n + 1) :
          Adjacent(device, insertions'[k].layout[insertions'[k].v0],
                           insertions'[k].layout[insertions'[k].v1])
    <3> TAKE k \in 1 .. (n + 1)
    <3>1. CASE k = n + 1
      BY <1>2, <3>1, CandidateIsCoupled
    <3>2. CASE k \in 1 .. n
      BY <1>2, <3>2 DEF ActsOnCouplings
    <3> QED BY <1>2, <3>1, <3>2
  <2>2. \A h \in executed : IsTwoQ(circ, h) =>
          Adjacent(device, layoutBefore[h][circ.gates[h][1]],
                           layoutBefore[h][circ.gates[h][2]])
    BY DEF ActsOnCouplings
  <2> QED BY <1>1, <1>2, <2>1, <2>2 DEF ActsOnCouplings, Adjacent, Phys, IsTwoQ
<1> QED BY <1>7, <1>12, <1>13

LEMMA NextRInv == RInv /\ [Next]_vars => RInv'
<1> SUFFICES ASSUME RInv, [Next]_vars PROVE RInv'
  OBVIOUS
<1>0. Inv'
  BY NextInv DEF RInv
<1>1. CASE ExecuteGate
  BY <1>0, <1>1, ExecuteGateRInv DEF RInv
<1>2. CASE InsertSwap
  BY <1>0, <1>2, InsertSwapRInv DEF RInv
<1>3. CASE Finish \/ GiveUp \/ Strand \/ UNCHANGED vars
  <2>1. UNCHANGED <<device, circ, layout, executed, insertions, layoutBefore>>
    BY <1>3 DEF Finish, GiveUp, Strand, vars
  <2>2. AnchorsAreReached' /\ ReplayMatchesSimulation'
    BY <2>1 DEF RInv, AnchorsAreReached, ReplayMatchesSimulation, After,
                LayoutBeforeInsertion, IsLastUpTo
  <2>3. ActsOnCouplings'
    BY <2>1 DEF RInv, ActsOnCouplings, Adjacent, Phys, IsTwoQ
  <2> QED BY <1>0, <2>2, <2>3 DEF RInv
<1> QED BY <1>1, <1>2, <1>3 DEF Next

(* The list of swaps, replayed in IR order in front of the gates it is     *)
(* anchored to, reproduces the layout of every gate of the simulation.     *)
THEOREM ReplayIsExact == Spec => []ReplayMatchesSimulation
<1>1. Init => RInv
  BY InitInv, InitRInv DEF RInv
<1>2. RInv => ReplayMatchesSimulation
  BY DEF RInv
<1> QED BY <1>1, <1>2, NextRInv, PTL DEF Spec

(* Recorded swaps and executed two-qubit gates act on coupled qubits.      *)
THEOREM RoutingIsLegal == Spec => []ActsOnCouplings
<1>1. Init => RInv
  BY InitInv, InitRInv DEF RInv
<1>2. RInv => ActsOnCouplings
  BY DEF RInv
<1> QED BY <1>1, <1>2, NextRInv, PTL DEF Spec

----------------------------------------------------------------------------
(* SabreSwap implements Router. *)

(* Router's copies of the operators on devices and circuits are the same.  *)
LEMMA SameOperators ==
  /\ \A d : Routing!IsDevice(d) <=> IsDevice(d)
  /\ \A d, p, q : Routing!Adjacent(d, p, q) <=> Adjacent(d, p, q)
  /\ \A c : Routing!IsCircuit(c) <=> IsCircuit(c)
  /\ \A c : Routing!Wires(c) = Wires(c) /\ Routing!GateIds(c) = GateIds(c)
  /\ \A d : Routing!Phys(d) = Phys(d)
  /\ \A l, v, w : Routing!Swapped(l, v, w) = Swapped(l, v, w)
  /\ \A S, f : Routing!InjectiveOn(S, f) <=> InjectiveOn(S, f)
<1>1. /\ \A c : Routing!Wires(c) = Wires(c) /\ Routing!GateIds(c) = GateIds(c)
      /\ \A d : Routing!Phys(d) = Phys(d)
      /\ Routing!Unreachable = Unreachable
  BY DEF Routing!Wires, Wires, Routing!GateIds, GateIds, Routing!Phys, Phys,
         Routing!Unreachable, Unreachable
<1>2. \A d : Routing!IsDevice(d) <=> IsDevice(d)
  <2>2. \A d, p, q : Routing!Distance(d, p, q) = Distance(d, p, q)
    BY DEF Routing!Distance, Distance, Routing!Min, Min, Routing!Ball, Ball,
           Routing!Neighbors, Neighbors, Routing!Adjacent, Adjacent,
           Routing!Phys, Phys, Routing!Unreachable, Unreachable
  <2> QED BY <1>1, <2>2 DEF Routing!IsDevice, IsDevice
<1>3. \A d, p, q : Routing!Adjacent(d, p, q) <=> Adjacent(d, p, q)
  BY <1>1 DEF Routing!Adjacent, Adjacent
<1>4. \A c : Routing!IsCircuit(c) <=> IsCircuit(c)
  BY <1>1 DEF Routing!IsCircuit, IsCircuit
<1>5. \A l, v, w : Routing!Swapped(l, v, w) = Swapped(l, v, w)
  BY DEF Routing!Swapped, Swapped
<1>6. \A S, f : Routing!InjectiveOn(S, f) <=> InjectiveOn(S, f)
  BY DEF Routing!InjectiveOn, InjectiveOn
<1> QED BY <1>1, <1>2, <1>3, <1>4, <1>5, <1>6

LEMMA InitRefines == Init => Routing!Init
<1> SUFFICES ASSUME Init PROVE Routing!Init
  OBVIOUS
<1>1. Inv
  BY InitInv
<1>2. IsDevice(device) /\ IsCircuit(circ)
  BY <1>1, DevicesAssumption DEF Inv, TypeOK
<1>3. layout \in Placements(circ)
  BY <1>1 DEF Inv, TypeOK, Layouts
<1>4. executed = {}
  BY DEF Init, Called
<1> QED BY <1>2, <1>3, <1>4, SameOperators DEF Routing!Init, Routing!Placed, Placements

LEMMA StepRefines == Inv /\ [Next]_vars => [Routing!Next]_Routing!vars
<1> SUFFICES ASSUME Inv, [Next]_vars PROVE [Routing!Next]_Routing!vars
  OBVIOUS
<1>1. CASE ExecuteGate
  <2>1. MinFrontGate \in GateIds(circ) \ executed
        /\ \A h \in 1 .. (MinFrontGate - 1) : h \in executed
    BY <1>1, FirstUnexecuted DEF ExecuteGate, Inv
  <2>2. Routing!Perform(MinFrontGate)
    BY <1>1, <2>1, SameOperators DEF ExecuteGate, IsRoutable, IsTwoQ, Routing!Perform
  <2> QED BY <2>1, <2>2, SameOperators DEF Routing!Next
<1>2. CASE InsertSwap
  <2>1. PICK s \in CandidateSwaps :
          /\ layout' = Swapped(layout, s[1], s[2])
          /\ UNCHANGED <<device, circ, executed>>
    BY <1>2, InsertSwapStep
  <2>2. /\ s[1] \in Wires(circ) /\ s[2] \in Wires(circ)
        /\ Adjacent(device, layout[s[1]], layout[s[2]])
    BY CandidateIsCoupled
  <2>3. Routing!Trade(s[1], s[2])
    BY <2>1, <2>2, SameOperators DEF Routing!Trade
  <2> QED BY <2>2, <2>3, SameOperators DEF Routing!Next
<1>3. CASE Finish \/ GiveUp \/ Strand \/ UNCHANGED vars
  BY <1>3 DEF Finish, GiveUp, Strand, vars, Routing!vars
<1> QED BY <1>1, <1>2, <1>3 DEF Next

(* Whatever SabreSwap::run does, it moves wires along couplings only and   *)
(* performs each gate in its turn.                                         *)
THEOREM Refinement == Spec => ImplementsRouter
<1> QED BY InitRefines, StepRefines, Invariance, PTL
        DEF Spec, ImplementsRouter, Routing!Spec

----------------------------------------------------------------------------

(* On a device with as many qubits as the circuit has wires, every qubit   *)
(* holds a wire.                                                           *)
LEMMA EveryQubitHoldsAWire ==
  ASSUME NEW n \in Nat, NEW f \in [0 .. (n - 1) -> 0 .. (n - 1)],
         InjectiveOn(0 .. (n - 1), f), NEW r \in 0 .. (n - 1)
  PROVE  \E w \in 0 .. (n - 1) : f[w] = r
<1> DEFINE S == 0 .. (n - 1)
<1>1. IsFiniteSet(S)
  <2>1. 0 \in Int /\ n - 1 \in Int
    OBVIOUS
  <2> QED BY <2>1, FS_Interval
<1> HIDE DEF S
<1>2. f \in Injection(S, S)
  BY DEF Injection, IsInjective, InjectiveOn, S
<1>3. f \in Surjection(S, S)
  BY <1>1, <1>2, FS_Injection
<1> QED BY <1>3 DEF Surjection, S

(* A blocked gate has a candidate swap that moves its second wire one      *)
(* qubit along a shortest path to its first.                               *)
LEMMA CloserCandidate ==
  ASSUME Inv, FrontLayer # {}, ~IsRoutable(MinFrontGate),
         circ.numQubits = device.size, Connected(device)
  PROVE  \E s \in CandidateSwaps :
           Gap(MinFrontGate, Swapped(layout, s[1], s[2])) < Gap(MinFrontGate, layout)
<1> DEFINE g == MinFrontGate
<1>1. IsDevice(device) /\ IsCircuit(circ) /\ layout \in Placements(circ)
  BY DevicesAssumption DEF Inv, TypeOK, Layouts
<1>2. g \in FrontLayer /\ g \in GateIds(circ)
  <2>1. g \in GateIds(circ) \ executed
    BY FirstUnexecuted DEF Inv
  <2>2. FrontLayer \in SUBSET Nat
    BY DEF FrontLayer, GateIds
  <2>3. \E m \in FrontLayer : \A h \in FrontLayer : m <= h
    BY <2>2, LeastNatural
  <2>4. g \in FrontLayer
    BY <2>3 DEF MinFrontGate
  <2> QED BY <2>1, <2>4
<1>3. IsTwoQ(circ, g) /\ ~IsRoutable(g)
  BY DEF IsRoutable
<1> HIDE DEF g
<1>4. PICK a \in Wires(circ), b \in Wires(circ) : a # b /\ circ.gates[g] = <<a, b>>
  <2>1. \/ \E x \in Wires(circ) : circ.gates[g] = <<x>>
        \/ \E x, y \in Wires(circ) : x # y /\ circ.gates[g] = <<x, y>>
    BY <1>1, <1>2 DEF IsCircuit
  <2>2. \A x : Len(<<x>>) = 1
    OBVIOUS
  <2>3. Len(circ.gates[g]) >= 2
    BY <1>3 DEF IsTwoQ
  <2>4. ASSUME NEW x, circ.gates[g] = <<x>> PROVE FALSE
    BY <2>2, <2>3, <2>4
  <2> QED BY <2>1, <2>4
<1>5. /\ layout \in [Wires(circ) -> Phys(device)]
      /\ \A v, w \in Wires(circ) : layout[v] = layout[w] => v = w
  BY <1>1 DEF Placements, InjectiveOn
<1> DEFINE p == layout[a]
           q == layout[b]
           D(x) == Distance(device, p, x)
<1>6. p \in Phys(device) /\ q \in Phys(device) /\ p # q /\ ~Adjacent(device, p, q)
  BY <1>3, <1>4, <1>5 DEF IsRoutable
<1>7. device.size \in Nat /\ \A x, y \in Phys(device) : device.dist[x][y] = Distance(device, x, y)
  BY <1>1 DEF IsDevice
<1>8. D(q) \in Nat /\ D(q) > 0
  <2>1. D(q) # Unreachable
    BY <1>6, <1>7 DEF Connected
  <2>2. D(q) \in 0 .. device.size \cup {Unreachable}
    BY <1>6, <1>7, DistanceIsLeast
  <2>3. D(q) # 0
    BY <1>6, <1>7, DistanceToItself
  <2> HIDE DEF D
  <2> QED BY <1>7, <2>1, <2>2, <2>3
<1>9. PICK r \in Phys(device) : D(r) = D(q) - 1 /\ q \in Neighbors(device, r)
  BY <1>6, <1>7, <1>8, DistanceBefore
<1>10. Adjacent(device, q, r)
  BY <1>9, AdjacentIsSymmetric DEF Neighbors
<1>11. r # q
  BY <1>8, <1>9
<1>12. r # p
  BY <1>6, <1>10, AdjacentIsSymmetric
<1>13. PICK w \in Wires(circ) : layout[w] = r
  <2>1. Wires(circ) = 0 .. (device.size - 1) /\ Phys(device) = 0 .. (device.size - 1)
    BY DEF Wires, Phys
  <2>2. InjectiveOn(0 .. (device.size - 1), layout)
    BY <1>5, <2>1 DEF InjectiveOn
  <2>3. layout \in [0 .. (device.size - 1) -> 0 .. (device.size - 1)] /\ r \in 0 .. (device.size - 1)
    BY <1>5, <2>1
  <2>4. \E w \in 0 .. (device.size - 1) : layout[w] = r
    BY <1>7, <2>2, <2>3, EveryQubitHoldsAWire
  <2> QED BY <2>1, <2>4
<1>14. w # a /\ w # b
  BY <1>11, <1>12, <1>13
<1> DEFINE s == Ordered(b, w)
<1>15. s \in CandidateSwaps
  <2>1. s \in Wires(circ) \X Wires(circ)
    BY DEF Ordered
  <2>2. g \in TwoQInFront
    BY <1>2, <1>3 DEF TwoQInFront
  <2>3. circ.gates[g][2] = b
    BY <1>4
  <2>4. Adjacent(device, layout[circ.gates[g][2]], layout[w])
    BY <1>10, <1>13, <2>3
  <2> QED BY <2>1, <2>2, <2>3, <2>4 DEF CandidateSwaps
<1> DEFINE l == Swapped(layout, s[1], s[2])
<1>16. l[a] = p /\ l[b] = r
  <2>1. (s[1] = b /\ s[2] = w) \/ (s[1] = w /\ s[2] = b)
    BY DEF Ordered
  <2> HIDE DEF s
  <2> QED BY <1>4, <1>5, <1>13, <1>14, <2>1 DEF Swapped
<1>17. Gap(g, l) = D(r) /\ Gap(g, layout) = D(q)
  <2> HIDE DEF l
  <2> QED BY <1>4, <1>6, <1>7, <1>9, <1>16 DEF Gap
<1>18. Gap(g, l) < Gap(g, layout)
  <2>1. D(r) < D(q)
    <3> HIDE DEF D
    <3> QED BY <1>8, <1>9
  <2> HIDE DEF l, D
  <2> QED BY <1>17, <2>1
<1> QED BY <1>15, <1>18 DEF g

(* On a connected device whose every qubit holds a wire, a blocked gate    *)
(* always has a candidate swap that brings its wires closer.               *)
THEOREM ProgressRemains == Spec => []ProgressIsPossible
<1>1. Inv => ProgressIsPossible
  BY CloserCandidate DEF ProgressIsPossible
<1> QED BY <1>1, Invariance, PTL

(***************************************************************************)
(* The loop is left for one of three reasons: every gate has run, a limit  *)
(* is reached, or the first ready gate is blocked without a candidate.     *)
(***************************************************************************)
Stranded == FrontLayer # {} /\ ~IsRoutable(MinFrontGate) /\ CandidateSwaps = {}

LeftForReason ==
  pc = "done" => executed = GateIds(circ) \/ ~WithinLimits \/ Stranded

(* A step keeps this: no step follows the one that leaves the loop.        *)
LEMMA NextLeaves == LeftForReason /\ [Next]_vars => LeftForReason'
<1> SUFFICES ASSUME LeftForReason, [Next]_vars PROVE LeftForReason'
  OBVIOUS
<1>1. CASE ExecuteGate \/ InsertSwap
  <2>1. pc' = "routing"
    BY <1>1 DEF ExecuteGate, InsertSwap
  <2> QED BY <2>1 DEF LeftForReason
<1>2. ASSUME UNCHANGED <<device, circ, layout, executed, pending, iterations, insertions>>
      PROVE  /\ (executed = GateIds(circ))' = (executed = GateIds(circ))
             /\ WithinLimits' = WithinLimits /\ Stranded' = Stranded
  <2>1. FrontLayer' = FrontLayer /\ WithinLimits' = WithinLimits
        /\ (executed = GateIds(circ))' = (executed = GateIds(circ))
    BY <1>2 DEF FrontLayer, GateIds, WithinLimits, MaxSwapIterations, MaxInsertions, IsTwoQ
  <2>2. MinFrontGate' = MinFrontGate /\ TwoQInFront' = TwoQInFront
    BY <1>2, <2>1 DEF MinFrontGate, TwoQInFront, IsTwoQ
  <2>3. IsRoutable(MinFrontGate)' = IsRoutable(MinFrontGate)
    BY <1>2, <2>2 DEF IsRoutable, IsTwoQ
  <2>4. CandidateSwaps' = CandidateSwaps
    BY <1>2, <2>2 DEF CandidateSwaps, Wires
  <2> QED BY <2>1, <2>3, <2>4 DEF Stranded
<1>3. CASE Finish
  BY <1>2, <1>3 DEF Finish, LeftForReason
<1>4. CASE GiveUp
  BY <1>2, <1>4 DEF GiveUp, LeftForReason
<1>5. CASE Strand
  <2>1. Stranded
    BY <1>5 DEF Strand, Stranded
  <2> QED BY <1>2, <1>5, <2>1 DEF Strand, LeftForReason
<1>6. CASE UNCHANGED vars
  BY <1>2, <1>6 DEF vars, LeftForReason
<1> QED BY <1>1, <1>3, <1>4, <1>5, <1>6 DEF Next

(* Nothing strands where every qubit holds a wire and all are connected.   *)
LEMMA NeverStranded ==
  ASSUME Inv, circ.numQubits = device.size, Connected(device)
  PROVE  ~Stranded
<1>1. SUFFICES ASSUME Stranded PROVE FALSE
  OBVIOUS
<1>2. \E s \in CandidateSwaps : TRUE
  BY <1>1, CloserCandidate DEF Stranded
<1> QED BY <1>1, <1>2 DEF Stranded

(* A call on such a device returns with every gate run, or at a limit.     *)
THEOREM RoutingEndsAtLimits ==
  Spec => [](pc = "done" /\ circ.numQubits = device.size /\ Connected(device)
               => executed = GateIds(circ) \/ ~WithinLimits)
<1>1. Init => LeftForReason
  BY DEF Init, Called, LeftForReason
<1>2. LeftForReason /\ [Next]_vars => LeftForReason'
  BY NextLeaves
<1>3. Spec => []LeftForReason
  BY <1>1, <1>2, PTL DEF Spec
<1>4. Inv /\ LeftForReason =>
        (pc = "done" /\ circ.numQubits = device.size /\ Connected(device)
           => executed = GateIds(circ) \/ ~WithinLimits)
  BY NeverStranded DEF LeftForReason
<1> QED BY <1>3, <1>4, Invariance, PTL
=============================================================================
