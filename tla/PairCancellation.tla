-------------------------- MODULE PairCancellation --------------------------
(***************************************************************************)
(* The peephole passes: RemoveIdentityEquivalent,                          *)
(* SingleQubitIdentityPairRemovalPass, CNOTIdentityPairRemovalPass and     *)
(* DuplicateResetRemovalPass, and SingleQubitGateMergingPass.              *)
(*                                                                         *)
(* The walks collect dead operations and erase them at the end.  An        *)
(* operation's results are only ever used further down, and an operation   *)
(* that is replaced lies before the one visited, so who uses what the      *)
(* visited operation returns does not change during a walk.                *)
(***************************************************************************)
EXTENDS GateChains

(* A rotation whose trace is that of the identity. *)
RemoveIdentityEquivalent(gates) ==
  Erase(gates, {i \in DOMAIN gates : /\ gates[i].name \in {"rz", "p", "rx", "ry"}
                                     /\ gates[i].args[1] % (2 * Pi) = 0})

search_gates == {<<"x", "x">>, <<"y", "y">>, <<"z", "z">>, <<"h", "h">>, <<"t", "tdg">>,
                 <<"tdg", "t">>, <<"s", "sdg">>, <<"sdg", "s">>}

(* What the visit of gate i adds to the dead operations, in each walk.     *)
VisitSingle(gates, i) ==
  LET j == NextGate(gates, i, gates[i].wires[1])
  IN  IF IsValue(gates[i]) /\ j # 0 /\ <<gates[j].name, gates[i].name>> \in search_gates
      THEN {i, j} ELSE {}

(* Mutant of VisitCnot: the second wire is not followed. *)
VisitCnotByControl(gates, i) ==
  LET j == NextGate(gates, i, gates[i].wires[1])
  IN  IF gates[i].name = "cx" /\ j # 0 /\ gates[j].name = "cx" /\ gates[j].wires = gates[i].wires
      THEN {i, j} ELSE {}

VisitCnot(gates, i) ==
  LET j == NextGate(gates, i, gates[i].wires[1])
  IN  IF /\ gates[i].name = "cx"
         /\ j # 0 /\ j = NextGate(gates, i, gates[i].wires[2])
         /\ gates[j].name = "cx" /\ gates[j].wires = gates[i].wires
      THEN {i, j} ELSE {}

VisitReset(gates, i) ==
  LET j == NextGate(gates, i, gates[i].wires[1])
  IN  IF gates[i].name = "reset" /\ j # 0 /\ gates[j].name = "reset" THEN {j} ELSE {}

Visit(pass, gates, i) == CASE pass = "single" -> VisitSingle(gates, i)
                           [] pass = "cnot"   -> VisitCnot(gates, i)
                           [] pass = "reset"  -> VisitReset(gates, i)
Walk(pass, gates) ==
  Erase(gates, FoldLeft(LAMBDA dead, i : IF i \in dead THEN dead
                                         ELSE dead \cup Visit(pass, gates, i),
                        {}, [i \in DOMAIN gates |-> i]))
SingleQubitIdentityPairRemoval(gates) == Walk("single", gates)
CNOTIdentityPairRemoval(gates)        == Walk("cnot", gates)
DuplicateResetRemoval(gates)          == Walk("reset", gates)

-----------------------------------------------------------------------------
(* SingleQubitGateMergingPass *)
unableOps == {"mz", "reset", "u1", "u2", "p", "u"}

(* The gates the search collects from gate i: one-qubit gates, each the    *)
(* user of the one before.                                                 *)
MergeRun(gates, i) ==
  LET chain == ChainFrom(gates, i, gates[i].wires[1])
      Stops(k) == \/ ~ OnOneWire(gates[chain[k]])
                  \/ gates[chain[k]].name \in unableOps
      stops == {k \in DOMAIN chain : Stops(k)}
  IN  IF stops = {} THEN chain ELSE SubSeq(chain, 1, Min(stops) - 1)

(* new_euler_decompose tries the Euler forms both of whose axes the gate   *)
(* set has.                                                                *)
HasEulerForm(B) == \/ Cardinality(B \cap {"rx", "ry", "rz"}) >= 2
                   \/ "sx" \in B /\ B \cap {"x", "rz"} # {}
IsIdentity(run) ==
  \A a \in {0, 2} : LET psi == [b \in SUBSET WiresIn(run[1]) |-> IF b = {} THEN 1 ELSE a]
                    IN  SameUpToPhase(psi, Apply(Fused(run), psi))

(* What the search may find instead of a run: nothing when no Euler form   *)
(* is tried or the product is the identity, otherwise rotations with that  *)
(* product, if they are fewer.                                             *)
new_euler_decompose(B, run) ==
  IF ~ HasEulerForm(B) \/ IsIdentity(run) THEN {<<>>}
  ELSE {run, <<Fused(run)>>}

(* The walk goes on behind the gate it visited and meets what it wrote.    *)
MergedRun(B, gates, run) ==
  LET ops == [k \in DOMAIN run |-> gates[run[k]]]
      Cut(part) == Erase(part, ToSet(run) \cap DOMAIN part)
  IN  { IF seq = ops THEN gates
        ELSE Cut(SubSeq(gates, 1, Last(run))) \o seq \o SubSeq(gates, Last(run) + 1, Len(gates)) :
        seq \in new_euler_decompose(B, ops) }
MergeAt(B, gates, i) ==
  UNION {IF Len(run) < 2 THEN {gates} ELSE MergedRun(B, gates, run) :
           run \in {IF IsValue(gates[i]) THEN MergeRun(gates, i) ELSE <<>>}}
MergeStep(B, p) ==
  IF p[1] > Len(p[2]) THEN {p}
  ELSE {<<IF g = p[2] THEN p[1] + 1 ELSE p[1], g>> : g \in MergeAt(B, p[2], p[1])}
MergeWalk(B, gates) ==
  FoldLeft(LAMBDA at, k : UNION {MergeStep(B, p) : p \in at}, {<<1, gates>>},
           [k \in 1 .. 2 * Len(gates) |-> k])
SingleQubitGateMerging(B, gates) == {p[2] : p \in MergeWalk(B, gates)}
=============================================================================
