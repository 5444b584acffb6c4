----------------------------- MODULE QubitLinks -----------------------------
(***************************************************************************)
(* What the links between operations must be, in the translated and in the *)
(* simplified program.  An operation is linked to the one that defines its *)
(* operand.  The passes that come after take the two for neighbours on     *)
(* that qubit, and cancel, merge or move them.                             *)
(***************************************************************************)
EXTENDS QasmFrontEnd

Acts(op) == op.kind \in {"gate", "call", "modified", "mz"}
(* The operands, as <<operation, place>>, that another operation returned. *)
Links(ops) ==
  UNION {{<<i, k>> : k \in {k \in DOMAIN ops[i].args : Acts(ops[ops[i].args[k][1]])}}
         : i \in {i \in DOMAIN ops : Acts(ops[i])}}
Between(ops, link) == ops[link[1]].args[link[2]][1] + 1 .. link[1] - 1

(* What SimplifyQubitExtract and the passes after it follow. *)
IsSmall(op) == op.kind = "gate" /\ Len(op.args) <= 2
ActsOn(op, wire)    == Acts(op) /\ \E n \in DOMAIN op.wires : op.known[n] /\ op.wires[n] = wire
MayActOn(op, wire)  == Acts(op) /\ \E n \in DOMAIN op.wires : op.known[n] => op.wires[n] = wire

-----------------------------------------------------------------------------
(* A gate or a measurement acts on the qubits the statement names: the     *)
(* value it reads was extracted at that place, or returned there by the    *)
(* operation that last took the qubit, however names were forgotten,       *)
(* replaced and extracted again.                                           *)
GatesActWhereWritten ==
  \A i \in {i \in DOMAIN unit.ops : Acts(unit.ops[i])} : \A k \in DOMAIN unit.ops[i].args :
    LET from == unit.ops[i].args[k]
    IN  \A n \in 0 .. RegisterSize - 1 :
          WireOf(unit.ops[i].on[k], n) = WireOf(unit.ops[from[1]].on[from[2]], n)

(* The accesses the symbol table is told of.  At an expression, in the     *)
(* measurement of a scalar or at a loop's variable and in a subroutine it  *)
(* is not.                                                                 *)
IsTold(op) == /\ Acts(op) /\ op.via # "subroutine"
              /\ \A n \in DOMAIN op.on : op.on[n] # "n-i"
              /\ op.kind = "mz" => op.on[1] \notin {"s", "i"}

(* invalidate_qubit_extracts: a gate is linked to the gate before it on    *)
(* the same qubit, past nothing that was or could have been on that qubit, *)
(* in a branch, at a loop's variable or by a measurement.                  *)
TranslatedLinksSkipNothing ==
  \A link \in Links(unit.ops) : \A j \in Between(unit.ops, link) :
    LET text == unit.ops[link[1]].on[link[2]]
    IN  IsTold(unit.ops[j]) => \A n \in DOMAIN unit.ops[j].on :
          unit.ops[j].on[n] # text /\ (unit.ops[j].on[n] = "i" => text = "s")

-----------------------------------------------------------------------------
(* Blocks the front end tells apart from what is around them, unrolled     *)
(* loops aside.  It does not where a gate in the block reads a value that  *)
(* was there before (a scalar, the result of a call, the extract a         *)
(* subroutine was called on), nor where a subroutine is called in it.      *)
Home(op) == SelectSeq(op.region, LAMBDA r : r.kind \notin Counted)
BlocksAreSealed ==
  \A i \in {i \in DOMAIN unit.ops : Acts(unit.ops[i])} :
    /\ unit.ops[i].via = "subroutine" => Home(unit.ops[i]) = <<>>
    /\ \A k \in DOMAIN unit.ops[i].args :
         Home(unit.ops[unit.ops[i].args[k][1]]) = Home(unit.ops[i])

(* A gate or a measurement is on the qubits it reads.                      *)
IsOnItsQubits(ops) ==
  \A i \in {i \in DOMAIN ops : Acts(ops[i])} : \A k \in DOMAIN ops[i].args :
    LET from == ops[i].args[k]
    IN  /\ from[2] \in DOMAIN ops[from[1]].wires
        /\ ops[i].wires[k] = ops[from[1]].wires[from[2]]

(* What SimplifyQubitExtract gets and leaves: values are read after they   *)
(* are defined, and no gate is on the same qubit twice.                    *)
IsProgram(ops) ==
  /\ \A i \in DOMAIN ops :
       LET op == ops[i]
       IN  /\ DOMAIN op = {"kind", "region", "args", "known", "wires"}
           /\ op.args \in Seq((1 .. i - 1) \X Nat)
           /\ Acts(op) => DOMAIN op.wires = DOMAIN op.args
           /\ op.kind = "extract" => DOMAIN op.wires = {1}
           /\ op.kind = "gate" /\ Len(op.args) = 2 => op.wires[1] # op.wires[2]
  /\ IsOnItsQubits(ops)

(* SimplifyQubitExtract links gates anew, across what the front end had    *)
(* forgotten: each to a value defined before, of its own qubit, and none   *)
(* to the result of a gate in a block that is over.  It passes over no     *)
(* gate on the same qubit of the same region or of one just inside it.     *)
(* Gates of three qubits break its chains, measurements it does not see,   *)
(* and unknown indices it does not follow.                                 *)
SimplifiedLinksAreSound ==
  /\ IsProgram(compiled)
  /\ compiled # <<>> => IsProgram(Flattened(ModifierBlockInliner(unit.ops)))
  /\ BlocksAreSealed =>
       /\ IsDominated(compiled)
       /\ \A link \in {l \in Links(compiled) : IsSmall(compiled[l[1]])} :
            LET op     == compiled[link[1]]
                passed == {j \in Between(compiled, link) : ActsOn(compiled[j], op.wires[link[2]])}
            IN  (\A j \in passed : Len(compiled[j].args) <= 2) =>
                  \A j \in passed : \/ compiled[j].kind = "mz"
                                    \/ Len(compiled[j].region) > Len(op.region) + 1

(* The comment in SimplifyQubitExtractPass.cpp: when a child scope is      *)
(* accessing this qubit, the chain in the parent scope does not extend     *)
(* past this point.                                                        *)
LinksEndAtBlocks ==
  \A link \in {l \in Links(compiled) : IsSmall(compiled[l[1]])} :
    \A j \in Between(compiled, link) :
      ActsOn(compiled[j], compiled[link[1]].wires[link[2]]) =>
        Len(compiled[j].region) <= Len(compiled[link[1]].region)

(* What the pass is for, "fix up the SSA chain": two gates that follow     *)
(* each other on a qubit, in one region, are linked once the loops are     *)
(* unrolled, whatever made the front end extract the qubit again.          *)
NeighboursAreLinked ==
  BlocksAreSealed =>
  \A j \in {j \in DOMAIN compiled : IsSmall(compiled[j])} : \A k \in DOMAIN compiled[j].args :
    LET wire   == compiled[j].wires[k]
        before == {i \in 1 .. j - 1 : MayActOn(compiled[i], wire)}
        i      == Max(before)
        n      == CHOOSE n \in DOMAIN compiled[i].wires : compiled[i].wires[n] = wire
    IN  /\ before # {} /\ compiled[j].known[k]
        /\ ActsOn(compiled[i], wire) /\ compiled[i].region = compiled[j].region
        /\ \A m \in before : Len(compiled[m].args) <= 2
        /\ IsSmall(compiled[i])
        => compiled[j].args[k] = <<i, n>>

(* The comment on verify_qubit_ssa_dominance_property: a value a gate made *)
(* in a branch or a loop is not used outside it, so that the verifier      *)
(* takes the program.  Scalars and results of calls and of gates with      *)
(* modifiers are not checked.                                              *)
ValuesAreDominated ==
  \A i \in DOMAIN unit.ops : \A k \in DOMAIN unit.ops[i].args :
    LET from == unit.ops[unit.ops[i].args[k][1]]
    IN  from.kind \in {"call", "modified"} \/ unit.ops[i].on[k] = "s"
          \/ IsPrefix(from.region, unit.ops[i].region)

(* The descriptions of the regions in QuantumOps.td: gates under a         *)
(* modifier are repeated, controlled or inverted.  What takes their place  *)
(* does that to every state of the operands, wherever in a program; it is  *)
(* asked of programs of one statement.                                     *)
ModifiersAreKept ==
  length = 1 =>
    \A op \in {Last(unit.ops)} :
      IsModified(op) /\ Rules!IsInlined(op.modifiers, op.gates) =>
        Rules!MeansModified(op.modifiers, op.gates, DOMAIN op.args)
=============================================================================
