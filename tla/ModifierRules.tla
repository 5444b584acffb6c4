--------------------------- MODULE ModifierRules ---------------------------
(***************************************************************************)
(* ModifierBlockInlinerPass, gate by gate: the gates that take the place   *)
(* of a gate with modifiers.  The gates under the modifiers are given on   *)
(* the places 1, 2, ... of their operands; what replaces them is given on  *)
(* the places of the modified gate's operands, a control first.            *)
(*                                                                         *)
(* Modifiers are listed as they are written, the outermost first:          *)
(* [kind |-> "ctrl"], [kind |-> "inv"], [kind |-> "pow", times |-> k].     *)
(***************************************************************************)
EXTENDS GateMeaning

CPhase(l, c, q) == Gate("cphase", <<c, q>>, <<l>>)

(* applyControlledQuantumOp; a is the control. *)
ControlledPauli(name, a, b) == CASE name = "x" -> <<Cx(a, b)>>
                                 [] name = "y" -> <<Sdg(b), Cx(a, b), S(b)>>
                                 [] name = "z" -> <<H(b), Cx(a, b), H(b)>>
ControlledH(a, b) ==
  <<H(b), Sdg(b), Cx(a, b), H(b), T(b), Cx(a, b), T(b), H(b), S(b), X(b), S(a)>>
ControlledPhase(name, a, b) ==
  <<CPhase(CASE name = "t" -> Pi \div 4  [] name = "tdg" -> -(Pi \div 4)
             [] name = "s" -> Pi \div 2  [] name = "sdg" -> -(Pi \div 2), a, b)>>
ControlledRotation(name, l, a, b) ==
  LET Turn(k) == Gate(name, <<b>>, <<k>>)
  IN  <<Turn(l \div 2), Cx(a, b), Turn(-(l \div 2)), Cx(a, b)>>
ControlledCx(a, b, c) ==
  <<H(c), Cx(b, c), Tdg(c), Cx(a, c), T(c), Cx(b, c), Tdg(c), Cx(a, c), T(b), T(c), H(c),
    Cx(a, b), T(a), Tdg(b), Cx(a, b)>>
ControlledCPhase(l, a, b, c) ==
  <<CPhase(l \div 2, a, b), Cx(b, c), CPhase(-(l \div 2), a, c), Cx(b, c), CPhase(l \div 2, a, c)>>

Rotations == {"rx", "ry", "rz"}
applyControlledQuantumOp(g) ==
  LET w == g.wires
      l == g.args[1]
  IN  CASE g.name \in {"x", "y", "z"}             -> ControlledPauli(g.name, 1, w[1])
        [] g.name = "h"                           -> ControlledH(1, w[1])
        [] g.name \in {"t", "tdg", "s", "sdg"}    -> ControlledPhase(g.name, 1, w[1])
        [] g.name \in Rotations                   -> ControlledRotation(g.name, l, 1, w[1])
        [] g.name = "cx"                          -> ControlledCx(1, w[1], w[2])
        [] g.name = "cphase"                      -> ControlledCPhase(l, 1, w[1], w[2])

(* The rules that write an angle put a constant beside the gates. *)
WritesConstant(g) == g.name \in {"t", "tdg", "s", "sdg", "cphase"} \cup Rotations

(* handleCtrlU.  The control comes before the operands of the gates. *)
Controls(gates) ==
  FlattenSeq([i \in DOMAIN gates |->
    applyControlledQuantumOp([gates[i] EXCEPT !.wires = [k \in DOMAIN @ |-> @[k] + 1]])])

(* handleAdjU.  GATE_MAPPING; an angle is negated. *)
createInvGate(g) ==
  [g EXCEPT !.name = CASE @ = "t" -> "tdg" [] @ = "tdg" -> "t" [] @ = "s" -> "sdg"
                       [] @ = "sdg" -> "s" [] OTHER -> @,
            !.args = [k \in DOMAIN @ |-> -@[k]]]
(* Mutant of Inverted: the gates stay in their order. *)
InvertedInPlace(gates) == [i \in DOMAIN gates |-> createInvGate(gates[i])]
Inverted(gates)        == Reverse([i \in DOMAIN gates |-> createInvGate(gates[i])])

-----------------------------------------------------------------------------
(* The handlers run one after the other, over all of the module: pow,      *)
(* ctrl, inv.  A region that is replaced is erased at the end of its       *)
(* handler only.  So a region around one of the same kind, and a region    *)
(* around a loop or around a constant, is not the plain sequence of gates  *)
(* its handler wants.  It stays, for a runtime that repeats, controls or   *)
(* inverts what is called in it (the stub in this repository does not).    *)
IsPowered(modifiers) == modifiers # <<>> /\ modifiers[1].kind = "pow"
Kinds(modifiers)     == [i \in DOMAIN modifiers |-> modifiers[i].kind]
Inside(modifiers)    == IF IsPowered(modifiers) THEN Tail(Kinds(modifiers)) ELSE Kinds(modifiers)
IsInlined(modifiers, gates) ==
  \/ Inside(modifiers) \in {<<>>, <<"ctrl">>, <<"inv">>}
  \/ Inside(modifiers) = <<"inv", "ctrl">> /\ \A i \in DOMAIN gates : ~ WritesConstant(gates[i])

Has(modifiers, kind) == kind \in ToSet(Inside(modifiers))
Rounds(modifiers)    == IF IsPowered(modifiers) THEN modifiers[1].times ELSE 1
Round(modifiers, gates) ==
  LET controlled == IF Has(modifiers, "ctrl") THEN Controls(gates) ELSE gates
  IN  IF Has(modifiers, "inv") THEN Inverted(controlled) ELSE controlled
InlinedGates(modifiers, gates) ==
  FlattenSeq([k \in 1 .. Rounds(modifiers) |-> Round(modifiers, gates)])

-----------------------------------------------------------------------------
(* What QuantumOps.td says of the regions: the gates are repeated a set    *)
(* number of times; their controlled version is applied; their adjoint is. *)
ControlledMeaning(gates, psi) ==
  LET targets == UNION {b \ {1} : b \in DOMAIN psi}
      acted   == After([i \in DOMAIN gates |-> [gates[i] EXCEPT !.wires = [k \in DOMAIN @ |-> @[k] + 1]]],
                       [b \in SUBSET targets |-> psi[b \cup {1}]])
  IN  [b \in DOMAIN psi |-> IF 1 \in b THEN acted[b \ {1}] ELSE psi[b]]
Repeated(modifiers, gates, psi) ==
  FoldLeft(LAMBDA phi, k : (IF Has(modifiers, "ctrl") THEN ControlledMeaning(gates, phi)
                                                      ELSE After(gates, phi)) @@ <<>>,
           psi, [k \in 1 .. Rounds(modifiers) |-> k])
MeansModified(modifiers, gates, places) ==
  \A psi \in StartStates(places) :
    LET inlined == InlinedGates(modifiers, gates)
    IN  IF Has(modifiers, "inv")
        THEN SameUpToPhase(psi, Repeated(modifiers, gates, After(inlined, psi)))
        ELSE SameUpToPhase(Repeated(modifiers, gates, psi), After(inlined, psi))
=============================================================================
