-------------------------- MODULE ModifierInlining --------------------------
(***************************************************************************)
(* ModifierBlockInlinerPass, on the values of one unit.  A gate with       *)
(* modifiers takes and returns its operands; the gates that replace it are *)
(* linked to each other, to what is before and to what is after:           *)
(*   pow   every round starts from the operands, and what comes after too; *)
(*   ctrl  what returns the control takes its place in all of the unit;    *)
(*   inv   what the inverse of the last gate returns is handed on.         *)
(***************************************************************************)
EXTENDS QubitSymbols

Rules == INSTANCE ModifierRules

IsModified(op)   == op.kind = "modified"
IsPowered(op)    == IsModified(op) /\ Rules!IsPowered(op.modifiers)
IsControlled(op) == IsModified(op) /\ Rules!Has(op.modifiers, "ctrl")

(* Everybody but operation i reads one value for the other. *)
ReplaceUses(ops, old, new, i) ==
  [j \in DOMAIN ops |-> [ops[j] EXCEPT !.args = [k \in DOMAIN @ |->
     IF @[k] = old /\ j # i THEN new ELSE @[k]]]]

handlePowU(ops) ==
  LET Skipped(u, i) == IF ~ IsPowered(u[i]) THEN u
                       ELSE FoldLeft(LAMBDA v, k : ReplaceUses(v, <<i, k>>, v[i].args[k], i),
                                     u, [k \in DOMAIN u[i].args |-> k])
  IN  FoldLeft(Skipped, ops, [i \in DOMAIN ops |-> i])
handleCtrlU(ops) ==
  FoldLeft(LAMBDA u, i : IF IsControlled(u[i]) THEN ReplaceUses(u, u[i].args[1], <<i, 1>>, i) ELSE u,
           ops, [i \in DOMAIN ops |-> i])

(* Gate n of an operation that is replaced; the gates of its rounds.       *)
RoundOf(op) == IF IsModified(op) THEN Rules!Round(op.modifiers, op.gates) ELSE <<>>
Using(round, place)  == {n \in DOMAIN round : place \in Range(round[n].wires)}
ResultOf(round, n, place) ==
  <<n, CHOOSE k \in DOMAIN round[n].wires : round[n].wires[k] = place>>
(* What a later reader of the operation gets; the inverse's order is that  *)
(* of its new gates, and it hands on what the first of them returns.       *)
Returned(op, round, place) ==
  LET uses == Using(round, place)
  IN  ResultOf(round, IF Rules!Has(op.modifiers, "inv") THEN Min(uses) ELSE Max(uses), place)

(* Where the gates go: every operation of the unit in its place.           *)
Inlining(ops) ==
  FlattenSeq([i \in DOMAIN ops |->
    IF IsModified(ops[i]) THEN [n \in 1 .. Len(RoundOf(ops[i])) * Rules!Rounds(ops[i].modifiers) |-> <<i, n>>]
                          ELSE <<<<i, 1>>>>])
InlinedAs(ops, order) ==
  LET placeOf == [p \in Range(order) |-> CHOOSE i \in DOMAIN order : order[i] = p]
      rounds  == [i \in DOMAIN ops |-> RoundOf(ops[i])]
      Value(i, result) == <<placeOf[<<i, result[1]>>], result[2]>>
      Outer(v) == IF IsModified(ops[v[1]])
                  THEN Value(v[1], Returned(ops[v[1]], rounds[v[1]], v[2]))
                  ELSE <<placeOf[<<v[1], 1>>], v[2]>>
      Gate(op, i, n) ==
        LET round  == rounds[i]
            at     == ((n - 1) % Len(round)) + 1
            places == round[at].wires
            Read(place) ==
              LET before == {m \in Using(round, place) : m < at}
                  result == ResultOf(round, Max(before), place)
              IN  IF before = {} THEN Outer(op.args[place])
                  ELSE Value(i, <<result[1] + n - at, result[2]>>)
        IN  [kind |-> "gate", region |-> op.region, via |-> op.via,
             args |-> [k \in DOMAIN places |-> Read(places[k])],
             on   |-> [k \in DOMAIN places |-> op.on[places[k]]]]
      Moved(op, i, n) == IF IsModified(op) THEN Gate(op, i, n)
                         ELSE [op EXCEPT !.args = [k \in DOMAIN @ |-> Outer(@[k])]]
  IN  [p \in DOMAIN order |-> Moved(ops[order[p][1]], order[p][1], order[p][2])]

Rewired(ops) == handleCtrlU(handlePowU(ops))
HasModifiers(ops) == \E i \in DOMAIN ops : IsModified(ops[i])
ModifierBlockInliner(ops) ==
  IF HasModifiers(ops) THEN InlinedAs(Rewired(ops), Inlining(ops)) ELSE ops

(* All modifiers are gone, and the verifier takes what is left: a value is *)
(* read after the operation that defines it, and outside a loop only if it *)
(* is not defined in there.                                                *)
IsFlattened(ops) ==
  HasModifiers(ops) =>
    LET wired == Rewired(ops)
    IN  /\ \A i \in DOMAIN ops : IsModified(ops[i]) => Rules!IsInlined(ops[i].modifiers, ops[i].gates)
        /\ \A i \in DOMAIN ops : \A k \in DOMAIN ops[i].args :
             LET from == wired[i].args[k][1] IN from < i /\ ~ IsPowered(ops[from])
=============================================================================
