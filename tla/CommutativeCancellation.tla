---------------------- MODULE CommutativeCancellation ----------------------
(***************************************************************************)
(* CommutativeCancellationPass: along every wire the gates are put into    *)
(* groups of gates that commute with each other; of the equal gates of a   *)
(* group pairs are deleted, its rotations are added up.                    *)
(***************************************************************************)
EXTENDS GateChains

ForwardOrReverse(p, q) == p < q      \* wires of one register, in its order
ControlledPauli == {"cx", "cy", "cz"}

(* The wires of a two-wire gate on the places base and base + 1: where the *)
(* kronecker product with an identity puts it.                             *)
Placed(g, base) == LET low == Min(WiresIn(g))
                   IN  [g EXCEPT !.wires = [k \in 1 .. 2 |-> IF @[k] = low THEN base ELSE base + 1]]

(* Two gates that share the wire s only, the other ends p and r: the       *)
(* products are taken as if s lay between them.                            *)
ChainCommutes(g, h, p, r, s) ==
  /\ ForwardOrReverse(p, s) = ForwardOrReverse(p, r)
  /\ LET base == IF ForwardOrReverse(p, s) THEN 0 ELSE 1
     IN  OrderIsFree(Placed(g, base), Placed(h, 1 - base))

CommutationChecker(g, h) ==
  LET u == g.wires
      v == h.wires
  IN  CASE g.name = "cx" /\ h.name = "cx" -> u[1] # v[2] /\ v[1] # u[2]
        [] "unitary" \in {g.name, h.name} -> FALSE      \* what resynthesis wrote is not looked into
        [] (g.name # "cx" \/ h.name # "cx")
           /\ (OnOneWire(g) \/ OnOneWire(h) \/ WiresIn(g) = WiresIn(h)) -> OrderIsFree(g, h)
        [] OTHER ->
             CASE u[1] = v[1] -> {g.name, h.name} \subseteq ControlledPauli
               [] u[2] = v[2] -> g.name = h.name /\ g.name \in ControlledPauli
               [] OTHER -> \E k \in 1 .. 2 :
                    u[k] = v[3 - k] /\ ChainCommutes(g, h, u[3 - k], v[k], u[k])

-----------------------------------------------------------------------------
(* getGateCountAndTopOp: the gates that take a wire from an extract. *)
Starts(gates, i) == {w \in WiresIn(gates[i]) : Owner(gates, i, w) = 0}
TopOps(gates) == Ascending(gates, {i \in DOMAIN gates : IsValue(gates[i]) /\ Starts(gates, i) # {}})

(* deal_topop: the chains <<first gate, wire>> in the order of their wires. *)
(* A chain ends at a measurement, and no other begins behind it.            *)
deal_topop(gates) ==
  LET Insert(chains, i, w) ==
        LET behind == {k \in DOMAIN chains : ForwardOrReverse(w, chains[k][2])}
            at     == IF behind = {} THEN Len(chains) + 1 ELSE Min(behind)
        IN  SubSeq(chains, 1, at - 1) \o << <<i, w>> >> \o SubSeq(chains, at, Len(chains))
      Step(chains, i) ==
        FoldLeft(LAMBDA cs, w : IF ~ OnOneWire(gates[i]) /\ \E k \in DOMAIN cs : cs[k][2] = w
                                THEN cs ELSE Insert(cs, i, w), chains, gates[i].wires)
  IN  FoldLeft(Step, <<>>, TopOps(gates))

(* findcommutativegate: a gate joins the group it commutes with all of.    *)
Groups(gates, chain) ==
  LET Step(groups, j) ==
        IF groups # <<>> /\ \A k \in ToSet(Last(groups)) : CommutationChecker(gates[j], gates[k])
        THEN [groups EXCEPT ![Len(groups)] = Append(@, j)]
        ELSE Append(groups, <<j>>)
  IN  FoldLeft(Step, <<>>, chain)

(* The groups of every chain, with its wire. *)
Grouped(gates, chains) ==
  [c \in DOMAIN chains |-> [wire   |-> chains[c][2],
                            groups |-> Groups(gates, ChainFrom(gates, chains[c][1], chains[c][2]))]]

(* CommutationGroupIndex: a gate's group number on a wire, 0 if the wire's *)
(* chain has ended before the gate.                                        *)
GroupIndex(grouped, i, w) ==
  LET found == UNION { {n \in DOMAIN grouped[c].groups : i \in ToSet(grouped[c].groups[n])} :
                       c \in {c \in DOMAIN grouped : grouped[c].wire = w} }
  IN  IF found = {} THEN 0 ELSE Min(found)

-----------------------------------------------------------------------------
(* total_angle *)
RotationAngle(g) == CASE g.name \in {"z", "x"} -> Pi
                      [] g.name = "t" -> Pi \div 4
                      [] g.name = "s" -> Pi \div 2
                      [] OTHER -> g.args[1]
fmodTurn(a) == IF a >= 0 THEN a % (2 * Pi) ELSE -((-a) % (2 * Pi))
total_angle(gates, ops) ==
  fmodTurn(FoldLeft(LAMBDA sum, i : sum + RotationAngle(gates[i]), 0, ops))

z_rotation == {"p", "z", "u1", "rz", "t", "s"}
x_rotation == {"rx", "x"}
Those(gates, group, names) == SelectSeq(group, LAMBDA i : gates[i].name \in names)

(* delete_gate: an even number goes, of an odd number the last one stays.  *)
delete_gate(ops) == IF Len(ops) < 2 THEN {}
                    ELSE ToSet(SubSeq(ops, 1, (Len(ops) \div 2) * 2))

(* deal_2gates: the gates of one kind whose first wire is w are taken      *)
(* together while they have the same wires and the same group number on    *)
(* the other wire.                                                         *)
Batches(gates, group, name, w, Number) ==
  LET mine  == SelectSeq(group, LAMBDA i : gates[i].name = name /\ gates[i].wires[1] = w)
      Before(i) == {j \in ToSet(mine) : j < i /\ gates[j].wires = gates[i].wires}
      Same(i, j) == /\ gates[i].wires = gates[j].wires /\ Number[i] = Number[j]
                    /\ \A k \in ToSet(mine) : i < k /\ k < j /\ gates[k].wires = gates[i].wires
                                               => Number[k] = Number[i]
  IN  { SelectSeq(mine, LAMBDA j : j = i \/ (i < j /\ Same(i, j))) :
          i \in {i \in ToSet(mine) : Before(i) = {} \/ ~ Same(Max(Before(i)), i)} }

(* What is deleted, what the last rotation of a group becomes, and whether *)
(* a group number was looked up in vain (std::out_of_range).               *)
Cancelled(gates, grouped) ==
  LET big    == UNION { { <<ops, grouped[c].wire>> :
                            ops \in {g \in ToSet(grouped[c].groups) : Len(g) > 1} } :
                        c \in DOMAIN grouped }
      asked  == UNION { LET two == Those(gates, p[1], {name})
                        IN  IF Len(two) < 2 THEN {}
                            ELSE {i \in ToSet(two) : gates[i].wires[1] = p[2]} :
                        p \in big, name \in ControlledPauli }
      number == [i \in asked |-> GroupIndex(grouped, i, gates[i].wires[2])]
      pairs  == UNION { Batches(gates, SelectSeq(p[1], LAMBDA i : gates[i].name # name \/ i \in asked),
                                name, p[2], number) :
                        p \in big, name \in ControlledPauli }
      alike  == {Those(gates, p[1], {name}) : p \in big, name \in {"h", "y"}}
      turns  == {t \in {<<Those(gates, p[1], z_rotation), "rz">> : p \in big} \cup
                       {<<Those(gates, p[1], x_rotation), "rx">> : p \in big} :
                   Len(t[1]) > 1}
      dead   == UNION {delete_gate(ops) : ops \in pairs \cup alike}
                  \cup UNION {ToSet(Front(t[1])) : t \in turns}
      Merged(i) == LET t == CHOOSE t \in turns : Last(t[1]) = i
                   IN  Gate(t[2], gates[i].wires, <<total_angle(gates, t[1])>>)
      turned == [i \in DOMAIN gates |->
                   IF \E t \in turns : Last(t[1]) = i THEN Merged(i) ELSE gates[i]]
  IN  [crash |-> \E i \in asked : number[i] = 0, gates |-> Erase(turned, dead)]

(* The pass. *)
CommutativeCancellation(gates) == Cancelled(gates, Grouped(gates, deal_topop(gates)))
=============================================================================
