----------------------- MODULE ExtractSimplification -----------------------
(***************************************************************************)
(* configureRemoveUnusedPasses, on the operations of one unit: calls of    *)
(* gates and gates with modifiers are inlined, "for" loops and powers are  *)
(* unrolled, and SimplifyQubitExtract                                       *)
(* replaces later extracts of a qubit by the first and gives each gate the *)
(* last value of its qubits as operands.  A loop counts through the        *)
(* register, and no "for" is inside another.                               *)
(***************************************************************************)
EXTENDS ModifierInlining

(* createInlinerPass, createLoopUnrollPass. *)
Counted    == {"range", "set"}
CountedOf(op)  == {r \in Range(op.region) : r.kind \in Counted}
SameLoop(p, q) == CountedOf(p) # {} /\ CountedOf(p) = CountedOf(q)

(* The operations, each with the iteration it belongs to, when run. *)
Unrolling(ops) ==
  LET Body(i) == SelectSeq([m \in DOMAIN ops |-> m], LAMBDA m : SameLoop(ops[i], ops[m]))
      Round(body, k) == [m \in DOMAIN body |-> <<body[m], k - 1>>]
      Rounds(body) == FlattenSeq([k \in 1 .. RegisterSize |-> Round(body, k)])
  IN  FoldLeft(LAMBDA done, i : IF CountedOf(ops[i]) = {} THEN Append(done, <<i, 0>>)
                                ELSE IF SameLoop(ops[i], ops[i - 1]) THEN done
                                ELSE done \o Rounds(Body(i)),
               <<>>, [i \in DOMAIN ops |-> i])

(* The qubit is at an index the compiler knows: the elements of a set are  *)
(* loaded from memory, and are not.                                        *)
IsKnown(op, text) == text \in {"i", "n-i"} => \E r \in CountedOf(op) : r.kind = "range"

(* The body's own regions are new in every round. *)
PathIn(region, k) ==
  SelectSeq([d \in DOMAIN region |->
               [kind |-> region[d].kind,
                id   |-> <<region[d].id, IF \E c \in 1 .. d - 1 : region[c].kind \in Counted
                                         THEN k ELSE 0>>]],
            LAMBDA r : r.kind \notin Counted)
FlattenedAs(ops, order) ==
  LET placeOf == [p \in Range(order) |-> CHOOSE i \in DOMAIN order : order[i] = p]
      Moved(v, op, k) == <<placeOf[<<v[1], IF SameLoop(ops[v[1]], op) THEN k ELSE 0>>], v[2]>>
      Copy(op, k) ==
        [kind   |-> IF op.kind = "call" THEN "gate" ELSE op.kind,
         region |-> PathIn(op.region, k),
         args   |-> [n \in DOMAIN op.args |-> Moved(op.args[n], op, k)],
         known  |-> [n \in DOMAIN op.on |-> IsKnown(op, op.on[n])],
         wires  |-> [n \in DOMAIN op.on |-> WireOf(op.on[n], k)]]
  IN  [i \in DOMAIN order |-> Copy(ops[order[i][1]], order[i][2])]
Flattened(ops) == FlattenedAs(ops, Unrolling(ops))

(* The first walk.  "first" maps a region, a register and an index to the  *)
(* first extract, "same" an extract to the one that replaces it.  An       *)
(* extract in a region drops the index from the map of the region around.  *)
Place(op, region) == <<region, op.args[1], op.wires[1]>>

(* Mutant of Forgotten: the region around keeps its extract. *)
Remembered(first, op) == first
Forgotten(first, op) ==
  IF op.region = <<>> THEN first
  ELSE Restrict(first, DOMAIN first \ {Place(op, Front(op.region))})

VisitExtract(s, op, value) ==
  LET here == Place(op, op.region)
      seen == here \in DOMAIN s.first
  IN  IF op.kind # "extract" \/ ~ op.known[1] THEN s
      ELSE [first |-> Forgotten(IF seen THEN s.first ELSE Assigned(s.first, here, value), op),
            same  |-> IF seen THEN Assigned(s.same, value, s.first[here]) ELSE s.same]
Extracting(ops) ==
  LET upTo[i \in 0 .. Len(ops)] == IF i = 0 THEN [first |-> <<>>, same |-> <<>>]
                                   ELSE VisitExtract(upTo[i - 1], ops[i], <<i, 1>>)
  IN  upTo
FirstExtracts(ops) == Extracting(ops)[Len(ops)].same
Renamed(ops, same) ==
  [i \in DOMAIN ops |-> [ops[i] EXCEPT !.args = [k \in DOMAIN @ |->
     IF @[k] \in DOMAIN same THEN same[@[k]] ELSE @[k]]]]

(* The second walk, over the gates of one and two wires: "root" maps a     *)
(* value to the first value of its chain, "last" that one to its last.     *)
RootOf(s, value) == IF value \in DOMAIN s.root THEN s.root[value] ELSE value
LastOf(s, value) == IF value \in DOMAIN s.root THEN s.last[s.root[value]] ELSE value

(* Gate i takes the last value of the chain "value" is of as operand k. *)
Joined(s, i, k, value) ==
  [ops  |-> [s.ops EXCEPT ![i].args[k] = LastOf(s, value)],
   root |-> Assigned(Assigned(s.root, value, RootOf(s, value)), <<i, k>>, RootOf(s, value)),
   last |-> Assigned(s.last, RootOf(s, value), <<i, k>>)]

(* Mutant of VisitGate: gates of two wires are passed over. *)
VisitOneWire(s, i) ==
  LET args == s.ops[i].args
  IN  IF s.ops[i].kind # "gate" \/ Len(args) # 1 THEN s ELSE Joined(s, i, 1, args[1])
VisitGate(s, i) ==
  LET args == s.ops[i].args
  IN  CASE s.ops[i].kind = "gate" /\ Len(args) = 1 -> Joined(s, i, 1, args[1])
        [] s.ops[i].kind = "gate" /\ Len(args) = 2 ->
             Joined(Joined(s, i, 1, args[1]), i, 2, args[2])
        [] OTHER -> s
Linking(ops) ==
  LET upTo[i \in 0 .. Len(ops)] == IF i = 0 THEN [ops |-> ops, root |-> <<>>, last |-> <<>>]
                                   ELSE VisitGate(upTo[i - 1], i)
  IN  upTo
Linked(ops) == Linking(ops)[Len(ops)].ops

SimplifyQubitExtract(ops) == Linked(Renamed(ops, FirstExtracts(ops)))
configureRemoveUnusedPasses(ops) == SimplifyQubitExtract(Flattened(ModifierBlockInliner(ops)))
=============================================================================
