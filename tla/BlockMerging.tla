---------------------------- MODULE BlockMerging ----------------------------
(***************************************************************************)
(* ConsolidateBlocks: around every two-wire gate a block of gates on its   *)
(* two wires is collected, multiplied out and written again where that is  *)
(* shorter; so are the runs of one-wire gates that no block took.  What    *)
(* the numerical decomposition writes is one gate here that carries the    *)
(* product.  Gates are named by their place in the program ("location").   *)
(***************************************************************************)
EXTENDS PairCancellation

KakLeast  == 5      \* a decomposition has at least five gates
BlockSize == 20     \* a longer block is written again whatever comes of it

Backward == 0       \* owner_or_user
Forward  == 1
Neighbour(gates, i, w, dir) ==
  IF dir = Backward THEN Owner(gates, i, w) ELSE NextGate(gates, i, w)
Wire(gates, i) == gates[i].wires[1]

(* find_runs: one-wire gates beyond i that bear no label "onebit" yet.     *)
Beyond(gates, i, w, dir) ==
  IF dir = Forward THEN Tail(ChainFrom(gates, i, w))
  ELSE Reverse(Ascending(gates, {j \in 1 .. i - 1 : IsValue(gates[j]) /\ w \in WiresIn(gates[j])}))
UpTo(beyond, ends) == IF ends = {} THEN beyond ELSE SubSeq(beyond, 1, Min(ends) - 1)
OpenGates(gates, beyond, onebit) ==
  UpTo(beyond, {k \in DOMAIN beyond : ~ OnOneWire(gates[beyond[k]]) \/ beyond[k] \in onebit})
find_runs(gates, i, dir, onebit) ==
  LET found == OpenGates(gates, Beyond(gates, i, Wire(gates, i), dir), onebit)
  IN  IF dir = Backward THEN Reverse(found) ELSE found

(* The runs of the whole program, in the order of their first gates. *)
AllRuns(gates) ==
  LET Step(runs, i) ==
        LET labelled == UNION {ToSet(runs[r]) : r \in DOMAIN runs}
        IN  IF ~ IsValue(gates[i]) \/ ~ OnOneWire(gates[i]) \/ i \in labelled THEN runs
            ELSE Append(runs, find_runs(gates, i, Backward, labelled) \o <<i>>
                                \o find_runs(gates, i, Forward, labelled))
  IN  FoldLeft(Step, <<>>, [i \in DOMAIN gates |-> i])

-----------------------------------------------------------------------------
(* find_blocks.  Its state: the block, the outermost gates "side", the     *)
(* gates already "selected" by a block or labelled "onebit", and the gate  *)
(* from which the search goes on, 0 if it does not.                        *)
Meets(gates, op, s, dir) ==         \* op feeds gate s, or reads from it
  {w \in WiresIn(gates[op]) \cap WiresIn(gates[s]) :
     IF dir = Backward THEN Owner(gates, s, w) = op ELSE Owner(gates, op, w) = s}

judge_same_index(gates, state, op, wires, dir) ==
  /\ op \notin state.selected
  /\ \/ OnOneWire(gates[op])
     \/ /\ WiresIn(gates[op]) = wires
        /\ wires = UNION {Meets(gates, op, s, dir) : s \in {state.side[1], Last(state.side)}}

update_sideop(gates, side, op, dir) ==
  LET Touches(s) == Meets(gates, op, s, dir) # {}
      Replaced == {k \in 1 .. 2 : IF \E j \in 1 .. 2 : Touches(side[j]) THEN Touches(side[k])
                                  ELSE ~ OnOneWire(gates[side[k]])}
  IN  CASE ~ OnOneWire(gates[op]) -> <<op>>
        [] OnOneWire(gates[op]) /\ Len(side) = 1 -> Append(side, op)
        [] OTHER -> [k \in 1 .. 2 |-> IF k \in Replaced THEN op ELSE side[k]]

(* The list of gates next to "at" on a wire: the neighbour, and the other  *)
(* one-wire gates beyond it.                                               *)
ListAt(gates, n, dir, onebit) ==
  IF n = 0 THEN <<>>
  ELSE IF ~ OnOneWire(gates[n]) THEN <<n>>
  ELSE IF dir = Backward THEN Append(find_runs(gates, n, dir, onebit), n)
  ELSE <<n>> \o find_runs(gates, n, dir, onebit)

(* The two lists in order: those of the lower wire first, a two-wire gate  *)
(* once, and behind a list of one-wire gates.                              *)
LowerFirst(wires, lists) ==
  IF Len(lists) = 2 /\ wires[1] > wires[2] THEN Reverse(lists) ELSE lists
OneWireFirst(gates, lists) ==
  IF Len(lists) = 2 /\ ~ OnOneWire(gates[lists[1][1]]) /\ OnOneWire(gates[lists[2][1]])
  THEN Reverse(lists) ELSE lists
Once(lists) == IF Len(lists) = 2 /\ lists[1] = lists[2] THEN <<lists[1]>> ELSE lists
Lists(gates, state, dir) ==
  LET wires == gates[state.at].wires
      lists == [k \in DOMAIN wires |->
                  ListAt(gates, Neighbour(gates, state.at, wires[k], dir), dir, state.onebit)]
  IN  OneWireFirst(gates, SelectSeq(LowerFirst(wires, Once(lists)), LAMBDA l : l # <<>>))

Outer(list, dir) == IF dir = Backward THEN list[1] ELSE Last(list)
Inner(list, dir) == IF dir = Backward THEN Front(list) ELSE Tail(list)
Take(gates, wires, dir, s, list) ==
  IF ~ judge_same_index(gates, s, list[1], wires, dir) THEN s
  ELSE [s EXCEPT !.block    = IF dir = Backward THEN list \o @ ELSE @ \o list,
                 !.selected = @ \cup ToSet(list),
                 !.side     = update_sideop(gates, @, Outer(list, dir), dir),
                 !.taken    = Append(@, Outer(list, dir))]

(* Where the search goes on. *)
GoOn(gates, wires, dir, s) ==
  LET next == [k \in DOMAIN s.taken |-> Neighbour(gates, s.taken[k], Wire(gates, s.taken[k]), dir)]
  IN  CASE Len(s.taken) = 0 -> 0
        [] Len(s.taken) = 1 -> s.taken[1]
        [] Len(s.taken) = 2 /\ Len(s.side) = 1 -> s.taken[2]
        [] OTHER -> IF \A k \in 1 .. 2 : /\ next[k] # 0
                                         /\ judge_same_index(gates, s, next[k], wires, dir)
                    THEN s.taken[1] ELSE 0
MoveTo(s, gate) == [s EXCEPT !.at = gate]
Moved(gates, wires, dir, s) == MoveTo(s, GoOn(gates, wires, dir, s))

(* One call: find_runs labels what it found, and the lists are taken.      *)
Labelled(s, lists, dir) ==
  [s EXCEPT !.taken = <<>>,
            !.onebit = @ \cup UNION {ToSet(Inner(lists[k], dir)) : k \in DOMAIN lists}]
Grow(gates, wires, dir, s, lists) ==
  Moved(gates, wires, dir, FoldLeft(LAMBDA u, list : Take(gates, wires, dir, u, list),
                                    Labelled(s, lists, dir), lists))
find_blocks(gates, wires, dir, start) ==
  FoldLeft(LAMBDA s, k : IF s.at = 0 THEN s ELSE Grow(gates, wires, dir, s, Lists(gates, s, dir)),
           start, gates)

(* The block around a two-wire gate, backwards first. *)
BlockAround(gates, i, s) ==
  FoldLeft(LAMBDA u, dir : find_blocks(gates, WiresIn(gates[i]), dir,
                                       [u EXCEPT !.side = <<i>>, !.at = i, !.taken = <<>>]),
           [block |-> <<i>>, side |-> <<i>>, at |-> i, taken |-> <<>>,
            selected |-> s.selected \cup {i}, onebit |-> s.onebit],
           <<Backward, Forward>>)

(* The blocks of the program, around each two-wire gate no block has yet. *)
WithBlock(s, found) == [blocks   |-> Append(s.blocks, found.block),
                        selected |-> found.selected, onebit |-> found.onebit]
AllBlocks(gates) ==
  FoldLeft(LAMBDA s, i : IF ~ IsValue(gates[i]) \/ OnOneWire(gates[i]) \/ i \in s.selected
                         THEN s ELSE WithBlock(s, BlockAround(gates, i, s)),
           [blocks |-> <<>>, selected |-> {}, onebit |-> {}],
           [i \in DOMAIN gates |-> i]).blocks

-----------------------------------------------------------------------------
(* totalMat, with the matrices getGateMat(op, i) returns: that of cp turns *)
(* the other way.                                                          *)
MatrixOf(g) == IF g.name = "cp" THEN [g EXCEPT !.args = <<-g.args[1]>>] ELSE g
totalMat(gates, block) == Fused([k \in DOMAIN block |-> MatrixOf(gates[block[k]])])

(* find_first_last: the gates of the block that have its wires first (or   *)
(* last), the one of a single wire in front.                               *)
find_first_last(gates, block) ==
  LET one    == block[1]
      others == {k \in DOMAIN block : ~ WiresIn(gates[block[k]]) \subseteq WiresIn(gates[one])}
  IN  IF ~ OnOneWire(gates[one]) THEN <<one>> ELSE <<one, block[Min(others)]>>

(* find_input_param asks an index that was never set where the two-wire    *)
(* gate has its wires in reverse, and takes both inputs from one wire if   *)
(* the gate in front is on the lower one: the second is a result of that   *)
(* gate, which is then erased.                                             *)
InputIsErased(gates, block) ==
  LET first == find_first_last(gates, block)
      two   == gates[Last(first)].wires
  IN  Len(first) = 2 /\ Len(two) = 2 /\ two[1] > two[2] /\ gates[first[1]].wires = <<two[2]>>

(* creat_new_gate writes behind the earlier of the two last gates. *)
InsertedAfter(gates, block) == Min(ToSet(find_first_last(gates, Reverse(block))))

(* kak_decompose_u3: which blocks may be written again, and which must be. *)
MayBeShorter(block)  == Len(block) > KakLeast
MustBeWritten(block) == Len(block) > BlockSize

(* The program when the blocks "chosen" and the runs in DOMAIN seqs are    *)
(* written again, a run behind its last gate.                              *)
Rewritten(gates, blocks, runs, chosen, seqs) ==
  LET gone  == UNION ({ToSet(blocks[b]) : b \in chosen} \cup {ToSet(runs[r]) : r \in DOMAIN seqs})
      Blocks(i) == SelectSeq(blocks, LAMBDA block : /\ \E b \in chosen : blocks[b] = block
                                                   /\ InsertedAfter(gates, block) = i)
      Runs(i)   == {r \in DOMAIN seqs : Last(runs[r]) = i}
      At(i)     == (IF i \in gone THEN <<>> ELSE <<gates[i]>>)
                     \o [k \in DOMAIN Blocks(i) |-> totalMat(gates, Blocks(i)[k])]
                     \o (IF Runs(i) = {} THEN <<>> ELSE seqs[CHOOSE r \in Runs(i) : TRUE])
  IN  [gates |-> FlattenSeq([i \in DOMAIN gates |-> At(i)]),
       crash |-> \/ \E b \in chosen : \/ InputIsErased(gates, blocks[b])
                                       \/ CutsMeasurement(gates, ToSet(blocks[b]))
                 \/ \E r \in DOMAIN seqs : CutsMeasurement(gates, ToSet(runs[r]))]

(* The runs that no chosen block shares a gate with, each left as it is or *)
(* written as in SingleQubitGateMergingPass.                               *)
OpenRuns(blocks, runs, chosen) ==
  {r \in DOMAIN runs : /\ Len(runs[r]) > 1
                       /\ \A b \in chosen : ToSet(runs[r]) \cap ToSet(blocks[b]) = {}}
RunWritten(B, seqs, r, ops) ==
  {IF seq = ops THEN seqs ELSE seqs @@ (r :> seq) : seq \in new_euler_decompose(B, ops)}
RunsWritten(B, gates, runs, open) ==
  FoldLeft(LAMBDA written, r :
             IF r \notin open THEN written
             ELSE UNION {RunWritten(B, seqs, r, [k \in DOMAIN runs[r] |-> gates[runs[r][k]]]) :
                           seqs \in written},
           {<<>>}, [r \in DOMAIN runs |-> r])

(* The pass: the programs it may return, whichever blocks have a shorter   *)
(* decomposition.                                                          *)
Consolidated(B, gates, blocks, runs) ==
  LET may  == {b \in DOMAIN blocks : MayBeShorter(blocks[b])}
      must == {b \in may : MustBeWritten(blocks[b])}
  IN  UNION { {Rewritten(gates, blocks, runs, chosen, seqs) :
                 seqs \in RunsWritten(B, gates, runs, OpenRuns(blocks, runs, chosen))} :
                chosen \in {must \cup more : more \in SUBSET (may \ must)} }
ConsolidateBlocks(B, gates) == Consolidated(B, gates, AllBlocks(gates), AllRuns(gates))
=============================================================================
