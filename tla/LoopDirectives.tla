--------------------------- MODULE LoopDirectives ---------------------------
(***************************************************************************)
(* Which gates of a program with break and continue are executed.  There   *)
(* are no jumps in the dialects the front end writes: a directive clears   *)
(* flags of its loop, and code that it would have jumped over is put under *)
(* conditions that read them.  The program is run both ways, for every     *)
(* outcome of its own conditions, and the loops unrolled.                  *)
(***************************************************************************)
EXTENDS QasmFrontEnd

Directive(op) == op.kind \in {"break", "continue"}
LoopOf(op)    == {r.id : r \in CountedOf(op)}
Conditions(ops) == {r.id : r \in {r \in UNION {Range(ops[i].region) : i \in DOMAIN ops} : r.kind = "if"}}
(* What the program's conditions are, in each round. *)
Outcomes(ops) == [Conditions(ops) \X (0 .. RegisterSize - 1) -> BOOLEAN]
Holds(outcome, r, k) == r.kind = "if" /\ r.condition = "program" => outcome[r.id, k]

(* The translated program.  A flag is read where a region begins.          *)
(* executeWholeLoop and executeThisBlock are set before the loop.          *)
Cleared(s, flag, op) == flag = "program" \/ (LoopOf(op) \X {flag}) \cap s.cleared = {}

Clears(op) == CASE op.kind = "break"    -> {"whole", "block"}
                [] op.kind = "continue" -> {"block"}
                [] OTHER                -> {}
Run(ops, outcome) ==
  LET Entered(s, op, k) ==
        {<<r.id, k>> : r \in {r \in Range(op.region) : Holds(outcome, r, k) /\ Cleared(s, r.condition, op)}}
      Step(s, at) ==
        LET op   == ops[at[1]]
            k    == at[2]
            here == {<<r.id, k>> : r \in Range(op.region)}
            open == s.open \cup (Entered(s, op, k) \ s.met)
        IN  IF here \subseteq open
            THEN [open |-> open, met |-> s.met \cup here, ran |-> s.ran \cup {at},
                  cleared |-> s.cleared \cup (LoopOf(op) \X Clears(op))]
            ELSE [s EXCEPT !.open = open, !.met = @ \cup here]
  IN  FoldLeft(Step, [open |-> {}, met |-> {}, ran |-> {}, cleared |-> {}], Unrolling(ops)).ran

(* The program as it is written: nothing of the loop after a break, and    *)
(* nothing of the round after a continue.                                  *)
Written(ops, outcome) ==
  LET Left(ran, op, k) == \E at \in ran : /\ LoopOf(ops[at[1]]) = LoopOf(op)
                                         /\ \/ ops[at[1]].kind = "break"
                                            \/ ops[at[1]].kind = "continue" /\ at[2] = k
      Step(ran, at) ==
        LET op == ops[at[1]]
        IN  IF /\ \A r \in Range(op.region) : Holds(outcome, r, at[2])
               /\ LoopOf(op) = {} \/ ~ Left(ran, op, at[2])
            THEN ran \cup {at} ELSE ran
  IN  FoldLeft(Step, {}, Unrolling(ops))

(* A directive is the last statement of its branch: what follows it there  *)
(* is executed, and a program has no reason to have it.                    *)
EndsItsBranch(ops, i) == i = Len(ops) \/ ~ IsPrefix(ops[i].region, ops[i + 1].region)

(* The branch a directive stands in gets an attribute, and no branch around*)
(* that one does (conditional_handler.cpp:255): code of the loop behind an *)
(* outer branch is executed.  A directive is judged when none is there.    *)
BranchesOf(op) == {r.id : r \in {r \in Range(op.region) : r.kind = "if" /\ r.condition = "program"}}
BranchesAround(op) == BranchesOf(op) \ {Max(BranchesOf(op))}
ReachesRest(ops, i) == \A j \in i + 1 .. Len(ops) :
  LoopOf(ops[j]) = LoopOf(ops[i]) => BranchesAround(ops[i]) \subseteq BranchesOf(ops[j])

Finished == unit.blocks = <<>> /\ \E i \in DOMAIN unit.ops : Directive(unit.ops[i])
(* Programs of "if" and "for": the rounds of a "while" are not modelled,   *)
(* and nothing says here that an "else" excludes its "if".                 *)
IsJudged(ops) ==
  /\ \A i \in DOMAIN ops : \A r \in Range(ops[i].region) : r.kind \in For \cup {"if"}
  /\ \A i \in DOMAIN ops : Directive(ops[i]) => EndsItsBranch(ops, i) /\ ReachesRest(ops, i)


(* A continue bypasses the rest of the body and does "not disable the      *)
(* whol loop" (control_directive_handler.cpp:125): the next round is whole.*)
ContinueEndsOneRound ==
  Finished => \A outcome \in Outcomes(unit.ops) :
    Written(unit.ops, outcome) \subseteq Run(unit.ops, outcome)
=============================================================================
