---------------------------- MODULE QasmFrontEnd ----------------------------
(***************************************************************************)
(* Translation of an OpenQASM 3 program with classical control into        *)
(* operations on qubit values, statement by statement as the visitor meets *)
(* them, and the simplification that follows.  The program is any sequence *)
(* of statements of a vocabulary; branches and loops open and close round  *)
(* them.                                                                   *)
(*                                                                         *)
(* A gate applies to qubits; a broadcast to every qubit of q, with s or    *)
(* without; a subroutine takes q or one qubit of it, and does a gate or a  *)
(* measurement on that qubit, or on q[0].                                  *)
(***************************************************************************)
EXTENDS ExtractSimplification

CONSTANTS Vocabularies,    \* what programs are made of: the statements, and how
                           \* many of them, block ends included (a bound)
          MaxDepth         \* bound: blocks in each other

(* How a statement names qubits; the statements the front end takes.       *)
Named == Range(IndexText) \cup {"s"}
Texts == Named \cup {"i", "n-i"}
IsStatement(st) ==
  \/ st.kind \in {"gate", "call"} /\ st.on \in Seq(Texts)
  \/ /\ st.kind = "modified" /\ st.on \in Seq(Named)
     /\ {"modifiers", "gates"} \subseteq DOMAIN st
  \/ st.kind = "broadcast" /\ st.on \in {<<>>, <<"s">>}
  \/ /\ st.kind = "subroutine" /\ st.on[1] \in Range(IndexText) \cup {"q"}
     /\ st.does \in {"gate", "mz"}
  \/ st.kind = "measure" /\ st.on[1] \in Texts
  \/ st.kind \in {"measure range", "measure register", "else", "break", "continue"}
  \/ st.kind \in {"if", "while", "range", "set"} /\ st.breakable \in BOOLEAN
ASSUME VocabulariesAssumption ==
  /\ \A v \in Vocabularies : v.limit \in Nat /\ \A st \in v.statements : IsStatement(st)
  /\ MaxDepth \in Nat

VARIABLES vocabulary, length, unit, compiled
vars == <<vocabulary, length, unit, compiled>>

(* visitQuantumDeclaration: qubit q[RegisterSize]; qubit s; *)
Declared ==
  LET Alloc(on) == [kind |-> "qalloc", region |-> <<>>, args |-> <<>>, on |-> <<>>, via |-> "name"]
  IN  [ops    |-> <<Alloc("q"), Alloc("s"),
                    [kind |-> "extract", region |-> <<>>, args |-> <<ScalarRegister>>,
                     on |-> <<"s">>, via |-> "name"]>>,
       region |-> <<>>, opened |-> 0, scopes |-> <<Assigned(<<>>, ScalarName, <<3, 1>>)>>,
       keyOf  |-> Assigned(<<>>, <<3, 1>>, ScalarName), blocks |-> <<>>]
Init == /\ vocabulary \in Vocabularies
        /\ length = 0 /\ unit = Declared /\ compiled = <<>>

(* The blocks around the next statement. *)
For   == {"range", "set"}
InFor == \E b \in Range(unit.blocks) : b.kind \in For

-----------------------------------------------------------------------------
(* visitQuantumGateCall: the value of a qubit the source names.  At the    *)
(* loop's variable, the register is forgotten; at an expression, not.      *)
Operand(t, text) ==
  CASE text = "s"       -> Qubit(t, get_symbol(t, ScalarName))
    [] IsConstant(text) -> get_or_extract_qubit(t, text)
    [] text = "i"       -> Fresh(invalidate_qubit_extracts(t), text, "variable")
    [] OTHER            -> Fresh(t, text, "expression")
Reading(t, on) ==
  LET read[k \in 0 .. Len(on)] ==
        IF k = 0 THEN [unit |-> t, values |-> <<>>]
        ELSE LET c == read[k - 1]
                 q == Operand(c.unit, on[k])
             IN  [unit |-> q.unit, values |-> Append(c.values, q.value)]
  IN  read
Operands(t, on) == Reading(t, on)[Len(on)]
GateOn(t, kind, on) ==
  LET c == Operands(t, on) IN ApplyGate(c.unit, kind, c.values, on, "name")

(* A gate with modifiers, or a user's gate with them, is a region whose    *)
(* results take the names of the controls and of the operands.             *)
Modified(t, st) ==
  LET u == GateOn(t, "modified", st.on)
  IN  [u EXCEPT !.ops[Len(u.ops)] = Assigned(Assigned(@, "modifiers", st.modifiers), "gates", st.gates)]

(* createInstOps_HandleBroadcast: h q, and cx q, s, which hands s on. *)
Broadcasting(t, with) ==
  LET next[k \in 0 .. RegisterSize] ==
        IF k = 0 THEN Operands(t, with)
        ELSE LET c == next[k - 1]
                 q == get_or_extract_qubit(c.unit, IndexText[k - 1])
                 u == ApplyGate(q.unit, "gate", <<q.value>> \o c.values,
                                <<IndexText[k - 1]>> \o with, "name")
             IN  [unit |-> u, values |-> [n \in DOMAIN c.values |-> <<Len(u.ops), 2>>]]
  IN  next
Broadcast(t, with) == Broadcasting(t, with)[RegisterSize].unit

(* The call of a subroutine, once inlined.  The caller's symbol table does *)
(* not hear of what the subroutine does to its qubits.                     *)
Subroutine(t, on, does) ==
  LET q == IF on = "q" THEN [unit |-> Extract(t, "0", "subroutine"),
                             value |-> <<Len(t.ops) + 1, 1>>]
                       ELSE get_or_extract_qubit(t, on)
  IN  Emit(q.unit, does, <<q.value>>, <<IF on = "q" THEN "0" ELSE on>>, "subroutine")

(* visitQuantumMeasurementAssignment.  The name of the qubit is forgotten, *)
(* but for a scalar's; at the loop's variable no name is.                  *)
Mz(t, text) == Emit(t.unit, "mz", <<t.value>>, <<text>>, "name")
MeasureOne(t, text) ==
  LET q == IF text = "i" THEN Qubit(Extract(t, text, "variable"), <<Len(t.ops) + 1, 1>>)
                         ELSE Operand(t, text)
      key == get_symbol_var_name(q.unit, q.value)
  IN  IF key \in {Anonymous, ScalarName} THEN Mz(q, text) ELSE erase_symbol(Mz(q, text), key)
Measuring(t, forgets) ==
  LET measured[k \in 0 .. RegisterSize] ==
        IF k = 0 THEN t
        ELSE LET text == IndexText[k - 1]
                 u    == Mz(get_or_extract_qubit(measured[k - 1], text), text)
             IN  IF forgets THEN erase_symbol(u, array_qubit_symbol_name(text)) ELSE u
  IN  measured
MeasureRange(t)    == Measuring(t, TRUE)[RegisterSize]
MeasureRegister(t) == invalidate_qubit_extracts(Measuring(t, FALSE)[RegisterSize])

Translated(t, st) ==
  CASE st.kind \in {"gate", "call"}  -> GateOn(t, st.kind, st.on)
    [] st.kind = "modified"          -> Modified(t, st)
    [] st.kind = "broadcast"         -> Broadcast(t, st.on)
    [] st.kind = "subroutine"        -> Subroutine(t, st.on[1], st.does)
    [] st.kind = "measure"           -> MeasureOne(t, st.on[1])
    [] st.kind = "measure range"     -> MeasureRange(t)
    [] st.kind = "measure register"  -> MeasureRegister(t)

Simple   == {"gate", "call", "modified", "broadcast", "subroutine", "measure", "measure range",
             "measure register"}
Indexed(st) ==
  st.kind \in {"gate", "call", "measure"} /\ \E k \in DOMAIN st.on : st.on[k] \in {"i", "n-i"}
Write    == compiled = <<>> /\ length < vocabulary.limit /\ length' = length + 1
            /\ UNCHANGED <<vocabulary, compiled>>
Statement == \E st \in vocabulary.statements :
  /\ st.kind \in Simple /\ (Indexed(st) => InFor)
  /\ Write
  /\ unit' = Translated(unit, st)

-----------------------------------------------------------------------------
(* The block a statement opens; the builder goes into its region.  The     *)
(* condition of a region is the program's, or it is one of the flags of    *)
(* the loop around: "whole" (executeWholeLoop), "block" (executeThisBlock).*)
Into(t, kinds, condition) ==
  [t EXCEPT !.opened = @ + Len(kinds),
            !.region = @ \o [n \in DOMAIN kinds |-> [kind |-> kinds[n], id |-> t.opened + n,
                              condition |-> IF n = 1 THEN condition ELSE "whole"]]]
enter_new_scope(t) == [t EXCEPT !.scopes = Append(@, <<>>)]
(* Mutant of exit_scope: the scope stays open. *)
KeepScope(t)       == t
exit_scope(t)      == [t EXCEPT !.scopes = Front(@)]
Opened(t, kinds, block) ==
  enter_new_scope(Into([t EXCEPT !.blocks = Append(@, block)], kinds, "program"))

(* visitBranchingStatement, createRangeBasedForLoop, createSetBasedForLoop *)
(* and createWhileLoop.  The body of a "for" with a break or a continue in *)
(* it is put under a condition of its own.                                 *)
Open == \E st \in vocabulary.statements :
  /\ st.kind \in {"if", "while"} \cup For /\ Len(unit.blocks) < MaxDepth
  /\ st.kind \in For => ~ InFor
  /\ Write
  /\ unit' = Opened(unit, IF st.kind \in For /\ st.breakable THEN <<st.kind, "if">> ELSE <<st.kind>>,
                    [kind |-> st.kind, breakable |-> st.breakable, region |-> unit.region,
                     from |-> Len(unit.ops), directive |-> FALSE, other |-> FALSE])

(* The second program block of a branching statement. *)
Else == \E st \in vocabulary.statements :
  /\ st.kind = "else" /\ unit.blocks # <<>>
  /\ Last(unit.blocks).kind = "if" /\ ~ Last(unit.blocks).other
  /\ Write
  /\ unit' = enter_new_scope(Into([exit_scope(unit) EXCEPT
                                     !.region = Last(unit.blocks).region,
                                     !.blocks[Len(unit.blocks)].other = TRUE],
                                  <<"else">>, "program"))

(* visitControlDirective, in a branch: flags of the loop are cleared, and  *)
(* the branch gets an attribute.  What follows an inner branch that has    *)
(* one is under a condition, and there it is that condition which gets it. *)
Loops == {i \in DOMAIN unit.blocks : unit.blocks[i].kind # "if"}
Leave == \E st \in vocabulary.statements :
  /\ st.kind \in {"break", "continue"} /\ Loops # {} /\ \A i \in Loops : unit.blocks[i].breakable
  /\ Last(unit.blocks).kind = "if" /\ ~ Last(unit.blocks).directive
  /\ Write
  /\ unit' = [Emit(unit, st.kind, <<>>, <<>>, "name") EXCEPT !.blocks = [i \in DOMAIN @ |->
       IF i = Len(@) THEN [@[i] EXCEPT !.directive = Front(unit.region) = unit.blocks[i].region]
       ELSE IF i \in Loops THEN [@[i] EXCEPT !.directive = TRUE] ELSE @[i]]]

(* The end of a block: the builder returns to where it was, or, after a    *)
(* branch with the attribute, goes under a condition there.                *)
Close ==
  LET b == Last(unit.blocks)
      u == [exit_scope(unit) EXCEPT !.region = b.region, !.blocks = Front(@)]
  IN  /\ unit.blocks # <<>> /\ (b.breakable => b.directive)
      /\ b.directive \/ Len(unit.ops) > b.from
      /\ Write
      /\ unit' = IF b.kind = "if" /\ b.directive THEN Into(u, <<"if">>, "block") ELSE u

(* The module verifier: a value is defined in a region around its use. *)
IsDominated(ops) ==
  \A i \in DOMAIN ops : \A k \in DOMAIN ops[i].args :
    IsPrefix(ops[ops[i].args[k][1]].region, ops[i].region)

Simplify == /\ compiled = <<>> /\ length > 0 /\ unit.blocks = <<>>
            /\ IsDominated(unit.ops) /\ IsFlattened(unit.ops)
            /\ compiled' = configureRemoveUnusedPasses(unit.ops)
            /\ UNCHANGED <<vocabulary, length, unit>>

Next == Statement \/ Open \/ Else \/ Leave \/ Close \/ Simplify
Spec == Init /\ [][Next]_vars

(* Types of the variables; a scope for every open block; and every operand *)
(* is a value defined before.                                              *)
IsInOrder(ops) == \A i \in DOMAIN ops : \A k \in DOMAIN ops[i].args : ops[i].args[k][1] < i
TypeOK ==
  /\ vocabulary \in Vocabularies /\ length \in 0 .. vocabulary.limit
  /\ Len(unit.blocks) <= MaxDepth /\ Len(unit.scopes) = Len(unit.blocks) + 1
  /\ IsInOrder(unit.ops)
=============================================================================
