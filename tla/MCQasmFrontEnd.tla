--------------------------- MODULE MCQasmFrontEnd ---------------------------
(***************************************************************************)
(* Instances of QubitLinks and LoopDirectives: programs on q[2] and s, of  *)
(* statements that meet each other in one of the ways the symbol table and *)
(* the loops' flags have to keep up with.                                  *)
(***************************************************************************)
EXTENDS QubitLinks, LoopDirectives

Gate(on)          == [kind |-> "gate", on |-> on]
Call(on)          == [kind |-> "call", on |-> on]
ToAll(with)       == [kind |-> "broadcast", on |-> with]
Routine(on, does) == [kind |-> "subroutine", on |-> <<on>>, does |-> does]
Under(modifiers, gates, on) ==
  [kind |-> "modified", modifiers |-> modifiers, gates |-> gates, on |-> on]
Measure(on)       == [kind |-> "measure", on |-> <<on>>]
Just(kind)        == [kind |-> kind]
Block(kind)       == [kind |-> kind, breakable |-> FALSE]
Breakable(kind)   == [kind |-> kind, breakable |-> TRUE]
Of(limit, statements) == [limit |-> limit, statements |-> statements]

Nested   == Of(9, {Gate(<<"0">>), Block("if")})
Branches == Of(6, {Gate(<<"0">>), Gate(<<"1", "0">>), Measure("0"), Call(<<"0">>),
                   Block("if"), Just("else")})
Ranges   == Of(6, {Gate(<<"0">>), Gate(<<"i">>), Gate(<<"i", "n-i">>), ToAll(<<>>),
                   Block("range"), Block("if")})
Sets     == Of(6, {Gate(<<"0">>), Gate(<<"n-i">>), Gate(<<"i">>), Measure("i"),
                   Block("set"), Block("while")})
Breaks   == Of(8, {Gate(<<"0">>), Gate(<<"i">>), Breakable("range"), Block("if"), Just("break"),
                   Just("continue")})
Scalars  == Of(7, {Gate(<<"s">>), Gate(<<"0", "1", "s">>), ToAll(<<"s">>), Gate(<<"i">>),
                   Measure("s"), Block("range"), Block("if")})
Routines == Of(6, {Gate(<<"0">>), Routine("q", "gate"), Routine("0", "gate"), Routine("q", "mz"),
                   Just("measure register"), Just("measure range"), Gate(<<"i">>),
                   Block("range"), Block("if")})

(* Gates with modifiers.  Controlled rx is left out: its rule writes the   *)
(* identity.                                                               *)
Ctrl   == [kind |-> "ctrl"]
Inv    == [kind |-> "inv"]
Pow(k) == [kind |-> "pow", times |-> k]
Lists  == {<<Ctrl>>, <<Inv>>, <<Pow(0)>>, <<Pow(2)>>, <<Pow(2), Ctrl>>, <<Pow(2), Inv>>,
           <<Inv, Ctrl>>, <<Pow(3), Inv, Ctrl>>, <<Ctrl, Inv>>, <<Ctrl, Ctrl>>, <<Ctrl, Pow(2)>>}
OneWire == {<<Rules!Gate(n, <<1>>, <<>>)>> : n \in {"x", "y", "z", "h", "t", "tdg", "s", "sdg"}}
      \cup {<<Rules!Ry(12, 1)>>, <<Rules!Rz(12, 1)>>, <<Rules!T(1), Rules!H(1)>>}
TwoWire == {<<Rules!Cx(1, 2)>>, <<Rules!CPhase(12, 1, 2)>>, <<Rules!H(1), Rules!Cx(1, 2), Rules!S(2)>>}
Controls(list) == Len(SelectSeq(list, LAMBDA m : m = Ctrl))
Names(n) == SubSeq(<<"1", "s", "0">>, 1, n)
RuleByRule == Of(1, {Under(m, b, Names(Controls(m) + 1)) : m \in Lists, b \in OneWire}
              \cup {Under(m, b, Names(Controls(m) + 2)) : m \in Lists \ {<<Ctrl, Ctrl>>}, b \in TwoWire})
Modifiers == Of(4, {Gate(<<"0">>), Under(<<Ctrl>>, <<Rules!Z(1)>>, <<"1", "0">>),
                    Under(<<Inv>>, <<Rules!T(1), Rules!H(1)>>, <<"0">>),
                    Under(<<Pow(2), Inv>>, <<Rules!T(1), Rules!H(1)>>, <<"0">>),
                    Under(<<Pow(2)>>, <<Rules!Cx(1, 2)>>, <<"0", "1">>),
                    Under(<<Inv, Ctrl>>, <<Rules!Z(1)>>, <<"0", "s">>),
                    Measure("0"), Block("if")})
mcVocabularies == {Nested, Branches, Ranges, Sets, Breaks, Scalars, Routines,
                   RuleByRule, Modifiers}
mcNested       == {Nested}
mcBreaks       == {Breaks}
=============================================================================
