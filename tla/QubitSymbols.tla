---------------------------- MODULE QubitSymbols ----------------------------
(***************************************************************************)
(* How the OpenQASM 3 front end names the value that stands for a qubit    *)
(* (ScopedSymbolTable, get_or_extract_qubit).  A gate returns a new value  *)
(* of each qubit it takes; the symbol table maps the name of a qubit to    *)
(* its last value, so that the next gate reads what the one before         *)
(* returned.                                                               *)
(*                                                                         *)
(* A unit under translation is a record:                                   *)
(*   ops     the operations emitted, in the order of the text;             *)
(*   region  where the next one goes: the path of the regions around it;   *)
(*   opened  the number of regions opened so far, which names the next;    *)
(*   scopes  the symbol tables of the open scopes, names to values;        *)
(*   keyOf   replacement_helper, values to names;                          *)
(*   blocks  the open blocks of the source, outermost first.               *)
(* A value is the place of the operation that defines it and the number of *)
(* its result.  An operation also records the qubits the source names and  *)
(* how it came by them.                                                    *)
(***************************************************************************)
EXTENDS SequencesExt

CONSTANT RegisterSize      \* qubits of the register q; the scalar s is one more
ASSUME RegisterSizeAssumption == RegisterSize \in Nat \ {0}
ASSUME ToStringAssumption ==     \* std::to_string
  \A j, k \in 0 .. RegisterSize - 1 :
    /\ ToString(j) = ToString(k) => j = k
    /\ ToString(j) \notin {"q", "s", "i", "n-i"}

(* The source names a qubit by a constant index, by the variable of the    *)
(* loop around it, by an expression of it (the mirror image), or as s.     *)
IndexText    == [k \in 0 .. RegisterSize - 1 |-> ToString(k)]
IsConstant(text) == \E k \in DOMAIN IndexText : IndexText[k] = text
Wires        == 0 .. RegisterSize
WireOf(text, i) == CASE text = "s"   -> RegisterSize
                     [] text = "i"   -> i
                     [] text = "n-i" -> RegisterSize - 1 - i
                     [] OTHER        -> CHOOSE k \in DOMAIN IndexText : IndexText[k] = text
Anonymous == <<>>          \* get_symbol_var_name of a value without a name
ScalarName == <<"s">>
array_qubit_symbol_name(text) == <<"q", text>>

has_symbol(t, key) == \E i \in DOMAIN t.scopes : key \in DOMAIN t.scopes[i]
get_symbol(t, key) ==
  t.scopes[Max({i \in DOMAIN t.scopes : key \in DOMAIN t.scopes[i]})][key]
get_symbol_var_name(t, value) == IF value \in DOMAIN t.keyOf THEN t.keyOf[value] ELSE Anonymous

(* A map with an entry assigned, or inserted where there is none.          *)
Assigned(map, key, value) ==
  [k \in DOMAIN map \cup {key} |-> IF k = key THEN value ELSE map[k]]
Inserted(map, key, value) == IF key \in DOMAIN map THEN map ELSE Assigned(map, key, value)

add_symbol(t, key, value) ==
  [t EXCEPT !.scopes[Len(t.scopes)] = Assigned(@, key, value),
            !.keyOf = Inserted(@, value, key)]

erase_symbols(t, keys) ==
  [t EXCEPT !.scopes = [i \in DOMAIN @ |-> Restrict(@[i], DOMAIN @[i] \ keys)]]
erase_symbol(t, key) == erase_symbols(t, {key})

(* The name of the old value, in every scope that has it, gets the new one. *)
replace_symbol(t, old, new) ==
  LET key == get_symbol_var_name(t, old)
  IN  IF ~ has_symbol(t, key) THEN t
      ELSE [t EXCEPT !.scopes = [i \in DOMAIN @ |-> IF key \in DOMAIN @[i]
                                                    THEN [@[i] EXCEPT ![key] = new] ELSE @[i]],
                     !.keyOf = Assigned(@, new, key)]

(* Mutant of invalidate_qubit_extracts: nothing is forgotten. *)
KeepExtracts(t) == t
invalidate_qubit_extracts(t) ==
  erase_symbols(t, {array_qubit_symbol_name(IndexText[k]) : k \in DOMAIN IndexText})

(* Mutant of verify_qubit_ssa_dominance_property: every value will do. *)
AnyValue(t, value) == TRUE

(* A value a gate returned is good in the region of that gate only.  What  *)
(* a call of a user's gate returned, or an extract, is good everywhere.    *)
verify_qubit_ssa_dominance_property(t, value) ==
  t.ops[value[1]].kind = "gate" => t.ops[value[1]].region = t.region

-----------------------------------------------------------------------------
(* Emitting operations; the value of an operation is its first result.     *)
Emit(t, kind, args, on, via) ==
  [t EXCEPT !.ops = Append(@, [kind |-> kind, region |-> t.region, args |-> args,
                               on |-> on, via |-> via])]
LastValue(t)   == <<Len(t.ops), 1>>
Register       == <<1, 1>>     \* what the qalloc of q returned
ScalarRegister == <<2, 1>>     \* what the qalloc of s returned

Extract(t, text, via) == Emit(t, "extract", <<Register>>, <<text>>, via)

(* A qubit of the register and the unit it is known in. *)
Qubit(t, value) == [unit |-> t, value |-> value]
Fresh(t, text, via) ==
  LET u == Extract(t, text, via)
      key == array_qubit_symbol_name(text)
  IN  Qubit(IF has_symbol(u, key) THEN u ELSE add_symbol(u, key, LastValue(u)), LastValue(u))

get_or_extract_qubit(t, text) ==
  LET key == array_qubit_symbol_name(text)
  IN  IF ~ has_symbol(t, key) THEN Fresh(t, text, "name")
      ELSE IF verify_qubit_ssa_dominance_property(t, get_symbol(t, key))
           THEN Qubit(t, get_symbol(t, key))
           ELSE Fresh(erase_symbol(t, key), text, "name")

(* Result values[k] takes the name of args[k], one k after the other.      *)
Renaming(u, args, values) ==
  LET renamed[k \in 0 .. Len(args)] ==
        IF k = 0 THEN u ELSE replace_symbol(renamed[k - 1], args[k], values[k])
  IN  renamed
Results(u, args) == [k \in DOMAIN args |-> <<Len(u.ops), k>>]

(* Mutant of ApplyGate: the results take each other's names. *)
ApplyCrosswise(t, kind, args, on, via) ==
  LET u == Emit(t, kind, args, on, via)
  IN  Renaming(u, args, Reverse(Results(u, args)))[Len(args)]

(* A gate or a call of a user's gate: each result takes the name of the    *)
(* operand in its place.                                                   *)
ApplyGate(t, kind, args, on, via) ==
  LET u == Emit(t, kind, args, on, via)
  IN  Renaming(u, args, Results(u, args))[Len(args)]
=============================================================================
