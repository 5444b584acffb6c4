--------------------------- MODULE BasisPipeline ---------------------------
(***************************************************************************)
(* The gate passes of an unoptimised compilation                           *)
(* (mlir/tools/CompilationPipeline.cpp): DecomposemultiPass rewrites gates *)
(* of many kinds into the gate set, Check_gate refuses what is not in it,  *)
(* trans_basicgate rewrites the rest into the basis the user asked for.    *)
(* At level 1 DevicePipeline takes over after the first of them.           *)
(*                                                                         *)
(* A program is the sequence of its gates; each gate is named with the     *)
(* wires whose values it reads.  A pass moves the gates from "todo" to     *)
(* "done"; a rule that rewrites a gate has every later use of its results  *)
(* replaced, which renames wires in the rest of the program.               *)
(***************************************************************************)
EXTENDS DecomposeMulti, TransBasicGate

CONSTANTS
  Wires,      \* the wires of the programs
  Jobs        \* what is compiled: a program, and the options it is compiled with

ASSUME WiresAssumption == IsFiniteSet(Wires)

(* A gate, and the programs the front end builds.                          *)
IsGate(g) == /\ DOMAIN g = {"name", "wires", "args", "due", "parts"}
             /\ g.due \in BOOLEAN
             /\ g.wires \in Seq(Wires)
             /\ g.args \in Seq(Int)
IsProgram(gates) == /\ gates \in Seq(ToSet(gates))
                    /\ \A i \in DOMAIN gates : IsGate(gates[i]) /\ ~ gates[i].due

ASSUME JobsAssumption ==
  \A job \in Jobs : IsProgram(job[1]) /\ job[2].optLevel \in {0, 1}

VARIABLES
  source,   \* the program as the front end built it
  options,  \* the gate set asked for, {} for none, the optimisation level, 0 or 1,
            \* the backend, "none" or its name, and whether the program is routed
  pass,     \* the pass that runs
  done,     \* the gates the pass has left behind
  todo,     \* the gates it has not reached
  pos,      \* the wire that holds the final value of each wire of the source
  failure   \* how the compiler gave up: "none", "throw", "assert" or "crash"

vars == <<source, options, pass, done, todo, pos, failure>>

(* The basis {u3, cz} is compiled for another one, and merged afterwards. *)
basicGateSet(B) == IF B = {"u3", "cz"} THEN {"rx", "ry", "rz", "h", "cz"} ELSE B
basis == basicGateSet(options.basicGateSet)
level == options.optLevel

(* What follows the gate passes, as the options ask for it.  ("u3_to_rphi" *)
(* of the backend originquantum is not modelled.)                          *)
turn_to_u3 == options.basicGateSet = {"u3", "cz"}
Asked(stage) ==
  CASE stage = "MergeU3"       -> turn_to_u3
    [] stage = "TurnToPhasedx" -> options.emitBackend = "Trappedion-backend"
    [] stage \in {"Sabre", "DecomposeSwaps"} -> options.sabre
    [] stage = "Emit"          -> options.emitBackend # "none"
Order == [end |-> 0, MergeU3 |-> 1, TurnToPhasedx |-> 2, Sabre |-> 3, DecomposeSwaps |-> 4, Emit |-> 5]
(* The stages that are still to come, once the gate passes have ended.      *)
Ahead == IF pass \notin DOMAIN Order THEN {}
         ELSE {stage \in DOMAIN Order : Order[stage] > Order[pass] /\ Asked(stage)}

Init ==
  /\ \E job \in Jobs : source = job[1] /\ options = job[2]
  /\ pass = "decompose"
  /\ done = <<>>
  /\ todo = [i \in DOMAIN source |->         \* the walk visits every gate
               IF source[i].name = "mz" THEN source[i] ELSE Due(source[i])]
  /\ pos = [q \in Wires |-> q]
  /\ failure = "none"

Renaming(g, q) == IF \E i \in DOMAIN g.wires : g.wires[i] = q
                  THEN Results(g)[CHOOSE i \in DOMAIN g.wires : g.wires[i] = q]
                  ELSE q
ReplaceUses(g, gates) ==
  [i \in DOMAIN gates |->
     [gates[i] EXCEPT !.wires = [k \in DOMAIN @ |-> Renaming(g, @[k])]]]

Working == failure = "none" /\ todo # <<>>

(* A gate no rule is waiting for stays where it is. *)
Settle ==
  /\ pass \in {"decompose", "translate"} /\ Working /\ ~ Head(todo).due
  /\ done' = Append(done, Head(todo))
  /\ todo' = Tail(todo)
  /\ UNCHANGED <<source, options, pass, pos, failure>>

-----------------------------------------------------------------------------
(* DecomposemultiPass *)
KeepGate ==
  /\ pass = "decompose" /\ Working /\ Head(todo).due
  /\ Head(todo).name \in gate_set \ gate_to_decompose
  /\ done' = Append(done, [Head(todo) EXCEPT !.due = FALSE])
  /\ todo' = Tail(todo)
  /\ UNCHANGED <<source, options, pass, pos, failure>>

DecomposeGate ==
  /\ pass = "decompose" /\ Working /\ Head(todo).due
  /\ LET g == Head(todo)
     IN  /\ Decomposable(g)
         /\ todo' = Decompose(g) \o ReplaceUses(g, Tail(todo))
         /\ pos' = [q \in Wires |-> Renaming(g, pos[q])]
  /\ UNCHANGED <<source, options, pass, done, failure>>

(* "Not support ... gate" and "format is not correct". *)
RejectGate ==
  /\ pass = "decompose" /\ Working /\ Head(todo).due
  /\ \/ Head(todo).name \notin gate_set \cup gate_to_decompose
     \/ Head(todo).name \in gate_to_decompose /\ ~ Decomposable(Head(todo))
  /\ failure' = "throw"
  /\ UNCHANGED <<source, options, pass, done, todo, pos>>

EndDecompose ==
  /\ pass = "decompose" /\ failure = "none" /\ todo = <<>>
  /\ pass' = IF level = 0 THEN "check" ELSE "optimise"
  /\ todo' = done /\ done' = <<>>
  /\ UNCHANGED <<source, options, pos, failure>>

-----------------------------------------------------------------------------
(* Check_gate: every gate has the matrix getGateMat computes for its name. *)
AngleCount(name) == CASE name \in {"rx", "ry", "rz", "p", "cp"} -> 1
                      [] name = "u3" -> 3
                      [] OTHER -> 0
WireCount(name)  == IF name \in {"cx", "cy", "cz", "cp", "swap"} THEN 2 ELSE 1
HasMatrix(g) == /\ g.name \in gate_set
                /\ Len(g.args) = AngleCount(g.name)
                /\ Len(g.wires) = WireCount(g.name)
Passes(g)    == HasMatrix(g) \/ g.name = "mz"

(* trans_basicgate collects the gates outside the basis before it writes any. *)
Collected(gates) ==
  [i \in DOMAIN gates |-> [gates[i] EXCEPT !.due = gates[i].name \notin basis \cup {"mz", "unitary"}]]

EndCheck ==
  /\ pass = "check" /\ failure = "none"
  /\ \A i \in DOMAIN todo : Passes(todo[i])
  /\ pass' = IF basis = {} THEN "end" ELSE "translate"
  /\ IF basis = {} THEN done' = todo /\ todo' = <<>>
     ELSE todo' = Collected(todo) /\ done' = <<>>
  /\ UNCHANGED <<source, options, pos, failure>>

FailCheck ==
  /\ pass = "check" /\ failure = "none"
  /\ \E i \in DOMAIN todo : ~ Passes(todo[i])
  /\ failure' = "throw"
  /\ UNCHANGED <<source, options, pass, done, todo, pos>>

-----------------------------------------------------------------------------
(* trans_basicgate *)
TranslateGate ==
  /\ pass = "translate" /\ Working /\ Head(todo).due
  /\ \E gates \in Translate(basis, Head(todo)) : todo' = gates \o Tail(todo)
  /\ UNCHANGED <<source, options, pass, done, pos, failure>>

(* assert(false && "Not support to trans ...") *)
AssertFails ==
  /\ pass = "translate" /\ Working /\ Head(todo).due
  /\ Translate(basis, Head(todo)) = {}
  /\ failure' = "assert"
  /\ UNCHANGED <<source, options, pass, done, todo, pos>>

EndTranslate ==
  /\ pass = "translate" /\ failure = "none" /\ todo = <<>>
  /\ IF level = 0 THEN pass' = "end" /\ UNCHANGED <<done, todo>>
     ELSE pass' = "optimise" /\ todo' = done /\ done' = <<>>
  /\ UNCHANGED <<source, options, pos, failure>>

-----------------------------------------------------------------------------
Next == \/ Settle \/ KeepGate \/ DecomposeGate \/ RejectGate \/ EndDecompose
        \/ EndCheck \/ FailCheck
        \/ TranslateGate \/ AssertFails \/ EndTranslate

-----------------------------------------------------------------------------
Compiled == pass \in DOMAIN Order /\ Ahead = {}
WellFormed(g) == Decomposable(g) \/ HasMatrix(g) \/ g.name = "mz"
SourceIsWellFormed == \A i \in DOMAIN source : WellFormed(source[i])

(* The program is one list of gates on distinct wires, in every pass. *)
OnDistinctWires(g) == \A i, k \in DOMAIN g.wires : g.wires[i] = g.wires[k] => i = k
TypeOK == /\ <<source, options>> \in Jobs
          /\ pass \in {"decompose", "check", "optimise", "translate"} \cup DOMAIN Order
          /\ failure \in {"none", "throw", "assert", "crash"}
          /\ \A gates \in {done, todo} : \A i \in DOMAIN gates :
               IsGate(gates[i]) /\ OnDistinctWires(gates[i])
          /\ pos \in [Wires -> Wires]

(* Decomposition leaves only gates Check_gate has a matrix for, although    *)
(* the walk does not visit the gates that rules write: what the front end   *)
(* may say and the first pass accepts is never refused by the second.       *)
(* (Check_gate.cpp:51, get_matrix.cpp:834)                                  *)
DecomposedIsSupported ==
  pass = "check" /\ SourceIsWellFormed => \A i \in DOMAIN todo : Passes(todo[i])

(* The gate sets the tests name have rotations about all axes, h and an     *)
(* entangling gate.                                                         *)
Universal(B) == {"rx", "ry", "rz", "h"} \subseteq B /\ B \cap {"cx", "cz"} # {}

(* What turn_to_phasedx writes for a trapped-ion device besides rz; its    *)
(* gates for a run whose angles have no exact form stand as one "unitary". *)
PhasedGates == IF options.emitBackend = "Trappedion-backend" THEN {"phasedx", "unitary"} ELSE {}

(* With such a basis, what the gate passes leave is in it, although gates  *)
(* that rules write are only rewritten where the rule thinks of it, and so *)
(* is what stands for the swaps of the router.                             *)
(* (trans_basicgate.cpp:1364, DecomposeSwapQirPass.cpp:140)                *)
Native(B) == \A i \in DOMAIN done : done[i].name \in B \cup {"mz"}
TranslatedIsNative ==
  pass = "end" /\ level = 0 /\ Universal(basis) => Native(basis)
CompiledIsNative ==
  /\ TranslatedIsNative
  /\ pass = "DecomposeSwaps" /\ level = 0 /\ Universal(basis) =>
       Native(basis \cup options.basicGateSet \cup PhasedGates)

(* A program of well-formed gates is compiled for such a basis: rewriting   *)
(* ends, and neither the format checks nor the assertions are met.  (For   *)
(* u3 and cz the merging pass does not return, see MergeU3.)               *)
Compilable == /\ SourceIsWellFormed
              /\ Universal(basis) \/ basis = {}
              /\ ~ turn_to_u3
Compiles == Compilable ~> Compiled
=============================================================================
