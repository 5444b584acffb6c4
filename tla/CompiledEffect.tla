--------------------------- MODULE CompiledEffect ---------------------------
(***************************************************************************)
(* The pipeline with a history variable: what the gates a pass of an       *)
(* unoptimised compilation has left behind make of a set of start states.  *)
(* No action reads it.                                                     *)
(***************************************************************************)
EXTENDS DevicePipeline

CONSTANT Unjudged     \* programs whose effect is not compared

VARIABLE effect     \* start state -> the state the gates of "done" take it to

allVars == <<vars, effect>>

WiresOf(gates) == UNION {ToSet(gates[i].wires) : i \in DOMAIN gates}
Judged         == SourceIsWellFormed /\ source \notin Unjudged
Untouched      == [psi \in IF Judged /\ level = 0 THEN StartStates(WiresOf(source)) ELSE {} |-> psi]

EInit == Init /\ effect = Untouched
Observed ==
  effect' = CASE pass = "check" /\ pass' = "translate" -> Untouched
              [] Len(done') = Len(done) + 1 /\ pass' = pass /\ HasMatrix(Last(done')) ->
                   [psi \in DOMAIN effect |-> Act(Last(done'), effect[psi])]
              [] OTHER -> effect
ENext == DNext /\ Observed

(* What is underway goes on, and the list of optimisers is finite, though  *)
(* each is enabled again after the other.  (The first conjunct is weak     *)
(* fairness of the steps outside "optimise", with what enables them        *)
(* written out: each pass has an outcome for every program.)               *)
Underway == failure = "none" /\ pass # "optimise" /\ ~ Compiled
Fairness == /\ []<>~ Underway \/ []<><<(Next \/ DeviceStep) /\ Observed>>_allVars
            /\ SF_allVars(EndOptimise /\ Observed)
ESpec == EInit /\ [][ENext]_allVars /\ Fairness

(* The state read from the wires where the source's wires ended. *)
ReadAt(psi)  == [b \in DOMAIN psi |-> psi[{pos[q] : q \in b}]]
Injective(f) == \A p, q \in DOMAIN f : f[p] = f[q] => p = q
SourceEffect(psi) == After(source, psi)

(* All the passes may do to a program is rewrite it: after decomposition,  *)
(* and again after translation, the gates take every state where the       *)
(* source takes it, up to one global phase, when the value of each wire is *)
(* read where its uses were moved to; they touch no wire the source does   *)
(* not.  (The angles, operands and order of every rule of                  *)
(* DecomposemultiPass.cpp and trans_basicgate.cpp, and what they pass to   *)
(* replaceAllUsesWith.)                                                    *)
CompiledIsFaithful ==
  level = 0 /\ pass \in {"check", "end"} /\ Judged =>
     /\ Injective(pos)
     /\ WiresOf(done \o todo) \subseteq WiresOf(source)
     /\ \A psi \in DOMAIN effect : SameUpToPhase(SourceEffect(psi), ReadAt(effect[psi]))

-----------------------------------------------------------------------------
(* Programs with measurements.  The k-th one copies its wire to a wire of  *)
(* its own.                                                                *)
Record(k) == 100 + k
Unmeasured(gates) ==
  LET Number(i) == Cardinality({j \in 1 .. i : ~ IsValue(gates[j])})
  IN  FlattenSeq([i \in DOMAIN gates |-> IF IsValue(gates[i]) THEN Parts(gates[i])
                                         ELSE <<Cx(gates[i].wires[1], Record(Number(i)))>>])
Records(gates) == {Record(k) : k \in 1 .. Len(SelectSeq(gates, LAMBDA g : ~ IsValue(g)))}

Reversed   == [X2P |-> "X2M", X2M |-> "X2P", Y2P |-> "Y2M", Y2M |-> "Y2P"]
Adjoint(g) == CASE g.name \in {"rx", "ry", "rz", "p", "cp", "rzz"} -> [g EXCEPT !.args = <<-g.args[1]>>]
                [] g.name = "u3"  -> [g EXCEPT !.args = <<-g.args[1], -g.args[3], -g.args[2]>>]
                [] g.name \in {"s", "t"}     -> [g EXCEPT !.name = @ \o "dg"]
                [] g.name = "sdg" -> [g EXCEPT !.name = "s"]
                [] g.name = "tdg" -> [g EXCEPT !.name = "t"]
                [] g.name \in {"X2P", "X2M", "Y2P", "Y2M"} -> [g EXCEPT !.name = Reversed[@]]
                [] g.name \in {"phasedx", "U1q"} -> [g EXCEPT !.args = <<-g.args[1], g.args[2]>>]
                [] g.name = "sx"  -> Rx(-(Pi \div 2), g.wires[1])
                [] OTHER          -> g
Undo(gates) == Reverse([i \in DOMAIN gates |-> Adjoint(gates[i])])

(* The same operation, measurements and what they leave behind included.   *)
SameEffect(before, after) ==
  LET wires == WiresOf(source)
      all   == wires \cup Records(before)
      starts == { [b \in SUBSET all |-> IF b \in {k, {}} THEN 1 ELSE 0] : k \in SUBSET wires }
  IN  /\ Records(before) = Records(after)
      /\ \A psi \in starts : SameUpToPhase(After(Unmeasured(before), psi), After(Unmeasured(after), psi))

(* The probability of each outcome, for every state before: the projection *)
(* on the outcome, pulled back through the program.                        *)
PulledBack(gates, outcome, k) ==
  LET all  == WiresOf(source) \cup Records(gates)
      flat == Unmeasured(gates)
      phi  == After(flat, [b \in SUBSET all |-> IF b = k THEN 1 ELSE 0])
      back == After(Undo(flat), [b \in SUBSET all |->
                                 IF b \cap Records(gates) = outcome THEN phi[b] ELSE 0])
  IN  [b \in SUBSET WiresOf(source) |-> back[b]]
SameOutcomes(before, after) ==
  /\ Records(before) = Records(after)
  /\ \A outcome \in SUBSET Records(before), k \in SUBSET WiresOf(source) :
        Cardinality({PulledBack(gates, outcome, k) : gates \in {before, after}}) = 1

(* Every optimiser but the one for diagonal gates keeps the operation of   *)
(* the program it is given, what a measurement leaves behind included:     *)
(* gates that are paired, merged or moved have nothing between them that   *)
(* they do not commute with, on either wire.  (The use lists and owners    *)
(* followed in IdentityPairRemovalPass.cpp, CommutativeCancellationPass.cpp, *)
(* SingleQubitGateMergingPass.cpp and ConsolidateBlocks.cpp.)              *)
KeepsTheOperation ==
  Optimising /\ pass' = "optimise" /\ failure' = "none" /\ todo' # todo /\ ~ RunRemoveDiagonal
     => SameEffect(todo, todo')
EffectIsKept == [][KeepsTheOperation]_allVars

(* Whatever optimisers run, in whatever order and how often: a program     *)
(* that measures has the outcomes of the source with their probabilities,  *)
(* one that does not is the same operation.                                *)
(* (test_commutative_cancellation.py:9, pass_manager.hpp:207)              *)
OutcomesAreKept ==
  level = 1 /\ pass \in {"optimise", "end"} /\ Judged =>
     IF Records(source) = {} THEN SameEffect(source, done \o todo)
     ELSE SameOutcomes(source, done \o todo)

(* The gates a backend writes, with what turn_to_phasedx makes of the      *)
(* one-wire gates for a trapped-ion device.                                *)
Spoken(backend) ==
  CASE backend = "qasm-backend" -> gate_set \ {"cy"}
    [] backend = "tianyan"      -> gate_set \ {"sx", "u3", "cp", "swap"}
    [] backend = "Trappedion-backend" -> gate_set \ {"cy", "cz", "cp", "swap"}
Speaks == (IF options.basicGateSet = {} THEN gate_set \ {"cy"} ELSE options.basicGateSet)
             \subseteq Spoken(options.emitBackend)

(* A basis whose gates the backend can write: the text it writes, read     *)
(* with the meaning of the target language and the wires where the router  *)
(* left them, is the source program; no stage between the gate passes and  *)
(* the text loses, reorders or turns a gate.  (The conventions of          *)
(* turn_to_phasedx.cpp:45, DecomposeSwapQirPass.cpp:187, QirToQcis.cpp:161 *)
(* and QirToIonQasm.cpp:438 for angles, order and operands.)               *)
EmittedIsFaithful ==
  pass = "Emit" /\ Judged /\ Speaks =>
     IF Records(source) # {} THEN SameOutcomes(source, done)
     ELSE \A psi \in StartStates(WiresOf(source)) :
            SameUpToPhase(SourceEffect(psi), ReadAt(After(Unmeasured(done), psi)))
=============================================================================
