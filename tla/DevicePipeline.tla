--------------------------- MODULE DevicePipeline ---------------------------
(***************************************************************************)
(* The whole of runCompilationPipeline (mlir/tools/CompilationPipeline.cpp) *)
(* on the gates of a program: BasisPipeline; at -O1, between the           *)
(* decomposition and the end, the optimisers, each a pass over the whole   *)
(* program; then, as the options ask for it, the merging of one-wire gates *)
(* for u3 or a trapped-ion device, routing, the decomposition of the       *)
(* router's swaps, and the text of a backend.                              *)
(*                                                                         *)
(* The pass manager (mlir/transforms/pass_manager.hpp) runs the optimisers *)
(* in a fixed order four times, in a random order, or as a file says; here *)
(* any pass may follow any other, which takes in every order and number of *)
(* passes.                                                                 *)
(***************************************************************************)
EXTENDS BasisPipeline, BlockMerging, DiagonalBeforeMeasure, CommutativeCancellation,
        DeviceGates

Optimising == pass = "optimise" /\ failure = "none"

(* What SingleQubitGateMergingPass and ConsolidateBlocks are built with. *)
basic_gate == IF basis = {} THEN {"rx", "ry", "rz", "h", "cz"} ELSE basis

(* A pass returns a program, or does not return. *)
Becomes(program) == /\ todo' = program
                    /\ UNCHANGED <<source, options, pass, done, pos, failure>>
BecomesOrCrashes(result) ==
  /\ todo' = IF result.crash THEN todo ELSE result.gates
  /\ failure' = IF result.crash THEN "crash" ELSE "none"
  /\ UNCHANGED <<source, options, pass, done, pos>>

RunRemoveIdentityEquivalent == Optimising /\ Becomes(RemoveIdentityEquivalent(todo))
RunSingleQubitIdentityPairRemoval == Optimising /\ Becomes(SingleQubitIdentityPairRemoval(todo))
RunCNOTIdentityPairRemoval  == Optimising /\ Becomes(CNOTIdentityPairRemoval(todo))
RunDuplicateResetRemoval    == Optimising /\ Becomes(DuplicateResetRemoval(todo))
RunRemoveDiagonal ==
  Optimising /\ \E result \in RemoveDiagonalBeforeMeasure(todo) : BecomesOrCrashes(result)
RunCommutativeCancellation  == Optimising /\ BecomesOrCrashes(CommutativeCancellation(todo))
RunConsolidateBlocks ==
  Optimising /\ \E result \in ConsolidateBlocks(basic_gate, todo) : BecomesOrCrashes(result)
RunSingleQubitGateMerging ==
  Optimising /\ \E gates \in SingleQubitGateMerging(basic_gate, todo) : Becomes(gates)

(* trans_basicgate between the optimisers: EndTranslate comes back here. *)
StartTranslate ==
  /\ Optimising /\ basis # {}
  /\ pass' = "translate" /\ todo' = Collected(todo)
  /\ UNCHANGED <<source, options, done, pos, failure>>

EndOptimise ==
  /\ Optimising
  /\ pass' = "end" /\ done' = todo /\ todo' = <<>>
  /\ UNCHANGED <<source, options, pos, failure>>

Optimise == \/ RunRemoveIdentityEquivalent \/ RunSingleQubitIdentityPairRemoval
            \/ RunCNOTIdentityPairRemoval \/ RunDuplicateResetRemoval
            \/ RunRemoveDiagonal \/ RunCommutativeCancellation
            \/ RunConsolidateBlocks \/ RunSingleQubitGateMerging
PNext == Next \/ Optimise \/ StartTranslate \/ EndOptimise

-----------------------------------------------------------------------------
(* The stages for a device are passes over the whole program, in "done". *)
(* It is stage's turn. *)
IsNext(stage) == /\ failure = "none"
                 /\ stage \in Ahead
                 /\ \A other \in Ahead : Order[stage] <= Order[other]
Leaves(stage, gates) == /\ pass' = stage /\ done' = gates
                        /\ UNCHANGED <<source, options, todo, pos, failure>>
Fails(how) == /\ failure' = how
              /\ UNCHANGED <<source, options, pass, done, todo, pos>>

(* totalMat reads an attribute of every gate of a run that only            *)
(* ConsolidateBlocks sets, and dereferences null where it is missing.      *)
(* Unoptimised programs have none that bears it; which of the gates of an  *)
(* optimised one were written after the last ConsolidateBlocks is not kept *)
(* here, so the pass may end either way.                                   *)
MergeU3 ==
  /\ IsNext("MergeU3")
  /\ level = 1 \/ ForwardRuns(done) = <<>>
  /\ \E gates \in Merge_u3_gate(done) : Leaves("MergeU3", gates)
MergeU3Crashes ==
  IsNext("MergeU3") /\ ForwardRuns(done) # <<>> /\ Fails("crash")

TurnToPhasedx ==
  IsNext("TurnToPhasedx") /\ \E gates \in turn_to_phasedx(done) : Leaves("TurnToPhasedx", gates)

Rename(g, image) ==
  [g EXCEPT !.wires = [n \in DOMAIN @ |-> image[@[n]]],
            !.parts = [k \in DOMAIN @ |-> [@[k] EXCEPT !.wires = [n \in DOMAIN @ |-> image[@[n]]]]]]

(* SABRE, of which SabrePass is the model: here it inserts a swap of two   *)
(* wires of the program somewhere, or none, and moves the gates behind it. *)
Sabre ==
  /\ IsNext("Sabre")
  /\ \/ Leaves("Sabre", done)
     \/ \E i \in 0 .. Len(done) : \E u, v \in UNION {WiresIn(done[k]) : k \in DOMAIN done} :
          LET swap  == Gate("swap", <<u, v>>, <<>>)
              moved == [q \in Wires |-> IF q = u THEN v ELSE IF q = v THEN u ELSE q]
              later == [k \in 1 .. Len(done) - i |-> Rename(done[i + k], moved)]
          IN  /\ u < v
              /\ pass' = "Sabre" /\ done' = SubSeq(done, 1, i) \o <<swap>> \o later
              /\ pos' = [q \in Wires |-> moved[pos[q]]]
              /\ UNCHANGED <<source, options, todo, failure>>

DecomposeSwaps ==
  /\ IsNext("DecomposeSwaps")
  /\ \E gates \in runDecomposeSwapQir(options.basicGateSet, done) : Leaves("DecomposeSwaps", gates)
DecomposeSwapsFails ==
  /\ IsNext("DecomposeSwaps")
  /\ runDecomposeSwapQir(options.basicGateSet, done) = {} /\ Fails("assert")

Emit == IsNext("Emit") /\ Leaves("Emit", translate(options.emitBackend, done))

DeviceStep == \/ MergeU3 \/ MergeU3Crashes \/ TurnToPhasedx
              \/ Sabre \/ DecomposeSwaps \/ DecomposeSwapsFails \/ Emit
DNext == PNext \/ DeviceStep
=============================================================================
