----------------------------- MODULE SabrePass -----------------------------
(***************************************************************************)
(* SabrePass::run (passes/lib/SabrePass.cpp) on one kernel: pad the qubit  *)
(* arrays to the device, extract the circuit, choose an initial layout by  *)
(* routing back and forth (SabreLayout::run), route once more from it,     *)
(* insert the recorded swaps into the block, and rewrite every operand to  *)
(* a physical index in one walk over the block (applyPhysicalLayoutQir).   *)
(* Every call of SabreSwap::run is stepped through with the actions of     *)
(* module SabreSwap, whose variables are those of the call in progress.    *)
(***************************************************************************)
EXTENDS SabreSwap

CONSTANTS
  Jobs,            \* what the pass may be run on: a device and a kernel
  LayoutTrials,    \* opts.layoutTrials; qllvm-compile sets 2
  MaxIterations    \* opts.maxIterations; 3 by default

(* A job is [device, regs, prog]: regs the sizes of the qubit arrays the   *)
(* kernel allocates, prog its calls [kind, args], where an argument is an  *)
(* array and an index into it.                                             *)
IsKernel(regs, prog) ==
  /\ regs \in Seq(Nat)
  /\ DOMAIN prog = 1 .. Len(prog)
  /\ \A c \in DOMAIN prog :
       /\ prog[c].kind \in {"gate", "swap"}
       /\ prog[c].args \in Seq((DOMAIN regs) \X Nat)
       /\ Len(prog[c].args) \in {1, 2}
       /\ \A k \in DOMAIN prog[c].args : prog[c].args[k][2] < regs[prog[c].args[k][1]]
       /\ Len(prog[c].args) = 2 => prog[c].args[1] # prog[c].args[2]
       /\ prog[c].kind = "swap" => Len(prog[c].args) = 2

ASSUME JobsAssumption ==
  \A j \in Jobs : j.device \in Devices /\ IsKernel(j.regs, j.prog)

ASSUME TrialsAssumption == LayoutTrials \in Nat \ {0} /\ MaxIterations \in Nat

VARIABLES
  job,
  phase,                       \* where run() is
  trial, turn,                 \* the loops of SabreLayout::run
  best,                        \* <<bestLayout, bestSwaps>>, or <<>>
  start,                       \* the initial layout of the current call
  block,                       \* the quantum calls of the kernel, in order
  emitted,                     \* insertions placed in the block so far
  at,                          \* next call of the block the walk looks at
  current,                     \* the layout the walk maintains
  out                          \* the rewritten calls

(* What the rewritten calls do to a device: which wire's state each qubit  *)
(* holds, and which call was performed on which wires' states.             *)
VARIABLES held, trace

layoutVars == <<trial, turn, best>>
walkVars   == <<at, current, out, held, trace>>
passVars == <<job, vars, phase, layoutVars, start, block, emitted, walkVars>>

----------------------------------------------------------------------------
(* Padding and extraction. *)

Offset(regs, r) ==
  LET S[k \in 0 .. Len(regs)] == IF k = 0 THEN 0 ELSE S[k-1] + regs[k]
  IN  S[r - 1]

TotalSize(regs) == Offset(regs, Len(regs) + 1)

(* The early returns of run(): the kernel is left as it is. *)
IsMappable(j) ==
  /\ j.device.size > 0
  /\ j.regs # <<>>
  /\ \A r \in DOMAIN j.regs : j.regs[r] >= 1
  /\ TotalSize(j.regs) <= j.device.size

(* Only the first array grows, up to the width of the device. *)
Expanded(j) ==
  [j.regs EXCEPT ![1] = @ + j.device.size - TotalSize(j.regs)]

FlatIndex(j, arg) == Offset(Expanded(j), arg[1]) + arg[2]

FlatGates(j) ==
  [c \in DOMAIN j.prog |->
     [k \in DOMAIN j.prog[c].args |-> FlatIndex(j, j.prog[c].args[k])]]

(* Mutant: the array size is not consulted. *)
ActiveWidth(j) ==
  LET used == UNION { WiresOf(FlatGates(j)[c]) : c \in DOMAIN j.prog }
  IN  IF used = {} THEN 0 ELSE 1 + Max(used)

(* numQubits: the wires up to the last one used, or the size of the first *)
(* array.                                                                  *)
Width(j) ==
  LET used   == UNION { WiresOf(FlatGates(j)[c]) : c \in DOMAIN j.prog }
      active == IF used = {} THEN 0 ELSE 1 + Max(used)
  IN  IF active >= Expanded(j)[1] THEN active ELSE Expanded(j)[1]

Extracted(j) == CircuitOf(Width(j), FlatGates(j))

Forward == Extracted(job)

(***************************************************************************)
(* The walk follows a swap of the kernel although the simulation does not, *)
(* and is put right by the next gate or inserted swap.  Between the two it *)
(* is wrong about the wires of that swap only, so it still places the next *)
(* swap of the kernel as long as that one acts on other wires.             *)
(***************************************************************************)
SwapsOnly(j, c, d) == \A i \in c .. d : j.prog[i].kind = "swap"

SwapRunsAreDisjoint(j) ==
  \A c, d \in DOMAIN j.prog :
    c < d /\ SwapsOnly(j, c, d) =>
      WiresOf(FlatGates(j)[c]) \cap WiresOf(FlatGates(j)[d]) = {}

DisjointSwaps == \A j \in Jobs : IsMappable(j) => SwapRunsAreDisjoint(j)

(* A call of SabreSwap::run(c, initial). *)
Call(c, initial) ==
  /\ circ' = c
  /\ layout' = initial
  /\ executed' = {}
  /\ pending' = c.deps
  /\ iterations' = 0
  /\ insertions' = <<>>
  /\ layoutBefore' = [g \in {} |-> initial]
  /\ seen' = {initial}
  /\ pc' = "routing"
  /\ start' = initial
  /\ UNCHANGED device

Returned == pc = "done"

----------------------------------------------------------------------------

NoWire == -1

PassInit ==
  /\ job \in Jobs
  /\ device = job.device
  /\ circ = CircuitOf(0, <<>>)
  /\ layout = <<>> /\ executed = {} /\ pending = {} /\ iterations = 0
  /\ insertions = <<>> /\ layoutBefore = <<>> /\ seen = {} /\ pc = "done"
  /\ phase = "start"
  /\ trial = 0 /\ turn = 0 /\ best = <<>> /\ start = <<>>
  /\ block = <<>> /\ emitted = 0
  /\ at = 1 /\ current = <<>> /\ out = <<>>
  /\ held = [p \in Phys(device) |-> NoWire] /\ trace = <<>>

LeaveUnmapped ==
  /\ phase = "start" /\ ~IsMappable(job)
  /\ phase' = "unmapped"
  /\ UNCHANGED <<job, vars, layoutVars, start, block, emitted, walkVars>>

(* Mutant: wires are drawn with replacement. *)
Drawn(c) == [Wires(c) -> Phys(device)]

(* A shuffled placement of the wires of a circuit. *)
Shuffled(c) ==
  { f \in [Wires(c) -> Phys(device)] : InjectiveOn(Wires(c), f) }

(* SabreLayout::run: a trial starts from a shuffled placement. *)
StartTrial ==
  /\ \/ phase = "start" /\ IsMappable(job)
     \/ phase = "trial" /\ Returned /\ turn > 2 * MaxIterations
  /\ Len(Forward.gates) > 0 /\ trial < LayoutTrials
  /\ \E shuffled \in Shuffled(Forward) : Call(Forward, shuffled)
  /\ turn' = 0
  /\ phase' = "trial"
  /\ UNCHANGED <<job, trial, best, block, emitted, walkVars>>

(* One step of the current call of SabreSwap::run. *)
SwapStep ==
  /\ phase \in {"trial", "route"}
  /\ Next
  /\ UNCHANGED <<job, phase, layoutVars, start, block, emitted, walkVars>>

(* Forward, backward, forward, ...: each call starts where the last ended; *)
(* the last one, forward again, is the one that is scored.                 *)
NextTurn ==
  /\ phase = "trial" /\ Returned /\ turn < 2 * MaxIterations
  /\ turn' = turn + 1
  /\ Call(IF turn' % 2 = 0 THEN Forward ELSE ReverseCircuit(Forward), layout)
  /\ UNCHANGED <<job, phase, trial, best, block, emitted, walkVars>>

(* Mutant: the layout kept is the one the scored call ended with. *)
ScoreTrialFinalLayout ==
  /\ phase = "trial" /\ Returned /\ turn = 2 * MaxIterations
  /\ best' = IF best = <<>> \/ Len(insertions) < best[2]
             THEN <<layout, Len(insertions)>> ELSE best
  /\ turn' = turn + 1
  /\ trial' = trial + 1
  /\ UNCHANGED <<job, vars, phase, start, block, emitted, walkVars>>

(* Mutant: a trial that is no better than the last is not counted. *)
ScoreTrialUncounted ==
  /\ phase = "trial" /\ Returned /\ turn = 2 * MaxIterations
  /\ best' = IF best = <<>> \/ Len(insertions) < best[2]
             THEN <<start, Len(insertions)>> ELSE best
  /\ turn' = turn + 1
  /\ trial' = IF best' = best THEN trial ELSE trial + 1
  /\ UNCHANGED <<job, vars, phase, start, block, emitted, walkVars>>

(* The trial with the fewest insertions wins; its layout is the one its    *)
(* scored call started from.                                               *)
ScoreTrial ==
  /\ phase = "trial" /\ Returned /\ turn = 2 * MaxIterations
  /\ best' = IF best = <<>> \/ Len(insertions) < best[2]
             THEN <<start, Len(insertions)>> ELSE best
  /\ turn' = turn + 1
  /\ trial' = trial + 1
  /\ UNCHANGED <<job, vars, phase, start, block, emitted, walkVars>>

(* SabrePass::run: the final routing, from the layout that won. *)
StartRouting ==
  /\ phase = "trial" /\ turn > 2 * MaxIterations /\ trial = LayoutTrials
  /\ Call(Forward, best[1])
  /\ phase' = "route"
  /\ UNCHANGED <<job, layoutVars, block, emitted, walkVars>>

(* A kernel without gates: the trivial layout, and nothing to route. *)
StartEmpty ==
  /\ phase = "start" /\ IsMappable(job) /\ Len(Forward.gates) = 0
  /\ Call(Forward, [v \in Wires(Forward) |-> v])
  /\ phase' = "route"
  /\ UNCHANGED <<job, layoutVars, block, emitted, walkVars>>

(* report_fatal_error: a gate has no snapshot. *)
Fatal ==
  /\ phase = "route" /\ Returned
  /\ executed # GateIds(circ)
  /\ phase' = "fatal"
  /\ UNCHANGED <<job, vars, layoutVars, start, block, emitted, walkVars>>

GateItem(g)  == [type |-> job.prog[g].kind, id |-> g]
RouteItem(k) == [type |-> "route", id |-> k]

BeginEmission ==
  /\ phase = "route" /\ Returned
  /\ executed = GateIds(circ)
  /\ block' = [g \in GateIds(circ) |-> GateItem(g)]
  /\ phase' = "emit"
  /\ UNCHANGED <<job, vars, layoutVars, start, emitted, walkVars>>

(***************************************************************************)
(* The swaps anchored to one gate form a group.  They are created last to  *)
(* first, each in front of the one created before it, so they end up in    *)
(* front of the gate in the order of the simulation.                       *)
(***************************************************************************)
GroupEnd(i) ==
  Min({ j \in (i + 1) .. (Len(insertions) + 1) :
          \/ j = Len(insertions) + 1
          \/ insertions[j].before # insertions[i].before })

(* Mutant: insertion after the gate. *)
Behind(g, items) ==
  LET pos == CHOOSE p \in DOMAIN block : block[p] = GateItem(g)
  IN  SubSeq(block, 1, pos) \o items \o SubSeq(block, pos + 1, Len(block))

(* Mutant: the gate is replaced. *)
InsteadOf(g, items) ==
  LET pos == CHOOSE p \in DOMAIN block : block[p] = GateItem(g)
  IN  SubSeq(block, 1, pos - 1) \o items \o SubSeq(block, pos + 1, Len(block))

InFrontOf(g, items) ==
  LET pos == CHOOSE p \in DOMAIN block : block[p] = GateItem(g)
  IN  SubSeq(block, 1, pos - 1) \o items \o SubSeq(block, pos, Len(block))

(* Mutant: forward insertion, the last swap of the group comes first. *)
StackedItems(i, j) == [m \in 1 .. (j - i) |-> RouteItem(j - m)]

GroupItems(i, j) == [m \in 1 .. (j - i) |-> RouteItem(i + m - 1)]

EmitGroup ==
  /\ phase = "emit" /\ emitted < Len(insertions)
  /\ LET i == emitted + 1
         j == GroupEnd(i)
     IN  /\ block' = InFrontOf(insertions[i].before, GroupItems(i, j))
         /\ emitted' = j - 1
  /\ UNCHANGED <<job, vars, phase, layoutVars, start, walkVars>>

----------------------------------------------------------------------------
(* applyPhysicalLayoutQir. *)

BeginWalk ==
  /\ phase = "emit" /\ emitted = Len(insertions)
  /\ phase' = "walk"
  /\ current' = start
  /\ held' = [p \in Phys(device) |->
                IF \E v \in Wires(circ) : start[v] = p
                THEN CHOOSE v \in Wires(circ) : start[v] = p ELSE NoWire]
  /\ UNCHANGED <<job, vars, layoutVars, start, block, emitted, at, out, trace>>

Placed(g, l) == [k \in DOMAIN circ.gates[g] |-> l[circ.gates[g][k]]]

(* A swap inserted by the pass: the walk restores the snapshot taken when  *)
(* it was recorded, rewrites the swap and follows it.                      *)
WalkRoutingSwap ==
  /\ phase = "walk" /\ at <= Len(block) /\ block[at].type = "route"
  /\ LET ins == insertions[block[at].id]
         p   == ins.layout[ins.v0]
         q   == ins.layout[ins.v1]
     IN  /\ current' = Swapped(ins.layout, ins.v0, ins.v1)
         /\ out' = Append(out, <<p, q>>)
         /\ held' = [held EXCEPT ![p] = held[q], ![q] = held[p]]
  /\ at' = at + 1
  /\ UNCHANGED <<job, vars, phase, layoutVars, start, block, emitted, trace>>

(* Rewriting a call of the kernel: its operands become physical, and the   *)
(* device performs the gate on whatever states are there.                  *)
Rewrite(g, l) ==
  /\ out' = Append(out, Placed(g, l))
  /\ trace' = Append(trace, [call  |-> g,
                             wires |-> [k \in DOMAIN circ.gates[g] |->
                                          held[Placed(g, l)[k]]]])
  /\ at' = at + 1
  /\ UNCHANGED <<job, vars, phase, layoutVars, start, block, emitted, held>>

(* Mutant: the layout is followed from swap to swap only. *)
WalkGateUnsnapshotted ==
  /\ phase = "walk" /\ at <= Len(block) /\ block[at].type = "gate"
  /\ Rewrite(block[at].id, current)
  /\ UNCHANGED current

(* A gate of the kernel: the snapshot of the simulation is restored. *)
WalkGate ==
  /\ phase = "walk" /\ at <= Len(block) /\ block[at].type = "gate"
  /\ current' = layoutBefore[block[at].id]
  /\ Rewrite(block[at].id, current')

(* A swap written in the kernel: rewritten with the layout as it stands,   *)
(* which is then swapped although the call stays in the kernel.            *)
WalkProgramSwap ==
  /\ phase = "walk" /\ at <= Len(block) /\ block[at].type = "swap"
  /\ Rewrite(block[at].id, current)
  /\ LET gate == circ.gates[block[at].id]
     IN  current' = Swapped(current, gate[1], gate[2])

EndWalk ==
  /\ phase = "walk" /\ at > Len(block)
  /\ phase' = "mapped"
  /\ UNCHANGED <<job, vars, layoutVars, start, block, emitted, walkVars>>

PassNext ==
  \/ LeaveUnmapped \/ StartTrial \/ SwapStep \/ NextTurn \/ ScoreTrial
  \/ StartRouting \/ StartEmpty \/ Fatal \/ BeginEmission \/ EmitGroup
  \/ BeginWalk \/ WalkRoutingSwap \/ WalkGate \/ WalkProgramSwap \/ EndWalk

PassSpec == PassInit /\ [][PassNext]_passVars /\ WF_passVars(PassNext)

----------------------------------------------------------------------------

(* Every variable has its type: the layouts of the pass keep the wires on  *)
(* distinct qubits, the block holds each call once and each swap at most   *)
(* once, and no two qubits hold the same wire.                             *)
PassTypeOK ==
  /\ job \in Jobs
  /\ phase \in {"start", "unmapped", "trial", "route", "fatal", "emit", "walk", "mapped"}
  /\ trial \in 0 .. LayoutTrials /\ turn \in 0 .. (2 * MaxIterations + 1)
  /\ best # <<>> => best[1] \in Placements(Forward) /\ best[2] \in Nat
  /\ phase # "start" /\ phase # "unmapped" =>
       start \in Placements(circ) /\ TypeOK
  /\ \A p, q \in DOMAIN block : block[p] = block[q] => p = q
  /\ emitted \in 0 .. Len(insertions)
  /\ at \in 1 .. (Len(block) + 1)
  /\ held \in [Phys(device) -> Wires(circ) \cup {NoWire}]
  /\ \A p, q \in Phys(device) : held[p] = held[q] /\ held[p] # NoWire => p = q

(***************************************************************************)
(* Every two-qubit call of the rewritten kernel, inserted or written by    *)
(* the user, acts on two qubits that the device couples.                   *)
(***************************************************************************)
DeviceLegal ==
  \A k \in DOMAIN out : Len(out[k]) = 2 => Adjacent(device, out[k][1], out[k][2])

(***************************************************************************)
(* The rewritten kernel performs the calls of the kernel, in their order   *)
(* and on the wires they were written for ("runtime order matches          *)
(* simulation", SabrePass.cpp), and all of them once the walk has ended.   *)
(***************************************************************************)
Calls(j) == [c \in DOMAIN j.prog |-> [call |-> c, wires |-> FlatGates(j)[c]]]

Logical == INSTANCE LogicalProgram WITH
             Programs <- { Calls(j) : j \in Jobs }, program <- Calls(job)

ImplementsProgram == Logical!Spec

MapsWholeProgram == phase = "mapped" => trace = Calls(job)

(***************************************************************************)
(* The final routing is the one that was scored: it inserts as many swaps  *)
(* as the winning trial counted ("must match the trial we scored",         *)
(* SabreLayout.cpp).                                                       *)
(***************************************************************************)
ScoredTrialIsReplayed ==
  phase \in {"emit", "walk", "mapped"} /\ best # <<>> => Len(insertions) = best[2]

(***************************************************************************)
(* A kernel with one qubit array is never refused on a connected device:   *)
(* the padded array puts a wire on every qubit.                            *)
(***************************************************************************)
OneArrayIsMapped ==
  Len(job.regs) = 1 /\ Connected(device) => phase # "fatal"

(***************************************************************************)
(* Forward and backward, gates run in the order of the circuit that is     *)
(* routed: "the previous construction ... routed backwards circuits in     *)
(* forward order" (SabreLayout.cpp).                                       *)
(***************************************************************************)
EveryCallRunsInOrder == phase \in {"trial", "route"} => ExecutedIsPrefix

(* The pass returns. *)
Finishes == <>(phase \in {"unmapped", "mapped", "fatal"})

(***************************************************************************)
(* The pass refuses a kernel only when routing ran into its limits ("SABRE *)
(* routing did not complete (iteration/insertion limits or stale layout)", *)
(* SabrePass.cpp), on a device that can route any circuit.                 *)
(***************************************************************************)
RefusesOnlyAtLimits ==
  phase = "fatal" /\ Connected(device) => ~WithinLimits

(***************************************************************************)
(* Each call of the rewritten kernel lands on the wires it was written for *)
(* ("maintain layout[logical]->physical, updating on each                  *)
(* __quantum__qis__swap (Sabre routing or user swap) before rewriting that *)
(* instruction.  This matches hardware execution order",                   *)
(* ApplyLayoutQirPass.hpp).                                                *)
(***************************************************************************)
CallsKeepTheirWires ==
  \A k \in DOMAIN trace : trace[k] = Calls(job)[k]
============================================================================
