---------------------------- MODULE HybridProgram ----------------------------
(***************************************************************************)
(* A hybrid program from its build to its end: the driver started in Here  *)
(* builds it, beside other drivers, and the ranks of the program then run  *)
(* the kernels that lie in that directory.                                 *)
(***************************************************************************)
EXTENDS HybridBuild, MpiHistogram

CONSTANTS
  Here,     \* the directory of the program
  MaxCalls  \* bound: calls of a program that is built first

ASSUME HereAssumption == Here \in Drivers

(* What the texts of the kernels may print is known.                       *)
ASSUME TextsAssumption ==
  \A j \in Jobs[Here] : \A k \in Range(j.kernels) : j.text[k] \in DOMAIN Runs

(* qir-runner loads the file <name>.bc beside the executable; it can make  *)
(* nothing of a part of one.                                               *)
Loadable ==
  LET paths == { p \in DOMAIN disk : p[1] = "qir-runner" /\ p[2] = Here /\ disk[p].whole }
  IN  [k \in { p[3] : p \in paths } |-> disk[<<"qir-runner", Here, k>>].text]

(* The stubs the driver generates: one per kernel, for qir-runner or for   *)
(* hardware; the kernels of the rank map are named on the command line.    *)
Links ==
  \A i \in DOMAIN program :
    IF job[Here].backend = "qir-runner"
    THEN \/ program[i].op = "kernel" /\ program[i].name \in Range(job[Here].kernels)
         \/ program[i].op = "dispatch" /\ Range(program[i].map) \subseteq Range(job[Here].kernels)
    ELSE program[i].op = "hardware"

HybridInit ==
  /\ Init
  /\ BuiltBefore \/ (BuildInit /\ Len(program) <= MaxCalls)
  /\ Links
  /\ bitcode = Loadable

(* The kernels may be edited between two builds, not what the C++ calls.   *)
Building ==
  /\ BuildNext /\ UNCHANGED vars
  /\ Links' /\ bitcode' = Loadable'

(* The ranks read nothing another driver writes: that they start when no   *)
(* build is going on anywhere is a bound.                                  *)
Launched == state[Here] = "built" /\ \A d \in Drivers : state[d] # "building"

Running(r) ==
  /\ Launched /\ Step(r)
  /\ UNCHANGED <<buildVars, bitcode>>

HybridNext == Building \/ \E r \in Ranks : Running(r)

(* A driver goes on unless it is killed, and so do the ranks.              *)
HybridSpec ==
  /\ HybridInit /\ [][HybridNext]_<<buildVars, vars, bitcode>>
  /\ \A d \in Drivers : BuildGoesOn(d)
  /\ []<>(~Launched \/ Stuck) \/ []<><<Next>>_vars

----------------------------------------------------------------------------

(***************************************************************************)
(* Through builds beside each other, kills, edits and new builds, what the *)
(* ranks do is what the runtime does over the kernels as they are written: *)
(* a histogram never comes from another kernel, another text or half a     *)
(* file.                                                                   *)
(***************************************************************************)
Written == INSTANCE MpiHistogram WITH bitcode <- job[Here].text

RunsAsWritten == Written!Runtime

(***************************************************************************)
(* The build ends, and when there is a program every rank gets through it, *)
(* unless the root aborts it (MPI_Abort, qllvm-mpiq-runtime.cpp).          *)
(***************************************************************************)
BuildsAndCompletes ==
  <>[](\/ state[Here] \in {"error", "killed"}
       \/ Launched /\ (aborted \/ \A r \in Ranks : at[r] > Len(program)))
=============================================================================
