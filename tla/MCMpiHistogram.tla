--------------------------- MODULE MCMpiHistogram ---------------------------
EXTENDS MpiHistogram

MCRanks == 0 .. 2

K(k) == [op |-> "kernel", name |-> k]
D(m) == [op |-> "dispatch", map |-> m]
H    == [op |-> "hardware"]

(* Kernels with more bits than an entry of the buffer has room for. *)
LongPrograms == { <<K("bell"), K("wide")>> }
LongRuns ==
  [bell |-> { <<<<0, 0>>, <<1, 1>>>> },
   wide |-> { <<<<0, 0, 0>>, <<1, 1, 1>>>> }]
=============================================================================
