--------------------------- MODULE MCHybridProgram ---------------------------
EXTENDS HybridProgram

MCRanks == 0 .. 2
MCDrivers == {"here", "there"}

K(k) == [op |-> "kernel", name |-> k]
D(m) == [op |-> "dispatch", map |-> m]
H    == [op |-> "hardware"]

MCPrograms ==
  { <<K("bell"), K("coin")>>, <<K("bell"), D([r \in {1, 2} |-> "coin"]), K("coin")>>,
    <<D([r \in {0} |-> "bell"]), K("bell")>>, <<H, H>>, <<K("bell")>>, <<H>> }

(* Kernels of one and two bits; "branch" measures its second qubit in some *)
(* shots only, and nothing at all in one.                                  *)
MCRuns ==
  [bell   |-> { <<<<0, 0>>, <<1, 1>>, <<0, 0>>>>, <<<<1, 1>>>> },
   coin   |-> { <<<<1>>, <<0>>, <<1>>>>, <<<<0>>>> },
   branch |-> { <<<<1, 0>>, <<>>, <<1>>, <<1, 1>>>>, <<<<1>>, <<1, 0>>>> }]

(* The kernel bell is edited between two builds, and built with another    *)
(* optimisation level; elsewhere flip has the text of coin.                *)
Job(text, options, backend) ==
  [kernels |-> <<"bell", "coin">>, text |-> [bell |-> text, coin |-> "coin"],
   options |-> options, backend |-> backend]

MCJobs ==
  [here  |-> { Job("bell", "O0", "qir-runner"), Job("branch", "O1", "qir-runner"),
               Job("bell", "O0", "qasm-backend") },
   there |-> { [kernels |-> <<"flip">>, text |-> [flip |-> "coin"],
                options |-> "O0", backend |-> "qir-runner"] }]

MCMaxStarts == [here |-> 2, there |-> 1]

MCCpuCounts == {1, 2}

(* The theorems about the logs of the ranks are about such runs.           *)
ASSUME MCRunsFit == RunsFit
=============================================================================
