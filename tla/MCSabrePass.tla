---------------------------- MODULE MCSabrePass ----------------------------
EXTENDS SabrePass

Line2 == DeviceOf({<<0, 1>>})
Line3 == DeviceOf({<<0, 1>>, <<1, 2>>})
Gap3  == DeviceOf({<<0, 2>>})             \* no edge names qubit 1
Line4 == DeviceOf({<<0, 1>>, <<1, 2>>, <<2, 3>>})

G(a, b)    == [kind |-> "gate", args |-> <<a, b>>]
M(a)       == [kind |-> "gate", args |-> <<a>>]
S(a, b)    == [kind |-> "swap", args |-> <<a, b>>]
Job(d, regs, prog) == [device |-> d, regs |-> regs, prog |-> prog]

q(i) == <<1, i>>
r(i) == <<2, i>>

MCJobs ==
  { Job(Line3, <<3>>, <<G(q(0), q(1)), G(q(1), q(2)), G(q(0), q(2)), M(q(0))>>),
    Job(Line3, <<2>>, <<G(q(0), q(1)), M(q(1))>>),          \* grows to 3
    Job(Line3, <<1, 2>>, <<G(q(0), r(1)), S(r(0), q(0)), G(r(1), r(0))>>),
    Job(Line3, <<3>>, <<G(q(0), q(1)), S(q(0), q(2)), M(q(0)), G(q(1), q(0)), S(q(1), q(2))>>),
    Job(Line3, <<1, 2>>, <<G(q(0), r(0))>>),                \* leaves a hole
    Job(Line3, <<3>>, <<>>),                                \* nothing to route
    Job(Line2, <<3>>, <<G(q(0), q(1))>>),                   \* too wide
    Job(Gap3, <<3>>, <<G(q(0), q(1)), G(q(0), q(2))>>) }    \* cannot be routed

MCLimits == [iterFloor |-> 3, iterPerGate |-> 1, iterPerQubit |-> 0,
             insFloor |-> 4, insPerTwoQ |-> 1, insPerGate |-> 0]

(* Two or more swaps in front of one gate. *)
GroupJobs ==
  { Job(Line4, <<4>>, <<G(q(0), q(1)), G(q(2), q(3)), G(q(0), q(3))>>),
    Job(Line4, <<4>>, <<G(q(0), q(2)), G(q(1), q(3)), S(q(0), q(3)), G(q(0), q(1))>>),
    Job(Line4, <<4>>, <<S(q(0), q(3)), S(q(1), q(2)), G(q(0), q(1))>>),
    Job(Line4, <<2, 2>>, <<G(q(0), r(1)), M(r(1)), G(q(1), r(0)), G(q(0), q(1))>>) }

AllJobs == MCJobs \cup GroupJobs

(* One array per qubit, and the last one unused: its qubit holds no wire. *)
HoleJobs ==
  { Job(Line3, <<1, 1, 1>>, <<G(q(0), r(0)), M(q(0)), M(r(0))>>),
    Job(Line3, <<1, 2>>, <<G(q(0), r(0))>>) }

(* Program swaps that follow one another. *)
SwapJobs ==
  { Job(Line3, <<3>>, <<S(q(0), q(1)), S(q(1), q(2)), M(q(0))>>) }

(* What SabreSwap is told of its arguments. *)
MCDevices == { j.device : j \in Jobs }

MCCircuits == { Extracted(j) : j \in { i \in Jobs : IsMappable(i) } }

(* The hypothesis of the proofs about the walk; SwapJobs is what it rules out. *)
ASSUME MCDisjointSwaps == Jobs = SwapJobs \/ DisjointSwaps
=============================================================================
