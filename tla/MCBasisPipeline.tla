-------------------------- MODULE MCBasisPipeline --------------------------
(***************************************************************************)
(* Jobs for BasisPipeline: every gate kind whose decomposition is meant to *)
(* be exact, alone, on wires out of order and with angles that are no      *)
(* multiple of a quarter turn; programs of several gates; and programs     *)
(* that must be refused.                                                   *)
(***************************************************************************)
EXTENDS CompiledEffect

mcWires == 1 .. 5

t == 24     \* 3 pi/8: can be halved three times
f == 40
l == 16
g == 12

(* Gates of the gate set, which decomposition leaves alone. *)
Plain == {Gate(n, <<2>>, <<>>) : n \in {"x", "y", "z", "h", "s", "sdg", "t", "tdg", "sx"}}
    \cup {Gate(n, <<2>>, <<t>>) : n \in {"rx", "ry", "rz", "p"}}
    \cup {Gate("u3", <<2>>, <<t, f, l>>), Gate("cp", <<3, 1>>, <<t>>)}
    \cup {Gate(n, <<3, 1>>, <<>>) : n \in {"cx", "cz", "swap"}}
(* Gates it rewrites. *)
Small == {Gate(n, <<2>>, <<>>) : n \in {"sxdg", "X2P", "X2M", "Y2P", "Y2M"}}
    \cup {Gate(n, <<2>>, <<t>>) : n \in {"u1", "mcp", "mcrx"}}
    \cup {Gate(n, <<2>>, <<t, f>>) : n \in {"u2", "r", "rxy"}}
    \cup {Gate(n, <<2>>, <<t, f, l>>) : n \in {"u", "u0"}}
    \cup {Gate(n, <<3, 1>>, <<>>) : n \in {"cy", "ch", "dcx", "iswap", "mcx"}}
    \cup {Gate(n, <<3, 1>>, <<t>>) : n \in {"cu1", "crx", "cry", "crz", "rxx", "ryy",
                                              "rzz", "rzx", "cxz", "mcrz"}}
    \cup {Gate("cu3", <<3, 1>>, <<t, f, l>>), Gate("cu", <<3, 1>>, <<t, f, l, g>>)}
Large == {Gate(n, <<4, 1, 3>>, <<>>) : n \in {"ccx", "ccz", "cswap", "rccx", "mcx"}}
    \cup {Gate("ms", <<1, 4, 3>>, <<t>>)}
    \cup {Gate(n, <<4, 2, 1, 3>>, <<t>>) : n \in {"mcp", "mcrx", "mcry", "mcrz"}}
(* Gates whose rules write another operation, or whose name has no meaning *)
(* stated anywhere.                                                        *)
Differing == {Gate(n, <<2, 1>>, <<>>) : n \in {"ecr", "cs", "csdg", "csx"}}
    \cup {Gate("cpx", <<2, 1>>, <<t>>), Gate("XY2P", <<1>>, <<t>>), Gate("XY2M", <<1>>, <<t>>)}
    \cup {Gate(n, <<4, 2, 1, 3>>, <<>>) : n \in {"c3x", "c3sqrtx", "rc3x", "mcx"}}
    \cup {Gate(n, <<4, 2, 1, 3, 5>>, <<>>) : n \in {"c4x", "mcx"}}
    \cup {Gate(n, <<4, 2, 1, 3, 5>>, <<t>>) : n \in {"mcp", "mcrx", "mcry", "mcrz"}}
Several == <<Gate("ccx", <<1, 2, 3>>, <<>>), Gate("swap", <<3, 2>>, <<>>),
             Gate("ryy", <<1, 3>>, <<f>>)>>
Refused == {<<Gate("fsim", <<1>>, <<>>)>>, <<Gate("cu1", <<1, 2>>, <<>>)>>,
            <<Gate("h", <<1>>, <<>>), Gate("rz", <<1>>, <<>>)>>}
Single(gates) == {<<x>> : x \in gates}

(* The gate sets of test/compiler_correctness_test.py:43, the one the      *)
(* driver asks for, and others that reach the remaining rules.             *)
czSet     == {"rx", "ry", "rz", "h", "cz"}
cxSet     == {"rx", "ry", "rz", "h", "cx"}
tyxonqSet == {"rz", "sx", "x", "cx"}
u3Set     == {"u3", "cz"}
hybridSet == {"rx", "ry", "rz", "cz", "h", "x", "y", "z"}
others    == {{"u3", "cx"}, {"rx", "ry", "rz", "h", "cy"}, {"rx", "ry", "cx"}, {"rz", "rx", "cx"}}

(* u3 with the angles at which a sequence is shortened, and others. *)
EulerCases == {Gate("u3", <<1>>, <<x, y, z>>) :
                 x \in {0, 32, 64, -32, t, 96, 160}, y, z \in {0, 32, 64, -64, t}}

(* A measurement between the gates that are rewritten. *)
Halfway == <<Gate("cy", <<1, 2>>, <<>>), Mz(1), H(1)>>

mcUnjudged == Single(Differing) \cup {Halfway}
none       == {}

Options(B, optLevel, backend, sabre) ==
  [basicGateSet |-> B, optLevel |-> optLevel, emitBackend |-> backend, sabre |-> sabre]
Unoptimised(programs, bases) == programs \X {Options(B, 0, "none", FALSE) : B \in bases}
mcJobs == Unoptimised(Single(Plain), {{}, czSet, cxSet, tyxonqSet, u3Set, hybridSet} \cup others)
     \cup Unoptimised(Single(Small), {{}, czSet, cxSet, u3Set, hybridSet, {"u3", "cx"}})
     \cup Unoptimised(Single(Large) \cup Single(Differing), {{}, czSet, cxSet})
     \cup Unoptimised({Several}, {{}, hybridSet, cxSet, u3Set})
     \cup Unoptimised({Halfway}, {hybridSet, cxSet, u3Set})
     \cup Unoptimised(Single(EulerCases), {hybridSet, tyxonqSet, {"rz", "rx", "cx"}, {"rx", "ry", "cx"}})
     \cup Unoptimised(Refused, {{}, czSet})

-----------------------------------------------------------------------------
(* Programs to optimise.  The measured ones measure at the end, or between *)
(* one-wire gates, and have one gate of two wires that is diagonal at most. *)
Programs(letters, n) == [1 .. n -> letters]
Few(name, programs) == {p \in programs : Cardinality({i \in DOMAIN p : p[i].name = name}) <= 1}
TwoWires   == {H(1), Rz(t, 1), X(2), S(2), Cx(1, 2), Cx(2, 1), Cz(1, 2)}
ThreeWires == {Cx(1, 2), Cx(2, 3), Cx(1, 3), Cz(3, 2), H(2)}
Measured(programs) == {p \o <<Mz(1), Mz(2)>> : p \in programs}
OneWire    == {H(1), Rz(t, 1), X(1), T(1), Tdg(1), Mz(1)}

(* A block of more than five gates, which may be written again, on wires   *)
(* between those of the gates around it.                                   *)
Block == <<Cx(1, 2), H(1), T(2), Cx(2, 1), Rz(t, 1), H(2), Cx(1, 2)>>
Blocks == {Block, <<H(2)>> \o Block \o <<Cx(2, 3), H(2), H(2)>>,
           <<H(1), H(3), Cx(3, 2), Cx(2, 3), Rx(f, 2), H(3)>> \o Block,
           <<T(2), Cx(1, 2), H(1), Cx(1, 2), T(2), S(3), Cx(1, 2), Cx(1, 3), Cx(1, 2)>>}

Optimised(programs, bases) == programs \X {Options(B, 1, "none", FALSE) : B \in bases}
optimiserJobs == Optimised(Programs(TwoWires, 3) \cup Programs(ThreeWires, 4), {{}})
     \cup Optimised(Measured(Few("cz", Programs(TwoWires, 3))), {{}})
     \cup Optimised(Programs(OneWire, 4), {{}})
     \cup Optimised(Blocks, {{}})
     \cup Optimised({<<Gate("ryy", <<1, 3>>, <<f>>), T(3)>>}, {{}, czSet})
     \cup Optimised(Programs(TwoWires \ {S(2), Cz(1, 2)}, 2), {cxSet})

-----------------------------------------------------------------------------
(* Programs for devices: every gate of the gate set for every backend, and *)
(* programs the router puts a swap into.                                   *)
Emitted(programs, bases, backends, routed) ==
  programs \X {Options(B, 0, b, r) : B \in bases, b \in backends, r \in routed}
Routable == {<<H(1), Cx(1, 2), Rz(t, 2)>>, <<Ry(t, 1), Cz(2, 1), T(1)>>}
toQasm   == {"qasm-backend"}
toQcis   == {"tianyan"}
toIons   == {"Trappedion-backend"}
qcisSets == {czSet, hybridSet, {"rx", "ry", "rz", "h", "cy"},
             {"x", "y", "z", "s", "sdg", "t", "tdg", "h", "rx", "ry", "rz", "p", "cz"}}
deviceJobs == Emitted(Single(Plain), {{}, tyxonqSet}, toQasm, {FALSE})
     \cup Emitted(Single(Plain), qcisSets, toQcis, {FALSE})
     \cup Emitted(Single(Plain), {cxSet}, toIons, {FALSE})
     \cup Emitted({<<U3(x, y, z, 1)>> : x \in {0, 32, 64}, y, z \in {0, -64, t}}, {cxSet}, toIons, {FALSE})
     \cup Emitted(Routable, {{}, cxSet, czSet, tyxonqSet, {"rx", "rz", "cz"}, {"u3", "cx"}}, toQasm, {TRUE})
     \cup Emitted({<<H(1), H(2)>>}, {{"rx", "ry", "rz", "h"}}, toQasm, {TRUE})
     \cup Emitted({<<H(1), Cx(1, 2)>>, <<Cz(1, 2)>>}, {u3Set}, toQasm, {TRUE})
     \cup Emitted(Routable, {czSet}, toQcis, {TRUE})
     \cup Emitted({<<Cx(1, 2), Rz(t, 2)>>}, {cxSet}, toIons, {TRUE})
     \cup {<<<<H(1), Rz(t, 1), Cx(1, 2)>>, Options(u3Set, 1, "qasm-backend", FALSE)>>,
           <<<<H(1), Mz(1)>>, Options(u3Set, 1, "qasm-backend", FALSE)>>,
           <<<<Rx(t, 1), Cx(1, 2), Mz(2)>>, Options(cxSet, 1, "Trappedion-backend", TRUE)>>}
allJobs == mcJobs \cup optimiserJobs \cup deviceJobs

(* Three wires of a graph state, the middle one of which is measured after *)
(* both of its cz, and one end after a further h.                          *)
graphJob == Optimised({<<H(1), H(2), H(3), Cz(3, 2), Cz(1, 2), H(3), Mz(1), Mz(2), Mz(3)>>}, {{}})
=============================================================================
