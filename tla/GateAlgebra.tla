---------------------------- MODULE GateAlgebra ----------------------------
(***************************************************************************)
(* What a gate of the decomposed gate set does to a quantum state, after   *)
(* the matrices of mlir/transforms/optimizations/utils/get_matrix.cpp.     *)
(*                                                                         *)
(* A basis state of some wires is the set of the wires that are |1>, a     *)
(* state a function from basis states to amplitudes.  Angles are whole     *)
(* multiples of pi/64 and amplitudes live in the integers modulo the prime *)
(* Modulus, where the 256th root of unity Root stands for exp(i pi/128): every   *)
(* equation between sums and products of those roots that holds for        *)
(* complex numbers holds modulo Modulus, so circuits that differ modulo Modulus differ.*)
(***************************************************************************)
EXTENDS Integers, FiniteSets, SequencesExt

Modulus == 12289
Root    == 8340                   \* exp(i pi/128) modulo Modulus
Half    == (Modulus + 1) \div 2     \* 1/2 modulo Modulus
Pi      == 64                     \* the angle pi, in units of pi/64

(* A gate, its wires in operand order, its angles; "due" marks the gates    *)
(* the current pass still has to rewrite: those it has collected, and those *)
(* a rule has written and hands to another rule in the same function.       *)
(* "parts" is for gates that stand for several (see GateChains).            *)
Gate(name, wires, args) ==
  [name |-> name, wires |-> wires, args |-> args, due |-> FALSE, parts |-> <<>>]
Due(g) == [g EXCEPT !.due = TRUE]

(* The gates of the gate set. *)
X(q)   == Gate("x", <<q>>, <<>>)
Y(q)   == Gate("y", <<q>>, <<>>)
Z(q)   == Gate("z", <<q>>, <<>>)
H(q)   == Gate("h", <<q>>, <<>>)
S(q)   == Gate("s", <<q>>, <<>>)
Sdg(q) == Gate("sdg", <<q>>, <<>>)
T(q)   == Gate("t", <<q>>, <<>>)
Tdg(q) == Gate("tdg", <<q>>, <<>>)
Sx(q)  == Gate("sx", <<q>>, <<>>)
Ph(a, q)   == Gate("p", <<q>>, <<a>>)
Rx(a, q)   == Gate("rx", <<q>>, <<a>>)
Ry(a, q)   == Gate("ry", <<q>>, <<a>>)
Rz(a, q)   == Gate("rz", <<q>>, <<a>>)
U3(f, g, l, q) == Gate("u3", <<q>>, <<f, g, l>>)
Cx(c, q)   == Gate("cx", <<c, q>>, <<>>)
Cy(c, q)   == Gate("cy", <<c, q>>, <<>>)
Cz(c, q)   == Gate("cz", <<c, q>>, <<>>)
Cp(a, c, q) == Gate("cp", <<c, q>>, <<a>>)

(* The powers of Root, from the 0th. *)
RootPowers == FoldLeft(LAMBDA powers, k : Append(powers, (Last(powers) * Root) % Modulus),
                       <<1>>, [k \in 1 .. 255 |-> k])
RootPower(k) == RootPowers[(k % 256) + 1]

Cis(a)  == RootPower(2 * a)            \* exp(i a)
HalfCis(a) == RootPower(a)               \* exp(i a/2)
ImagUnit == Cis(Pi \div 2)
Times(x, y) == (x * y) % Modulus
CosHalf(a) == Times(Half, HalfCis(a) + HalfCis(-a))                \* cos(a/2)
SinHalf(a) == Times(Times(Half, Modulus - ImagUnit),               \* sin(a/2)
                    HalfCis(a) - HalfCis(-a))
SqrtHalf   == CosHalf(Pi \div 2)

(***************************************************************************)
(* The 2x2 matrix of a one-qubit gate, row by row.                         *)
(***************************************************************************)
Diagonal(x, y) == <<x, 0, 0, y>>
PhaseShift(a) == Diagonal(1, Cis(a))
RxMatrix(a) == LET s == Times(Modulus - ImagUnit, SinHalf(a))
               IN  <<CosHalf(a), s, s, CosHalf(a)>>
RyMatrix(a) == <<CosHalf(a), Modulus - SinHalf(a), SinHalf(a), CosHalf(a)>>
RzMatrix(a) == Diagonal(HalfCis(-a), HalfCis(a))
U3Matrix(t, f, l) == <<CosHalf(t), Times(Modulus - Cis(l), SinHalf(t)),
                       Times(Cis(f), SinHalf(t)), Times(Cis(f + l), CosHalf(t))>>
XMatrix == <<0, 1, 1, 0>>
YMatrix == <<0, Modulus - ImagUnit, ImagUnit, 0>>
ZMatrix == Diagonal(1, Modulus - 1)
HMatrix == <<SqrtHalf, SqrtHalf, SqrtHalf, Modulus - SqrtHalf>>

(* getGateMat for one-qubit gates ("p" is the matrix of rz there). *)
OneQubitMatrix(name, a) ==
  CASE name \in {"x", "cx"} -> XMatrix
    [] name \in {"y", "cy"} -> YMatrix
    [] name \in {"z", "cz"} -> ZMatrix
    [] name = "h"   -> HMatrix
    [] name = "t"   -> PhaseShift(Pi \div 4)
    [] name = "tdg" -> PhaseShift(-(Pi \div 4))
    [] name = "s"   -> PhaseShift(Pi \div 2)
    [] name = "sdg" -> PhaseShift(-(Pi \div 2))
    [] name = "sx"  -> RxMatrix(Pi \div 2)
    [] name = "rx"  -> RxMatrix(a[1])
    [] name = "ry"  -> RyMatrix(a[1])
    [] name \in {"rz", "p"} -> RzMatrix(a[1])
    [] name = "cp"  -> PhaseShift(a[1])
    [] name = "u3"  -> U3Matrix(a[1], a[2], a[3])

(* A 2x2 matrix on wire t where every wire of ctl is |1>. *)
Controlled(ctl, t, m, psi) ==
  LET Entries(row, b) == (m[row + 1] * psi[b \ {t}] + m[row + 2] * psi[b \cup {t}]) % Modulus
  IN  [b \in DOMAIN psi |-> IF ctl \subseteq b THEN Entries(IF t \in b THEN 2 ELSE 0, b) ELSE psi[b]]

(* The wires u and v change places. *)
Flip(b, u, v) == IF (u \in b) = (v \in b) THEN b
                 ELSE (b \ {u, v}) \cup ({u, v} \ b)
Exchange(u, v, psi) == [b \in DOMAIN psi |-> psi[Flip(b, u, v)]]

(***************************************************************************)
(* The state after a gate of the gate set.                                 *)
(***************************************************************************)
Act(g, psi) ==
  LET controls == IF g.name \in {"cx", "cy", "cz", "cp"} THEN {g.wires[1]} ELSE {}
  IN  IF g.name = "swap" THEN Exchange(g.wires[1], g.wires[2], psi)
      ELSE Controlled(controls, Last(g.wires), OneQubitMatrix(g.name, g.args), psi)

(* Equal up to one global phase. *)
SameUpToPhase(u, v) ==      \* (x and y are u and v, computed once)
  \E x \in {u}, y \in {v} : \E c \in DOMAIN x :
     /\ x[c] # 0 /\ y[c] # 0
     /\ \A b \in DOMAIN x : Times(x[b], y[c]) = Times(y[b], x[c])

(* |0...0> and its sums with the other basis states: two unitary circuits  *)
(* that agree on these up to a phase each agree on all states up to one.   *)
StartStates(wires) ==
  { [b \in SUBSET wires |-> IF b \in {k, {}} THEN 1 ELSE 0] : k \in SUBSET wires }
=============================================================================
