---------------------------- MODULE GateMeaning ----------------------------
(***************************************************************************)
(* What the gates that DecomposemultiPass rewrites are: the operation each *)
(* name stands for in OpenQASM 3's and Qiskit's gate libraries, stated on  *)
(* states and not as a circuit.  This is the reference the compiled        *)
(* program is compared with.                                               *)
(***************************************************************************)
EXTENDS GateAlgebra

Scale(c, psi)  == [b \in DOMAIN psi |-> (c * psi[b]) % Modulus]
Plus(psi, phi) == [b \in DOMAIN psi |-> (psi[b] + phi[b]) % Modulus]

(* exp(-i a/2 P), where P psi = flipped. *)
PauliRotation(a, flipped, psi) ==
  Plus(Scale(CosHalf(a), psi), Scale(Times(Modulus - ImagUnit, SinHalf(a)), flipped))
PauliOn(m, q, psi)   == Controlled({}, q, m, psi)
Both(m, n, a, b, psi) == PauliOn(m, a, PauliOn(n, b, psi))

(* A rotation by t about the axis at angle f in the xy plane. *)
AxisRotation(t, f, q, psi) ==
  PauliRotation(t, Controlled({}, q, <<0, Cis(-f), Cis(f), 0>>, psi), psi)

Phased(g, m) == [i \in 1 .. 4 |-> Times(Cis(g), m[i])]
ControlsOf(w) == {w[i] : i \in 1 .. Len(w) - 1}

(* One exp(-i t/2 XX) for every pair of the wires. *)
MolmerSorensen(t, w, psi) ==
  LET pairs == {p \in (1 .. Len(w)) \X (1 .. Len(w)) : p[1] < p[2]}
      After[some \in SUBSET pairs] ==
        IF some = {} THEN psi
        ELSE LET p == CHOOSE q \in some : TRUE
                 phi == After[some \ {p}]
             IN  PauliRotation(t, Both(XMatrix, XMatrix, w[p[1]], w[p[2]], phi), phi)
  IN  After[pairs]

(* Every basis state goes to another one, with an amplitude. *)
Permuted(image(_), factor(_), psi) ==
  [b \in DOMAIN psi |-> LET c == CHOOSE d \in DOMAIN psi : image(d) = b
                        IN  (factor(c) * psi[c]) % Modulus]

Meaning(g, psi) ==
  LET w == g.wires
      t == g.args
      a == w[1]
      last == w[Len(w)]
      ctl  == ControlsOf(w)
      One(m)    == Controlled({}, a, m, psi)
      Ctrl(m)   == Controlled(ctl, last, m, psi)
      Toggle(b) == IF (a \in b) # (last \in b) THEN b \cup {last} ELSE b \ {last}
  IN  CASE g.name = "u1"          -> One(PhaseShift(t[1]))
        [] g.name = "u2"          -> One(U3Matrix(Pi \div 2, t[1], t[2]))
        [] g.name \in {"u0", "u"}  -> One(U3Matrix(t[1], t[2], t[3]))
        [] g.name = "sxdg"        -> One(RxMatrix(-(Pi \div 2)))
        [] g.name = "r"           -> AxisRotation(t[1], t[2], a, psi)
        [] g.name = "rxy"         -> AxisRotation(t[2], t[1], a, psi)
        [] g.name \in {"phasedx", "U1q"} -> AxisRotation(t[1], t[2], a, psi)
        [] g.name = "X2P"         -> One(RxMatrix(Pi \div 2))
        [] g.name = "X2M"         -> One(RxMatrix(-(Pi \div 2)))
        [] g.name = "Y2P"         -> One(RyMatrix(Pi \div 2))
        [] g.name = "Y2M"         -> One(RyMatrix(-(Pi \div 2)))
        [] g.name = "ch"          -> Ctrl(HMatrix)
        [] g.name = "cy"          -> Ctrl(YMatrix)
        [] g.name = "cu3"         -> Ctrl(U3Matrix(t[1], t[2], t[3]))
        [] g.name = "cu"          -> Ctrl(Phased(t[4], U3Matrix(t[1], t[2], t[3])))
        [] g.name \in {"crx", "mcrx"} -> Ctrl(RxMatrix(t[1]))
        [] g.name \in {"cry", "mcry"} -> Ctrl(RyMatrix(t[1]))
        [] g.name \in {"crz", "mcrz"} -> Ctrl(RzMatrix(t[1]))
        [] g.name \in {"cu1", "mcp", "cphase"} -> Ctrl(PhaseShift(t[1]))
        [] g.name \in {"ccx", "c3x", "c4x", "mcx"} -> Ctrl(XMatrix)
        [] g.name = "ccz"         -> Ctrl(ZMatrix)
        [] g.name = "cswap"       ->
             [b \in DOMAIN psi |-> psi[IF a \in b THEN Flip(b, w[2], w[3]) ELSE b]]
        [] g.name = "rccx"        ->
             LET phi == [b \in DOMAIN psi |->
                           IF {a, last} \subseteq b /\ w[2] \notin b
                           THEN (Modulus - 1) * psi[b] % Modulus ELSE psi[b]]
             IN  Controlled(ctl, last, YMatrix, phi)
        [] g.name = "rxx"         ->
             PauliRotation(t[1], Both(XMatrix, XMatrix, a, last, psi), psi)
        [] g.name = "ryy"         ->
             PauliRotation(t[1], Both(YMatrix, YMatrix, a, last, psi), psi)
        [] g.name = "rzz"         ->
             PauliRotation(t[1], Both(ZMatrix, ZMatrix, a, last, psi), psi)
        [] g.name = "rzx"         ->
             PauliRotation(t[1], Both(ZMatrix, XMatrix, a, last, psi), psi)
        [] g.name = "ms"          -> MolmerSorensen(t[1], w, psi)
        [] g.name = "dcx"         ->
             Permuted(LAMBDA b : Toggle(Flip(b, a, last)), LAMBDA b : 1, psi)
        [] g.name = "iswap"       ->
             Permuted(LAMBDA b : Flip(b, a, last),
                      LAMBDA b : IF (a \in b) = (last \in b) THEN 1 ELSE ImagUnit, psi)
        [] g.name = "cxz"         ->
             Controlled({}, last, RzMatrix(t[1]), Controlled({a}, last, XMatrix, psi))
        [] OTHER                  -> Act(g, psi)

(* The gates in order.  ("@@ <<>>" leaves a function as it is and has TLC  *)
(* compute it once, not at each of its uses.)                              *)
After(gates, psi) == FoldLeft(LAMBDA phi, g : Meaning(g, phi) @@ <<>>, psi, gates)
=============================================================================
