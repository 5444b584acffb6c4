--------------------------- MODULE DecomposeMulti ---------------------------
(***************************************************************************)
(* The rewriting rules of DecomposemultiPass                               *)
(* (mlir/transforms/optimizations/DecomposemultiPass.cpp): one operator    *)
(* per decompose_*_gate, which returns the gates it inserts on the wires   *)
(* of the operation, a, b, c, ... in operand order.                        *)
(***************************************************************************)
EXTENDS GateAlgebra

(* Gates a rule writes and hands to another rule in the same function. *)
Cu1(f, a, b)  == Due(Gate("cu1", <<a, b>>, <<f>>))
Crx(f, a, b)  == Due(Gate("crx", <<a, b>>, <<f>>))
Cry(f, a, b)  == Due(Gate("cry", <<a, b>>, <<f>>))
Crz(f, a, b)  == Due(Gate("crz", <<a, b>>, <<f>>))
Rxx(f, a, b)  == Due(Gate("rxx", <<a, b>>, <<f>>))
Rzx(f, a, b)  == Due(Gate("rzx", <<a, b>>, <<f>>))
Ccx(a, b, c)  == Due(Gate("ccx", <<a, b, c>>, <<>>))
Mcx(w)        == Due(Gate("mcx", w, <<>>))

decompose_u1(l, a)       == <<U3(0, 0, l, a)>>
decompose_u2(f, l, a)    == <<U3(Pi \div 2, f, l, a)>>
decompose_u(t, f, l, a)  == <<U3(t, f, l, a)>>
decompose_sxdg(a)        == <<S(a), H(a), S(a)>>
decompose_r(t, f, a)     == <<U3(t, f - Pi \div 2, Pi \div 2 - f, a)>>
decompose_rxy(t, f, a)   == <<Rz(Pi \div 2 - f, a), Rx(Pi \div 2, a), Rz(t, a),
                              Rx(-(Pi \div 2), a), Rz(f - Pi \div 2, a)>>
decompose_x2p(a)         == <<Rx(Pi \div 2, a)>>
decompose_x2m(a)         == <<Rx(-(Pi \div 2), a)>>
decompose_y2p(a)         == <<Ry(Pi \div 2, a)>>
decompose_y2m(a)         == <<Ry(-(Pi \div 2), a)>>
decompose_xy2p(t, a)     == <<Rz(t - Pi \div 2, a), Ry(Pi \div 2, a), Rz(Pi \div 2 - t, a)>>
decompose_xy2m(t, a)     == <<Rz(t + Pi \div 2, a), Ry(Pi \div 2, a), Rz(-(Pi \div 2) - t, a)>>

decompose_ch(a, b)       == <<S(b), H(b), T(b), Cx(a, b), Tdg(b), H(b), Sdg(b)>>
decompose_cy(a, b)       == <<Sdg(b), Cx(a, b), S(b)>>
decompose_cu3(t, f, l, a, b) ==
  <<U3(0, 0, (f + l) \div 2, a), U3(0, 0, (l - f) \div 2, b), Cx(a, b),
    U3(-(t \div 2), 0, -((l + f) \div 2), b), Cx(a, b), U3(t \div 2, f, 0, b)>>
decompose_cu1(l, a, b) ==
  <<U3(0, 0, l \div 2, a), Cx(a, b), U3(0, 0, -(l \div 2), b), Cx(a, b),
    U3(0, 0, l \div 2, b)>>
decompose_cu(t, f, l, g, a, b) ==
  <<Rz(g, a), Rz((f + l) \div 2, a), Rz((l - f) \div 2, b), Cx(a, b),
    U3(-(t \div 2), 0, -((l + f) \div 2), b), Cx(a, b), U3(t \div 2, f, 0, b)>>
decompose_csx(a, b) ==
  <<H(b), U3(0, 0, Pi \div 2, a), Cx(a, b), U3(0, 0, -(Pi \div 4), b), Cx(a, b),
    U3(0, 0, Pi \div 4, b), H(b)>>
decompose_cs(a, b)       == <<H(b), Cp(Pi \div 2, a, b), H(b)>>
decompose_csdg(a, b)     == <<H(b), Cp(-(Pi \div 2), a, b), H(b)>>
decompose_crx(t, a, b) ==
  <<U3(0, 0, Pi \div 2, b), Cx(a, b), U3(-(t \div 2), 0, 0, b), Cx(a, b),
    U3(t \div 2, -(Pi \div 2), 0, b)>>
decompose_cry(t, a, b)   == <<Ry(t \div 2, b), Cx(a, b), Ry(-(t \div 2), b), Cx(a, b)>>
decompose_crz(t, a, b)   == <<Rz(t \div 2, b), Cx(a, b), Rz(-(t \div 2), b), Cx(a, b)>>
decompose_rxx(t, a, b)   == <<H(a), H(b), Cx(a, b), Rz(t, b), Cx(a, b), H(b), H(a)>>
decompose_ryy(t, a, b) ==
  <<Rx(Pi \div 2, a), Rx(Pi \div 2, b), Cx(a, b), Rz(t, b), Cx(a, b),
    Rx(-(Pi \div 2), a), Rx(-(Pi \div 2), b)>>
decompose_rzz(t, a, b)   == <<Cx(a, b), U3(0, 0, t, b), Cx(a, b)>>
decompose_rzx(t, a, b)   == <<H(b), Cx(a, b), U3(0, 0, t, b), Cx(a, b), H(b)>>
decompose_ecr(a, b)      == <<Rzx(Pi \div 4, a, b), X(a), Rzx(-(Pi \div 4), b, a)>>
(* Mutant: the operands of the second cx mix up the old and new values. *)
DcxOnOneWire(a, b)       == <<Cx(a, b), Cx(b, b)>>
decompose_dcx(a, b)      == <<Cx(a, b), Cx(b, a)>>
decompose_iswap(a, b)    == <<S(a), S(b), H(a), Cx(a, b), Cx(b, a), H(b)>>
decompose_cpx(t, a, b) ==
  <<Rz(t \div 2, a), Cx(a, b), U3(0, 0, -(t \div 2), b), Cx(a, b),
    U3(0, 0, t \div 2, b), Cx(b, a)>>
decompose_cxz(t, a, b)   == <<Cx(a, b), Rz(t, b)>>
(* One rxx for every pair of wires, in lexicographic order. *)
PairsUpTo(n) == SetToSortSeq({p \in (1 .. n) \X (1 .. n) : p[1] < p[2]},
                             LAMBDA p, q : p[1] < q[1] \/ (p[1] = q[1] /\ p[2] < q[2]))
decompose_ms(t, w) ==
  LET n == Len(w)
  IN  [k \in 1 .. (n * (n - 1)) \div 2 |->
         Rxx(t, w[PairsUpTo(n)[k][1]], w[PairsUpTo(n)[k][2]])]

(* Mutant: the t on the first control is forgotten. *)
CcxWithoutT(a, b, c) ==
  <<H(c), Cx(b, c), Tdg(c), Cx(a, c), T(c), Cx(b, c), Tdg(c), Cx(a, c), T(b), T(c),
    H(c), Cx(a, b), Tdg(b), Cx(a, b)>>
decompose_ccx(a, b, c) ==
  <<H(c), Cx(b, c), Tdg(c), Cx(a, c), T(c), Cx(b, c), Tdg(c), Cx(a, c), T(b), T(c),
    H(c), Cx(a, b), T(a), Tdg(b), Cx(a, b)>>
decompose_cswap(a, b, c) ==
  <<Cx(c, b), H(c), Cx(b, c), Tdg(c), Cx(a, c), T(c), Cx(b, c), Tdg(c), Cx(a, c),
    T(b), T(c), H(c), Cx(a, b), T(a), Tdg(b), Cx(a, b), Cx(c, b)>>
(* Mutant: the ccx is left in the circuit. *)
CczWithCcx(a, b, c)      == <<H(c), Gate("ccx", <<a, b, c>>, <<>>), H(c)>>
decompose_ccz(a, b, c)   == <<H(c), Ccx(a, b, c), H(c)>>
decompose_rccx(a, b, c) ==
  LET u2 == U3(Pi \div 2, 0, Pi, c)
  IN  <<u2, U3(0, 0, Pi \div 4, c), Cx(b, c), U3(0, 0, -(Pi \div 4), c), Cx(a, c),
        U3(0, 0, Pi \div 4, c), Cx(b, c), U3(0, 0, -(Pi \div 4), c), u2>>
decompose_rc3x(a, b, c, d) ==
  LET e == Pi \div 4
  IN  <<Rz(5 * e, d), Cx(c, d), Rz(3 * e, d), Cx(a, d), Rz(e, d), Cx(b, d), Rz(-e, d),
        Cx(a, d), Rz(e, d), Cx(b, d), Rz(Pi, d), Cx(c, d), Rz(3 * e, d)>>
(* The eighth "cx" of the target is written on (a, b). *)
decompose_c3x(a, b, c, d) ==
  LET e == Pi \div 8
  IN  <<H(d), Rz(e, a), Rz(e, b), Rz(e, c), Rz(e, d), Cx(a, b), Rz(-e, b), Cx(a, b),
        Cx(b, c), Rz(-e, c), Cx(a, c), Rz(e, c), Cx(b, c), Rz(-e, c), Cx(a, c),
        Cx(c, d), Rz(-e, d), Cx(b, d), Rz(e, d), Cx(c, d), Rz(-e, d), Cx(a, b),
        Rz(e, d), Cx(c, d), Rz(-e, d), Cx(b, d), Rz(e, d), Cx(c, d), Rz(-e, d),
        Cx(a, d), H(d)>>
(* Every controlled phase stands between two h on d; the fourth and the    *)
(* sixth cx, meant for (a, c), read a value of b as their control.         *)
decompose_c3sqrtx(a, b, c, d) ==
  LET e == Pi \div 8
  IN  <<H(d), Cu1(e, a, d), H(d), Cx(a, b), H(d), Cu1(-e, b, d), H(d), Cx(a, b),
        H(d), Cu1(e, b, d), H(d), Cx(b, c), H(d), Cu1(-e, c, d), H(d), Cx(b, c),
        H(d), Cu1(e, c, d), H(d), Cx(b, c), H(d), Cu1(-e, c, d), H(d), Cx(b, c),
        H(d), Cu1(e, c, d), H(d)>>
decompose_c4x(a, b, c, d, e) ==
  LET rc3x == Due(Gate("rc3x", <<a, b, c, d>>, <<>>))
  IN  <<H(e), Cu1(Pi \div 2, d, e), H(e), rc3x, H(e), Cu1(-(Pi \div 2), d, e), H(e),
        rc3x>> \o decompose_c3sqrtx(a, b, c, e)


(***************************************************************************)
(* The rules for any number of wires: the controls, then the target.       *)
(* "turn" is the controlled rotation of two wires, "rest" the same gate    *)
(* without its last control.                                               *)
(***************************************************************************)
Laddered(turn(_, _, _), rest(_, _), half, w) ==
  LET n      == Len(w)
      last   == w[n - 1]
      others == SubSeq(w, 1, n - 2)
      flip   == Mcx(others \o <<last>>)
  IN  <<turn(half, last, w[n]), flip, turn(-half, last, w[n]), flip,
        rest(half, others \o <<w[n]>>)>>
decompose_mcx(w) ==
  LET rest(half, v) == Mcx(v)
  IN  CASE Len(w) = 1 -> <<X(w[1])>>
        [] Len(w) = 2 -> <<Cx(w[1], w[2])>>
        [] Len(w) = 3 -> decompose_ccx(w[1], w[2], w[3])
        [] Len(w) = 4 -> decompose_c3x(w[1], w[2], w[3], w[4])
        [] OTHER      -> Laddered(Crx, rest, Pi \div 2, w)
decompose_mcp(t, w) ==
  LET rest(half, v) == Due(Gate("mcp", v, <<half>>))
  IN  CASE Len(w) = 1 -> <<Ph(t, w[1])>>
        [] Len(w) = 2 -> <<Cp(t, w[1], w[2])>>
        [] OTHER      -> Laddered(Cp, rest, t \div 2, w)
decompose_mcrx(t, w) ==
  LET rest(half, v) == Due(Gate("mcrx", v, <<half>>))
  IN  CASE Len(w) = 1 -> <<Rx(t, w[1])>>
        [] Len(w) = 2 -> decompose_crx(t, w[1], w[2])
        [] OTHER      -> Laddered(Crx, rest, t \div 2, w)
decompose_mcry(t, w) ==
  LET rest(half, v) == Due(Gate("mcry", v, <<half>>))
  IN  CASE Len(w) = 1 -> <<Ry(t, w[1])>>
        [] Len(w) = 2 -> decompose_cry(t, w[1], w[2])
        [] OTHER      -> Laddered(Cry, rest, t \div 2, w)
decompose_mcrz(t, w) ==
  LET rest(half, v) == Due(Gate("mcrz", v, <<half>>))
  IN  CASE Len(w) = 1 -> <<Rz(t, w[1])>>
        [] Len(w) = 2 -> decompose_crz(t, w[1], w[2])
        [] OTHER      -> Laddered(Crz, rest, t \div 2, w)

(***************************************************************************)
(* Which gates the pass keeps and which it rewrites.                       *)
(***************************************************************************)
gate_set == {"u3", "rx", "ry", "rz", "x", "y", "z", "cx", "cy", "cz", "h", "sdg",
             "tdg", "s", "sx", "p", "cp", "t", "swap"}

(* Wires plus angles of the gates to decompose that have a fixed number. *)
OperandCount ==
  [u1 |-> 2, u2 |-> 3, u0 |-> 4, u |-> 4, sxdg |-> 1, r |-> 3, rxy |-> 3,
   X2P |-> 1, X2M |-> 1, Y2P |-> 1, Y2M |-> 1, XY2P |-> 2, XY2M |-> 2,
   ch |-> 2, cy |-> 2, cu3 |-> 5, cu1 |-> 3, cu |-> 6, csx |-> 2, cs |-> 2,
   csdg |-> 2, crx |-> 3, cry |-> 3, crz |-> 3, rxx |-> 3, ryy |-> 3, rzz |-> 3,
   rzx |-> 3, ecr |-> 2, dcx |-> 2, iswap |-> 2, cpx |-> 3, cxz |-> 3,
   ccx |-> 3, ccz |-> 3, cswap |-> 3, rccx |-> 3,
   rc3x |-> 4, c3x |-> 4, c3sqrtx |-> 4, c4x |-> 5]
AnyCount == {"mcx", "mcp", "mcrx", "mcry", "mcrz", "ms"}
gate_to_decompose == DOMAIN OperandCount \cup AnyCount

Decomposable(g) == \/ g.name \in AnyCount
                   \/ /\ g.name \in DOMAIN OperandCount
                      /\ OperandCount[g.name] = Len(g.wires) + Len(g.args)

(* The gates written for g. *)
Decompose(g) ==
  LET w == g.wires
      t == g.args
  IN  CASE g.name = "u1"         -> decompose_u1(t[1], w[1])
        [] g.name = "u2"         -> decompose_u2(t[1], t[2], w[1])
        [] g.name \in {"u0", "u"} -> decompose_u(t[1], t[2], t[3], w[1])
        [] g.name = "sxdg"       -> decompose_sxdg(w[1])
        [] g.name = "r"          -> decompose_r(t[1], t[2], w[1])
        [] g.name = "rxy"        -> decompose_rxy(t[2], t[1], w[1])
        [] g.name = "X2P"        -> decompose_x2p(w[1])
        [] g.name = "X2M"        -> decompose_x2m(w[1])
        [] g.name = "Y2P"        -> decompose_y2p(w[1])
        [] g.name = "Y2M"        -> decompose_y2m(w[1])
        [] g.name = "XY2P"       -> decompose_xy2p(t[1], w[1])
        [] g.name = "XY2M"       -> decompose_xy2m(t[1], w[1])
        [] g.name = "ch"         -> decompose_ch(w[1], w[2])
        [] g.name = "cy"         -> decompose_cy(w[1], w[2])
        [] g.name = "cu3"        -> decompose_cu3(t[1], t[2], t[3], w[1], w[2])
        [] g.name = "cu1"        -> decompose_cu1(t[1], w[1], w[2])
        [] g.name = "cu"         -> decompose_cu(t[1], t[2], t[3], t[4], w[1], w[2])
        [] g.name = "csx"        -> decompose_csx(w[1], w[2])
        [] g.name = "cs"         -> decompose_cs(w[1], w[2])
        [] g.name = "csdg"       -> decompose_csdg(w[1], w[2])
        [] g.name = "crx"        -> decompose_crx(t[1], w[1], w[2])
        [] g.name = "cry"        -> decompose_cry(t[1], w[1], w[2])
        [] g.name = "crz"        -> decompose_crz(t[1], w[1], w[2])
        [] g.name = "rxx"        -> decompose_rxx(t[1], w[1], w[2])
        [] g.name = "ryy"        -> decompose_ryy(t[1], w[1], w[2])
        [] g.name = "rzz"        -> decompose_rzz(t[1], w[1], w[2])
        [] g.name = "rzx"        -> decompose_rzx(t[1], w[1], w[2])
        [] g.name = "ecr"        -> decompose_ecr(w[1], w[2])
        [] g.name = "dcx"        -> decompose_dcx(w[1], w[2])
        [] g.name = "iswap"      -> decompose_iswap(w[1], w[2])
        [] g.name = "cpx"        -> decompose_cpx(t[1], w[1], w[2])
        [] g.name = "cxz"        -> decompose_cxz(t[1], w[1], w[2])
        [] g.name = "ccx"        -> decompose_ccx(w[1], w[2], w[3])
        [] g.name = "ccz"        -> decompose_ccz(w[1], w[2], w[3])
        [] g.name = "cswap"      -> decompose_cswap(w[1], w[2], w[3])
        [] g.name = "rccx"       -> decompose_rccx(w[1], w[2], w[3])
        [] g.name = "rc3x"       -> decompose_rc3x(w[1], w[2], w[3], w[4])
        [] g.name = "c3x"        -> decompose_c3x(w[1], w[2], w[3], w[4])
        [] g.name = "c3sqrtx"    -> decompose_c3sqrtx(w[1], w[2], w[3], w[4])
        [] g.name = "c4x"        -> decompose_c4x(w[1], w[2], w[3], w[4], w[5])
        [] g.name = "mcx"        -> decompose_mcx(w)
        [] g.name = "mcp"        -> decompose_mcp(t[1], w)
        [] g.name = "mcrx"       -> decompose_mcrx(t[1], w)
        [] g.name = "mcry"       -> decompose_mcry(t[1], w)
        [] g.name = "mcrz"       -> decompose_mcrz(t[1], w)
        [] g.name = "ms"         -> decompose_ms(t[1], w)

(* The wire whose value replaces each result of g: its own, but where a    *)
(* rule ends on variables that have been assigned crosswise.               *)
Results(g) ==
  LET w == g.wires
  IN  CASE g.name \in {"ecr", "cpx"} -> <<w[2], w[1]>>
        [] g.name = "c3sqrtx"        -> <<w[2], w[2], w[3], w[4]>>
        [] g.name = "c4x"            -> <<w[1], w[2], w[3], w[4], w[4]>>
        [] OTHER                     -> w
=============================================================================
