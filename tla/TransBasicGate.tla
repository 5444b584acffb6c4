--------------------------- MODULE TransBasicGate ---------------------------
(***************************************************************************)
(* trans_basicgate (mlir/transforms/optimizations/trans_basicgate.cpp):    *)
(* how each gate of the gate set is written with the gates of the basis B  *)
(* the user asked for.  A rule that hands a gate it has written to another *)
(* rule marks it as due; a rule that does not may leave it outside B.      *)
(***************************************************************************)
EXTENDS EulerBasis

Quarter == Pi \div 2

(* The rules of a gate are tried in order; Translate is the set of results *)
(* the code may produce, empty where it runs into an assertion.            *)
Rule(need, gives) == [need |-> need, gives |-> gives]
FirstRule(B, rules) ==
  LET fits == {i \in DOMAIN rules : rules[i].need \subseteq B}
  IN  {rules[i].gives : i \in {j \in fits : \A k \in fits : j <= k}}

(* A gate that is rewritten at once when it is not in the basis. *)
UnlessIn(B, g) == IF g.name \in B THEN g ELSE Due(g)

ry_to_sx_rz_x(a, q) == <<Gate("sx", <<q>>, <<>>), Rz(a, q), Gate("sx", <<q>>, <<>>), X(q)>>
RyOrSx(B, a, q) == IF "ry" \in B THEN <<Ry(a, q)>> ELSE ry_to_sx_rz_x(a, q)

h_to_ry_rz(B, q) == <<IF "z" \in B THEN Z(q) ELSE Rz(Pi, q)>> \o RyOrSx(B, Quarter, q)
h_to_ry_rx(B, q) == <<Ry(Quarter, q), IF "x" \in B THEN X(q) ELSE Rx(Pi, q)>>
rx_to_ry_rz(B, a, q) == RyOrSx(B, -Quarter, q) \o <<Rz(a, q)>> \o RyOrSx(B, Quarter, q)

h_to_rx_rz(q)     == <<Rz(Quarter, q), Rx(Quarter, q), Rz(Quarter, q)>>
h_to_u3(q)        == <<U3(Quarter, 0, Pi, q)>>
x_to_rx(q)        == <<Rx(Pi, q)>>
x_to_ry_rz(q)     == <<Ry(Pi, q), Rz(Pi, q)>>
x_to_u3(q)        == <<U3(Pi, 0, Pi, q)>>
y_to_ry(q)        == <<Ry(Pi, q)>>
y_to_rx_rz(q)     == <<Rz(Pi, q), Rx(Pi, q)>>
y_to_u3(q)        == <<U3(Pi, Quarter, Quarter, q)>>
z_to_rz(q)        == <<Rz(Pi, q)>>
z_to_rx_ry(q)     == <<Rx(Pi, q), Ry(Pi, q)>>
z_to_u3(q)        == <<U3(0, 0, Pi, q)>>
rx_to_u3(a, q)    == <<U3(a, -Quarter, Quarter, q)>>
ry_to_u3(a, q)    == <<U3(a, 0, 0, q)>>
ry_to_rx_rz(a, q) == <<Rx(Quarter, q), Rz(a, q), Rx(-Quarter, q)>>
rz_to_u3(a, q)    == <<U3(0, 0, a, q)>>
rz_to_rx_ry(a, q) == <<Rx(-Quarter, q), Ry(a, q), Rx(Quarter, q)>>

trans_h(B, q) ==
  FirstRule(B, <<Rule({"ry", "rz"}, h_to_ry_rz(B, q)),
                 Rule({"rz", "sx", "x"}, h_to_ry_rz(B, q)),
                 Rule({"rz", "rx"}, h_to_rx_rz(q)),
                 Rule({"ry", "rx"}, h_to_ry_rx(B, q)),
                 Rule({"u3"}, h_to_u3(q))>>)
trans_x(B, q) ==
  FirstRule(B, <<Rule({"rx"}, x_to_rx(q)), Rule({"ry", "rz"}, x_to_ry_rz(q)),
                 Rule({"u3"}, x_to_u3(q))>>)
trans_y(B, q) ==
  FirstRule(B, <<Rule({"ry"}, y_to_ry(q)), Rule({"rx", "rz"}, y_to_rx_rz(q)),
                 Rule({"u3"}, y_to_u3(q))>>)
trans_z(B, q) ==
  FirstRule(B, <<Rule({"rz"}, z_to_rz(q)), Rule({"rx", "ry"}, z_to_rx_ry(q)),
                 Rule({"u3"}, z_to_u3(q))>>)
trans_rx(B, a, q) ==
  FirstRule(B, <<Rule({"ry", "rz"}, rx_to_ry_rz(B, a, q)),
                 Rule({"rz", "sx", "x"}, rx_to_ry_rz(B, a, q)),
                 Rule({"u3"}, rx_to_u3(a, q))>>)
trans_ry(B, a, q) ==
  FirstRule(B, <<Rule({"rx", "rz"}, ry_to_rx_rz(a, q)),
                 Rule({"rz", "sx", "x"}, ry_to_sx_rz_x(a, q)),
                 Rule({"u3"}, ry_to_u3(a, q))>>)
trans_rz(B, a, q) ==
  FirstRule(B, <<Rule({"ry", "rx"}, rz_to_rx_ry(a, q)), Rule({"u3"}, rz_to_u3(a, q))>>)

(* s, sdg, t and tdg, and p: a rotation about z. *)
PhaseAngle == [s |-> Quarter, sdg |-> -Quarter, t |-> Pi \div 4, tdg |-> -(Pi \div 4)]
s_sdg_t_tdg_to_rz(B, name, q) == <<UnlessIn(B, Rz(PhaseAngle[name], q))>>
trans_p(B, a, q) == <<UnlessIn(B, Rz(a, q))>>
trans_sx(B, q) == <<UnlessIn(B, Rx(Quarter, q))>>

(* u3 becomes the shortest Euler sequence over the axes the basis has.      *)
EulerNames(B) ==
  LET offer(need, names) == IF need \subseteq B THEN names ELSE <<>>
  IN  offer({"rz", "ry"}, <<"ZYZ">>) \o offer({"rx", "ry"}, <<"XYX">>)
      \o offer({"rz", "rx"}, <<"ZXZ", "XZX">>) \o offer({"sx", "x"}, <<"ZSXX">>)
      \o offer({"rz", "sx"}, <<"ZSX">>)
trans_u3(B, t, f, l, q) == least_cost_basis(EulerNames(B), t, f, l, q)

(* The two-qubit gates.  Where the code tests that cy (or cz) is NOT in the *)
(* basis it writes that gate, on the second wire twice.                     *)
cx_to_h_cz_h(B, a, b)    == <<UnlessIn(B, H(b)), Cz(a, b), UnlessIn(B, H(b))>>
cx_to_s_cy_sdg(B, a, b)  == <<UnlessIn(B, S(b)), Cy(a, b), UnlessIn(B, Sdg(b))>>
cz_to_h_cx_h(a, b)       == <<H(b), Cx(a, b), H(b)>>
cz_to_rx_cy_rx(B, b)     == <<UnlessIn(B, Rx(-Quarter, b)), Cy(b, b), UnlessIn(B, Rx(Quarter, b))>>
cy_to_sdg_cx_s(B, a, b)  == <<UnlessIn(B, Sdg(b)), Cx(a, b), UnlessIn(B, S(b))>>
cy_to_rx_cz_rx(B, b)     == <<UnlessIn(B, Rx(Quarter, b)), Cz(b, b), UnlessIn(B, Rx(-Quarter, b))>>

(* Mutant: the rule for cz is looked up under the name of the gate itself. *)
CxNeedsCx(B, a, b) ==
  FirstRule(B, <<Rule({"cx"}, cx_to_h_cz_h(B, a, b)), Rule({"cy"}, cx_to_s_cy_sdg(B, a, b))>>)
trans_cx(B, a, b) ==
  FirstRule(B, <<Rule({"cz"}, cx_to_h_cz_h(B, a, b)), Rule({"cy"}, cx_to_s_cy_sdg(B, a, b))>>)
trans_cz(B, a, b) ==
  IF "cx" \in B THEN {cz_to_h_cx_h(a, b)}
  ELSE IF "cy" \notin B THEN {cz_to_rx_cy_rx(B, b)} ELSE {}
trans_cy(B, a, b) ==
  IF "cx" \in B THEN {cy_to_sdg_cx_s(B, a, b)}
  ELSE IF "cz" \notin B THEN {cy_to_rx_cz_rx(B, b)} ELSE {}
(* Mutant: the cx are not rewritten further. *)
CpLeavesCx(B, l, a, b) ==
  LET h == l \div 2
  IN  <<UnlessIn(B, Rz(h, a)), Cx(a, b), UnlessIn(B, Rz(-h, b)), Cx(a, b),
        UnlessIn(B, Rz(h, b))>>
trans_cp(B, l, a, b) ==
  LET h == l \div 2
  IN  <<UnlessIn(B, Rz(h, a)), UnlessIn(B, Cx(a, b)), UnlessIn(B, Rz(-h, b)),
        UnlessIn(B, Cx(a, b)), UnlessIn(B, Rz(h, b))>>
trans_swap_cx(a, b) == <<Cx(a, b), Cx(b, a), Cx(a, b)>>
trans_swap_sx_cz(B, a, b) ==
  LET sx(q) == UnlessIn(B, Gate("sx", <<q>>, <<>>))
      round == <<sx(a), sx(b), Cz(a, b)>>
  IN  round \o round \o round
trans_swap(B, a, b) ==
  FirstRule(B, <<Rule({"cx"}, trans_swap_cx(a, b)), Rule({"cz"}, trans_swap_sx_cz(B, a, b))>>)

(* trans_to_basic *)
Translate(B, g) ==
  LET w == g.wires
      t == g.args
  IN  CASE g.name = "x"    -> trans_x(B, w[1])
        [] g.name = "y"    -> trans_y(B, w[1])
        [] g.name = "z"    -> trans_z(B, w[1])
        [] g.name = "h"    -> trans_h(B, w[1])
        [] g.name = "cx"   -> trans_cx(B, w[1], w[2])
        [] g.name = "cz"   -> trans_cz(B, w[1], w[2])
        [] g.name = "cy"   -> trans_cy(B, w[1], w[2])
        [] g.name \in DOMAIN PhaseAngle -> {s_sdg_t_tdg_to_rz(B, g.name, w[1])}
        [] g.name = "u3"   -> trans_u3(B, t[1], t[2], t[3], w[1])
        [] g.name = "cp"   -> {trans_cp(B, t[1], w[1], w[2])}
        [] g.name = "rx"   -> trans_rx(B, t[1], w[1])
        [] g.name = "ry"   -> trans_ry(B, t[1], w[1])
        [] g.name = "rz"   -> trans_rz(B, t[1], w[1])
        [] g.name = "p"    -> {trans_p(B, t[1], w[1])}
        [] g.name = "sx"   -> {trans_sx(B, w[1])}
        [] g.name = "swap" -> trans_swap(B, w[1], w[2])
=============================================================================
