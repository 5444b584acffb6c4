---------------------------- MODULE DeviceGates ----------------------------
(***************************************************************************)
(* Rules that follow the optimisers: Merge_u3_gate and turn_to_phasedx     *)
(* write a run of one-wire gates as one u3, or as rz and phasedx;          *)
(* DecomposeSwapQirPass replaces the swaps of the router; the backends     *)
(* write the gates in the language of the device.                          *)
(*                                                                         *)
(* turn_to_phasedx gives its angles in half turns, and the trapped-ion     *)
(* backend writes "*pi" behind them: a number of 64ths, of pi or of a half *)
(* turn, is the same here.                                                 *)
(***************************************************************************)
EXTENDS TransBasicGate, BlockMerging

(* The matrix of a run (as a set of one), and the angles <<theta, phi, lambda>> of the u3    *)
(* that is this matrix up to a phase; none where they are no multiples of  *)
(* pi/64.                                                                  *)
RunMatrix(gates) ==
  LET parts == FlattenSeq([i \in DOMAIN gates |-> Parts(gates[i])])
      Applied(ms, g) == {Product(u, m) : u \in {OneQubitMatrix(g.name, g.args)}, m \in ms}
  IN  FoldLeft(Applied, {<<1, 0, 0, 1>>}, parts)
ExactAngles(m) ==
  LET Square(x) == Times(x, x)
      Same(x, y) == (x - y) % Modulus = 0
      Thetas == {t \in 0 .. Pi : Same(Times(Times(m[1], m[4]), Square(SinHalf(t))),
                                      -Times(Times(m[2], m[3]), Square(CosHalf(t))))}
      Phis(t) == IF 0 \in {m[1], m[3]} THEN {0}
                 ELSE {f \in 0 .. 2 * Pi - 1 : Same(Times(m[3], CosHalf(t)),
                                                    Times(m[1], Times(Cis(f), SinHalf(t))))}
      Lambdas(f) == {l \in 0 .. 2 * Pi - 1 : IF m[1] # 0 THEN Same(m[4], Times(m[1], Cis(f + l)))
                                             ELSE Same(m[2], -Times(m[3], Cis(l)))}
  IN  UNION {UNION {{<<t, f, l>> : l \in Lambdas(f)} : f \in Phis(t)} : t \in Thetas}

(* The runs of both passes are only looked for forwards. *)
ForwardRuns(gates) ==
  LET Step(runs, i) ==
        LET labelled == UNION {ToSet(runs[r]) : r \in DOMAIN runs}
        IN  IF ~ IsValue(gates[i]) \/ ~ OnOneWire(gates[i]) \/ i \in labelled THEN runs
            ELSE Append(runs, <<i>> \o find_runs(gates, i, Forward, labelled))
      upTo[i \in 0 .. Len(gates)] == IF i = 0 THEN <<>> ELSE Step(upTo[i - 1], i)
  IN  upTo[Len(gates)]

AnglesOf(run) == UNION {ExactAngles(m) : m \in RunMatrix(run)}
merge_us_list(run) ==
  LET q == run[1].wires[1]
      exact == AnglesOf(run)
  IN  IF exact = {} THEN {<<Fused(run)>>}
      ELSE UNION {{<<U3(p[1], p[2], p[3], q)>> : p \in params_zyz_inner(a[1], a[2], a[3])} : a \in exact}

Phasedx(a, b, q) == Gate("phasedx", <<q>>, <<a, b>>)
(* Mutant: the angles of TK1 in the order the comment above it gives. *)
AlphaIsLast(alpha, beta, gamma, q) == <<Rz(alpha + gamma, q), Phasedx(beta, alpha, q)>>
trans_TK1_PhasedX(alpha, beta, gamma, q) == <<Rz(alpha + gamma, q), Phasedx(beta, gamma, q)>>

(* The operands of TK1: rz, rx, rz, 0 for what the sequence leaves out. *)
TK1(seq) ==
  LET Angle(name, places) == LET found == {i \in places \cap DOMAIN seq : seq[i].name = name}
                             IN  IF found = {} THEN 0 ELSE seq[Min(found)].args[1]
  IN  <<Angle("rz", {1}), Angle("rx", {1, 2}), Angle("rz", {2, 3})>>
turn_run_to_tk1(run) ==
  LET q == run[1].wires[1]
      exact == AnglesOf(run)
      Written(seq) == IF seq = <<>> THEN <<>>
                      ELSE trans_TK1_PhasedX(TK1(seq)[1], TK1(seq)[2], TK1(seq)[3], q)
  IN  IF exact = {} THEN {<<Fused(run)>>}
      ELSE UNION {{Written(seq) : seq \in least_cost_basis(<<"ZXZ">>, a[1], a[2], a[3], q)} : a \in exact}

(* The ways to choose from each of several sets. *)
OneOfEach(sets) ==
  LET upTo[n \in 0 .. Len(sets)] ==
        IF n = 0 THEN {<<>>} ELSE {Append(c[1], c[2]) : c \in upTo[n - 1] \X sets[n]}
  IN  upTo[Len(sets)]

(* Every run becomes what its rule gives, behind its last gate. *)
Replaced(gates, runs, written) ==
  LET taken == UNION {ToSet(runs[r]) : r \in DOMAIN runs}
      At(i) == IF i \notin taken THEN <<gates[i]>>
               ELSE FlattenSeq([r \in DOMAIN runs |-> IF Last(runs[r]) = i THEN written[r] ELSE <<>>])
  IN  FlattenSeq([i \in DOMAIN gates |-> At(i)])
RunOf(gates, run)    == [k \in DOMAIN run |-> gates[run[k]]]
Merge_u3_gate(gates) ==
  LET runs == ForwardRuns(gates)
  IN  {Replaced(gates, runs, written) :
         written \in OneOfEach([r \in DOMAIN runs |-> merge_us_list(RunOf(gates, runs[r]))])}
turn_to_phasedx(gates) ==
  LET runs == ForwardRuns(gates)
  IN  {Replaced(gates, runs, written) :
         written \in OneOfEach([r \in DOMAIN runs |-> turn_run_to_tk1(RunOf(gates, runs[r]))])}

-----------------------------------------------------------------------------
(* DecomposeSwapQirPass: what a rule may give, {} where an assertion fails. *)
emitHOrDecompose(B, q) ==
  FirstRule(B, <<Rule({"h"}, <<H(q)>>),
                 Rule({"ry", "rz"}, <<Rz(Pi, q), Ry(Quarter, q)>>),
                 Rule({"rx", "rz"}, <<Rz(Quarter, q), Rx(Quarter, q), Rz(Quarter, q)>>),
                 Rule({"u3"}, <<U3(Quarter, 0, Pi, q)>>),
                 Rule({"sx", "rz", "x"}, <<Rz(Pi, q), Sx(q), Rz(Quarter, q), Sx(q), X(q)>>)>>)
decomposeToCzH(B, a, b) ==
  { ha[2] \o <<Cz(a, b)>> \o ha[2] \o ha[1] \o <<Cz(b, a)>> \o ha[1] \o ha[2] \o <<Cz(a, b)>> \o ha[2] :
      ha \in emitHOrDecompose(B, a) \X emitHOrDecompose(B, b) }
decomposeTocx(a, b) == <<Cx(a, b), Cx(b, a), Cx(a, b)>>
decomposeswap(B, a, b) ==
  CASE "cx" \in B                 -> {decomposeTocx(a, b)}
    [] "cz" \in B /\ "cx" \notin B -> decomposeToCzH(B, a, b)
    [] OTHER                      -> {}
runDecomposeSwapQir(B, gates) ==
  IF B = {} \/ "swap" \in B THEN {gates}
  ELSE {FlattenSeq(written) :
          written \in OneOfEach([i \in DOMAIN gates |->
             IF gates[i].name = "swap" THEN decomposeswap(B, gates[i].wires[1], gates[i].wires[2])
             ELSE {<<gates[i]>>}])}

-----------------------------------------------------------------------------
(* What a backend writes for a gate; nothing for one it does not know.     *)
U1q(a, b, q)  == Gate("U1q", <<q>>, <<a, b>>)
X2P(q) == Gate("X2P", <<q>>, <<>>)
X2M(q) == Gate("X2M", <<q>>, <<>>)
Y2P(q) == Gate("Y2P", <<q>>, <<>>)
Y2M(q) == Gate("Y2M", <<q>>, <<>>)

QirToQcis(g) ==
  LET q == g.wires[1]
      t == Last(g.wires)
  IN  CASE g.name = "h"   -> <<Rz(Pi, q), Y2P(q)>>
        [] g.name = "x"   -> <<X2P(q), X2P(q)>>
        [] g.name = "y"   -> <<Y2P(q), Y2P(q)>>
        [] g.name = "z"   -> <<Rz(Pi, q)>>
        [] g.name \in {"s", "sdg", "t", "tdg"} -> <<Rz(PhaseAngle[g.name], q)>>
        [] g.name = "rx"  -> <<Rz(Quarter, q), X2P(q), Rz(g.args[1], q), X2M(q), Rz(-Quarter, q)>>
        [] g.name = "ry"  -> <<X2P(q), Rz(g.args[1], q), X2M(q)>>
        [] g.name \in {"rz", "p"} -> <<Rz(g.args[1], q)>>
        [] g.name = "cx"  -> <<Y2M(t), Cz(q, t), Y2P(t)>>
        [] g.name = "cy"  -> <<Rz(Quarter, t), Y2P(t), Cz(q, t), Y2M(t), Rz(-Quarter, t)>>
        [] g.name \in {"cz", "mz"} -> <<g>>
        [] OTHER          -> <<>>
QirToIonQasm(g) ==
  LET q == g.wires[1]
      t == Last(g.wires)
  IN  CASE g.name = "phasedx" -> <<U1q(g.args[1], g.args[2], q)>>
        [] g.name = "cx" -> <<U1q(-Quarter, Quarter, t), Gate("rzz", <<q, t>>, <<Quarter>>),
                              Rz(-Quarter, q), U1q(Quarter, Pi, t), Rz(-Quarter, t)>>
        [] g.name \in {"rz", "mz", "reset"} -> <<g>>
        [] OTHER         -> <<>>
QirToQasm(g) == IF g.name = "cy" THEN <<>> ELSE <<g>>

translate(backend, gates) ==
  FlattenSeq([i \in DOMAIN gates |->
    (* what resynthesis wrote is of the basis, and written gate by gate *)
    CASE gates[i].name = "unitary"      -> <<gates[i]>>
      [] backend = "qasm-backend"       -> QirToQasm(gates[i])
      [] backend = "tianyan"            -> QirToQcis(gates[i])
      [] backend = "Trappedion-backend" -> QirToIonQasm(gates[i])])
=============================================================================
