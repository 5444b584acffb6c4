----------------------------- MODULE EulerBasis -----------------------------
(***************************************************************************)
(* A one-qubit gate as the shortest sequence of rotations about the axes a *)
(* basis offers (mlir/transforms/optimizations/utils/gate_matrix.cpp).     *)
(* Angles are exact here.  Where a matrix entry vanishes or lies on the    *)
(* branch cut of std::arg, the rounding decides what the code computes,    *)
(* and every outcome is taken.                                             *)
(***************************************************************************)
EXTENDS GateAlgebra

(* std::fmod keeps the sign of the dividend. *)
fmod(x, m) == IF x >= 0 THEN x % m ELSE -((-x) % m)
mod_2pi(x) == fmod(x + Pi, 2 * Pi) - Pi

(* The signs of cos(t/2) and sin(t/2), both where it is zero. *)
CosSigns(t) == LET r == t % (4 * Pi)
               IN  IF r \in {Pi, 3 * Pi} THEN {1, -1}
                   ELSE IF r < Pi \/ r > 3 * Pi THEN {1} ELSE {-1}
SinSigns(t) == CosSigns(t - Pi)

(* std::arg of a real number of one of the signs times exp(i x). *)
Args(x, signs) ==
  LET turned == {IF s = 1 THEN x ELSE x + Pi : s \in signs}
      wrapped(y) == ((y + Pi) % (2 * Pi)) - Pi
  IN  UNION {IF wrapped(y) = -Pi THEN {-Pi, Pi} ELSE {wrapped(y)} : y \in turned}

(* The angles <<theta, phi, lambda>> of the matrix of u3(t, f, l). *)
params_zyz_inner(t, f, l) ==
  LET turn  == t % (2 * Pi)
      theta == IF turn <= Pi THEN turn ELSE 2 * Pi - turn
  IN  {<<theta, ang1 + ang2 - det, ang1 - ang2>> :
         ang1 \in Args(f + l, CosSigns(t)), ang2 \in Args(f, SinSigns(t)),
         det \in Args(f + l, {1})}
params_zxz_inner(t, f, l) ==
  {<<p[1], p[2] + Pi \div 2, p[3] - Pi \div 2>> : p \in params_zyz_inner(t, f, l)}

(* The other two conversions read angles off a matrix whose entries have   *)
(* no exact form here, but for quarter turns.  They are modelled by what   *)
(* they return: angles whose sequence is the gate.                         *)
Quarters == {-Pi, -(Pi \div 2), 0, Pi \div 2, Pi}
IsQuarterTurn(t, f, l) == {t, f, l} \subseteq {k * (Pi \div 2) : k \in -8 .. 8}
Product(m, n) ==
  LET entry(r, c) == (m[r] * n[c] + m[r + 1] * n[c + 2]) % Modulus
  IN  <<entry(1, 1), entry(1, 2), entry(3, 1), entry(3, 2)>>
EulerMatrices(k, a) ==
  {<<p, Product(OneQubitMatrix(k, <<p[2]>>),
                Product(OneQubitMatrix(a, <<p[1]>>), OneQubitMatrix(k, <<p[3]>>)))>> :
     p \in {0, Pi \div 2, Pi} \X Quarters \X Quarters}
XZXMatrices == EulerMatrices("rx", "rz")
XYXMatrices == EulerMatrices("rx", "ry")
params_by_meaning(known, t, f, l) ==
  {s[1] : s \in {r \in known : SameUpToPhase(U3Matrix(t, f, l), r[2])}}

(* A rotation, left out when it is trivial. *)
Turn(k, x, q) == IF mod_2pi(x) = 0 THEN <<>> ELSE <<Gate(k, <<q>>, <<mod_2pi(x)>>)>>

circuit_kak(k, a, p, q) ==
  LET flat == IF p[1] = Pi THEN <<Pi, 0, p[3] - p[2]>> ELSE p
      e    == IF mod_2pi(flat[3] + Pi) = 0 \/ mod_2pi(flat[2] + Pi) = 0
              THEN <<-flat[1], flat[2] + Pi, flat[3] + Pi>> ELSE flat
  IN  IF p[1] = 0 THEN Turn(k, p[2] + p[3], q)
      ELSE Turn(k, e[3], q) \o <<Gate(a, <<q>>, <<e[1]>>)>> \o Turn(k, e[2], q)

circuit_psx_gen(withX, p, q) ==
  LET flat == IF p[1] = Pi THEN <<Pi, p[2] - p[3], 0>> ELSE p
      e    == IF mod_2pi(flat[3] + Pi) = 0 \/ mod_2pi(flat[2]) = 0
              THEN <<-flat[1], flat[2] + Pi, flat[3] + Pi>> ELSE flat
      theta  == e[1] + Pi
      middle == IF withX /\ mod_2pi(theta) = 0 THEN <<X(q)>>
                ELSE <<Sx(q)>> \o Turn("rz", theta, q) \o <<Sx(q)>>
  IN  CASE p[1] = 0 -> Turn("rz", p[3] + p[2], q)
        [] p[1] = Pi \div 2 -> Turn("rz", p[3] - Pi \div 2, q) \o <<Sx(q)>>
                                 \o Turn("rz", p[2] + Pi \div 2, q)
        [] OTHER -> Turn("rz", e[3], q) \o middle \o Turn("rz", e[2] + Pi, q)

(* The sequences a named Euler basis may give. *)
decompose_unitary_to_basis(name, t, f, l, q) ==
  CASE name = "ZYZ"  -> {circuit_kak("rz", "ry", p, q) : p \in params_zyz_inner(t, f, l)}
    [] name = "ZXZ"  -> {circuit_kak("rz", "rx", p, q) : p \in params_zxz_inner(t, f, l)}
    [] name = "ZSX"  -> {circuit_psx_gen(FALSE, p, q) : p \in params_zyz_inner(t, f, l)}
    [] name = "ZSXX" -> {circuit_psx_gen(TRUE, p, q) : p \in params_zyz_inner(t, f, l)}
    [] name = "XZX" /\ IsQuarterTurn(t, f, l) ->
         {circuit_kak("rx", "rz", p, q) : p \in params_by_meaning(XZXMatrices, t, f, l)}
    [] name = "XYX" /\ IsQuarterTurn(t, f, l) ->
         {circuit_kak("rx", "ry", p, q) : p \in params_by_meaning(XYXMatrices, t, f, l)}
    (* angles without an exact form: rz written as a turned ry stands for them *)
    [] name = "XYX" /\ ~ IsQuarterTurn(t, f, l) ->
         {<<Rx(-(Pi \div 2), q), Ry(l, q), Rx(Pi \div 2, q), Ry(t, q),
            Rx(-(Pi \div 2), q), Ry(f, q), Rx(Pi \div 2, q)>>}
    [] OTHER -> {}

(* What the named bases offer, each sequence with the place of its name;   *)
(* the first of the shortest is taken.  A basis whose angles have no exact *)
(* form is never shorter than ZXZ, which is tried before it.               *)
Offers(names, t, f, l, q) ==
  UNION {{i} \X decompose_unitary_to_basis(names[i], t, f, l, q) : i \in DOMAIN names}
Shortest(offers) ==
  LET Worse(r, s) == \/ Len(r[2]) > Len(s[2])
                     \/ Len(r[2]) = Len(s[2]) /\ r[1] >= s[1]
  IN  {s[2] : s \in {o \in offers : \A k \in {r[1] : r \in offers} :
                                     \E r \in offers : r[1] = k /\ Worse(r, o)}}
least_cost_basis(names, t, f, l, q) ==
  UNION {Shortest(offers) : offers \in {Offers(names, t, f, l, q)}}
=============================================================================
