--------------------------- MODULE GatePassProofs ---------------------------
(***************************************************************************)
(* Theorems about an unoptimised compilation, for every program, gate set  *)
(* and number of wires: what decomposition leaves passes Check_gate, what  *)
(* translation and the stages for a device leave is in the basis, and a    *)
(* program of well-formed gates is not refused on the way.                 *)
(***************************************************************************)
EXTENDS CompiledEffect, CountingProofs, TLAPS

(* A sequence, whatever its elements are.                                  *)
IsList(s) == Len(s) \in Nat /\ s = [i \in 1 .. Len(s) |-> s[i]]

(* A sequence is a list.                                                   *)
LEMMA SequencesAreLists ==
  ASSUME NEW A, NEW s \in Seq(A)
  PROVE  IsList(s)
  BY DEF IsList

(* A list is a sequence of its elements.                                   *)
LEMMA ListsAreSequences ==
  ASSUME NEW s, IsList(s)
  PROVE  \E A : s \in Seq(A) /\ \A x \in A : \E i \in 1 .. Len(s) : x = s[i]
<1> DEFINE A == { s[i] : i \in 1 .. Len(s) }
<1>1. s \in Seq(A)
  BY DEF IsList
<1> QED BY <1>1

(* Lists one behind the other.                                             *)
LEMMA ListsJoin ==
  ASSUME NEW s, IsList(s), NEW t, IsList(t)
  PROVE  /\ IsList(s \o t)
         /\ \A i \in 1 .. Len(s \o t) : \/ \E k \in 1 .. Len(s) : (s \o t)[i] = s[k]
                                        \/ \E k \in 1 .. Len(t) : (s \o t)[i] = t[k]
<1>1. PICK A : s \in Seq(A) /\ \A x \in A : \E i \in 1 .. Len(s) : x = s[i]
  BY ListsAreSequences
<1>2. PICK B : t \in Seq(B) /\ \A x \in B : \E i \in 1 .. Len(t) : x = t[i]
  BY ListsAreSequences
<1>3. s \in Seq(A \cup B) /\ t \in Seq(A \cup B)
  BY <1>1, <1>2
<1>4. s \o t \in Seq(A \cup B)
  BY <1>3
<1>5. \A i \in 1 .. Len(s \o t) : (s \o t)[i] \in A \cup B
  BY <1>4
<1> QED BY <1>1, <1>2, <1>4, <1>5, SequencesAreLists

(* A list with one element more.                                           *)
LEMMA ListGrows ==
  ASSUME NEW s, IsList(s), NEW e
  PROVE  /\ IsList(Append(s, e))
         /\ \A i \in 1 .. Len(Append(s, e)) :
              Append(s, e)[i] = e \/ \E k \in 1 .. Len(s) : Append(s, e)[i] = s[k]
<1>1. PICK A : s \in Seq(A) /\ \A x \in A : \E i \in 1 .. Len(s) : x = s[i]
  BY ListsAreSequences
<1>2. s \in Seq(A \cup {e}) /\ Append(s, e) \in Seq(A \cup {e})
  BY <1>1
<1>3. \A i \in 1 .. Len(Append(s, e)) : Append(s, e)[i] \in A \cup {e}
  BY <1>2
<1> QED BY <1>1, <1>2, <1>3, SequencesAreLists

(* The rest of a list.                                                     *)
LEMMA ListShrinks ==
  ASSUME NEW s, IsList(s), s # <<>>
  PROVE  /\ IsList(Tail(s))
         /\ Len(s) >= 1 /\ Head(s) = s[1]
         /\ \A i \in 1 .. Len(Tail(s)) : \E k \in 1 .. Len(s) : Tail(s)[i] = s[k]
<1>1. PICK A : s \in Seq(A) /\ \A x \in A : \E i \in 1 .. Len(s) : x = s[i]
  BY ListsAreSequences
<1>2. Tail(s) \in Seq(A) /\ Len(s) >= 1 /\ Head(s) = s[1]
  BY <1>1
<1>3. \A i \in 1 .. Len(Tail(s)) : Tail(s)[i] \in A
  BY <1>2
<1> QED BY <1>1, <1>2, <1>3, SequencesAreLists

-----------------------------------------------------------------------------
(* What decomposition keeps of each gate: one it still rewrites is one it  *)
(* may be given, one it has settled is one Check_gate has a matrix for.    *)
(* The only gate it has both a rule and a matrix for, cy, is never settled. *)
HasFields(g) == DOMAIN g = {"name", "wires", "args", "due", "parts"}
Shaped(g)    == HasFields(g) /\ IsList(g.wires) /\ (g.name = "cy" => g.due)
Supported(g) == Shaped(g) /\ IF g.due THEN WellFormed(g) /\ g.name # "mz" ELSE Passes(g)
AllShaped(gates)    == IsList(gates) /\ \A i \in 1 .. Len(gates) : Shaped(gates[i])
AllSupported(gates) == IsList(gates) /\ \A i \in 1 .. Len(gates) : Supported(gates[i])

(* The lists rules write wires and angles as.                              *)
LEMMA ShortLists ==
  \A p, q, r, s : /\ IsList(<<p>>) /\ IsList(<<p, q>>) /\ IsList(<<p, q, r>>)
                  /\ IsList(<<p, q, r, s>>)
  BY DEF IsList

(* A gate of the gate set with its number of wires and angles.             *)
LEMMA WrittenIsSupported ==
  ASSUME NEW n \in gate_set \ {"cy"}, NEW w, NEW t, IsList(w),
         Len(w) = WireCount(n), Len(t) = AngleCount(n)
  PROVE  Supported(Gate(n, w, t))
  BY DEF Supported, Shaped, HasFields, Gate, Passes, HasMatrix

(* A gate handed to another rule with the operands its name asks for.      *)
LEMMA HandedOnIsSupported ==
  ASSUME NEW n, NEW w, NEW t, IsList(w),
         n \in AnyCount \/ (n \in DOMAIN OperandCount /\ OperandCount[n] = Len(w) + Len(t))
  PROVE  Supported(Due(Gate(n, w, t)))
  BY DEF Supported, Shaped, HasFields, Gate, Due, WellFormed, Decomposable, AnyCount, OperandCount

(* The one-wire gates that rules write.                                    *)
LEMMA OneWireGates ==
  \A q, a, b, c : /\ Supported(X(q)) /\ Supported(H(q)) /\ Supported(S(q)) /\ Supported(T(q))
                  /\ Supported(Sdg(q)) /\ Supported(Tdg(q))
                  /\ Supported(Rx(a, q)) /\ Supported(Ry(a, q)) /\ Supported(Rz(a, q))
                  /\ Supported(Ph(a, q)) /\ Supported(U3(a, b, c, q))
<1> TAKE q, a, b, c
<1>1. IsList(<<q>>) /\ Len(<<q>>) = 1 /\ Len(<<>>) = 0 /\ Len(<<a>>) = 1 /\ Len(<<a, b, c>>) = 3
  BY ShortLists
<1>2. \A n \in {"x", "h", "s", "t", "sdg", "tdg"} : Supported(Gate(n, <<q>>, <<>>))
  <2>1. \A n \in {"x", "h", "s", "t", "sdg", "tdg"} :
          n \in gate_set \ {"cy"} /\ WireCount(n) = 1 /\ AngleCount(n) = 0
    BY DEF gate_set, WireCount, AngleCount
  <2> QED BY <1>1, <2>1, WrittenIsSupported
<1>3. \A n \in {"rx", "ry", "rz", "p"} : Supported(Gate(n, <<q>>, <<a>>))
  <2>1. \A n \in {"rx", "ry", "rz", "p"} :
          n \in gate_set \ {"cy"} /\ WireCount(n) = 1 /\ AngleCount(n) = 1
    BY DEF gate_set, WireCount, AngleCount
  <2> QED BY <1>1, <2>1, WrittenIsSupported
<1>4. Supported(Gate("u3", <<q>>, <<a, b, c>>))
  <2>1. "u3" \in gate_set \ {"cy"} /\ WireCount("u3") = 1 /\ AngleCount("u3") = 3
    BY DEF gate_set, WireCount, AngleCount
  <2> QED BY <1>1, <2>1, WrittenIsSupported
<1> QED BY <1>2, <1>3, <1>4 DEF X, H, S, T, Sdg, Tdg, Rx, Ry, Rz, Ph, U3

(* The gates handed on that are not of any number of wires.                *)
LEMMA OperandsHandedOn ==
  /\ \A n \in {"cu1", "crx", "cry", "crz", "rxx", "rzx", "ccx"} : OperandCount[n] = 3
  /\ {"cu1", "crx", "cry", "crz", "rxx", "rzx", "ccx", "rc3x"} \subseteq DOMAIN OperandCount
  /\ OperandCount["rc3x"] = 4
<1>1. \A n \in {"cu1", "crx", "cry", "crz", "rxx", "rzx", "ccx"} : OperandCount[n] = 3
  BY DEF OperandCount
<1>2. {"cu1", "crx", "cry", "crz", "rxx", "rzx", "ccx", "rc3x"} \subseteq DOMAIN OperandCount
  BY DEF OperandCount
<1>3. OperandCount["rc3x"] = 4
  BY DEF OperandCount
<1> QED BY <1>1, <1>2, <1>3

(* The gates of two wires that rules write, and those they hand on.        *)
LEMMA LargerGates ==
  \A f, a, b, c : /\ Supported(Cx(a, b)) /\ Supported(Cp(f, a, b))
                  /\ Supported(Cu1(f, a, b)) /\ Supported(Crx(f, a, b))
                  /\ Supported(Cry(f, a, b)) /\ Supported(Crz(f, a, b))
                  /\ Supported(Rxx(f, a, b)) /\ Supported(Rzx(f, a, b))
                  /\ Supported(Ccx(a, b, c))
<1> TAKE f, a, b, c
<1>1. /\ IsList(<<a, b>>) /\ Len(<<a, b>>) = 2 /\ Len(<<>>) = 0 /\ Len(<<f>>) = 1
      /\ IsList(<<a, b, c>>) /\ Len(<<a, b, c>>) = 3
  BY ShortLists
<1>2. Supported(Cx(a, b)) /\ Supported(Cp(f, a, b))
  <2>1. /\ \A n \in {"cx", "cp"} : n \in gate_set \ {"cy"} /\ WireCount(n) = 2
        /\ AngleCount("cx") = 0 /\ AngleCount("cp") = 1
    BY DEF gate_set, WireCount, AngleCount
  <2> QED BY <1>1, <2>1, WrittenIsSupported DEF Cx, Cp
<1>3. \A n \in {"cu1", "crx", "cry", "crz", "rxx", "rzx"} : Supported(Due(Gate(n, <<a, b>>, <<f>>)))
  <2>1. \A n \in {"cu1", "crx", "cry", "crz", "rxx", "rzx"} :
          n \in DOMAIN OperandCount /\ OperandCount[n] = Len(<<a, b>>) + Len(<<f>>)
    BY <1>1, OperandsHandedOn
  <2> QED BY <1>1, <2>1, HandedOnIsSupported
<1>4. Supported(Ccx(a, b, c))
  <2>1. "ccx" \in DOMAIN OperandCount /\ OperandCount["ccx"] = Len(<<a, b, c>>) + Len(<<>>)
    BY <1>1, OperandsHandedOn
  <2> QED BY <1>1, <2>1, HandedOnIsSupported DEF Ccx
<1> QED BY <1>2, <1>3, <1>4 DEF Cu1, Crx, Cry, Crz, Rxx, Rzx

-----------------------------------------------------------------------------
(* The rules that write for gates of one wire.                             *)
LEMMA RulesOfOneWire ==
  \A t, f, l, a :
    /\ AllSupported(decompose_u1(l, a)) /\ AllSupported(decompose_u2(f, l, a))
    /\ AllSupported(decompose_u(t, f, l, a)) /\ AllSupported(decompose_sxdg(a))
    /\ AllSupported(decompose_r(t, f, a)) /\ AllSupported(decompose_rxy(t, f, a))
    /\ AllSupported(decompose_x2p(a)) /\ AllSupported(decompose_x2m(a))
    /\ AllSupported(decompose_y2p(a)) /\ AllSupported(decompose_y2m(a))
    /\ AllSupported(decompose_xy2p(t, a)) /\ AllSupported(decompose_xy2m(t, a))
<1> TAKE t, f, l, a
<1> USE OneWireGates DEF AllSupported, IsList
<1>1. AllSupported(decompose_u1(l, a)) /\ AllSupported(decompose_u2(f, l, a))
  BY DEF decompose_u1, decompose_u2
<1>2. AllSupported(decompose_u(t, f, l, a)) /\ AllSupported(decompose_sxdg(a))
  BY DEF decompose_u, decompose_sxdg
<1>3. AllSupported(decompose_r(t, f, a)) /\ AllSupported(decompose_rxy(t, f, a))
  BY DEF decompose_r, decompose_rxy
<1>4. AllSupported(decompose_x2p(a)) /\ AllSupported(decompose_x2m(a))
  BY DEF decompose_x2p, decompose_x2m
<1>5. AllSupported(decompose_y2p(a)) /\ AllSupported(decompose_y2m(a))
  BY DEF decompose_y2p, decompose_y2m
<1>6. AllSupported(decompose_xy2p(t, a)) /\ AllSupported(decompose_xy2m(t, a))
  BY DEF decompose_xy2p, decompose_xy2m
<1> QED BY <1>1, <1>2, <1>3, <1>4, <1>5, <1>6

(* The rules that write for gates of two wires.                            *)
LEMMA RulesOfTwoWires ==
  \A t, f, l, g, a, b :
    /\ AllSupported(decompose_ch(a, b)) /\ AllSupported(decompose_cy(a, b))
    /\ AllSupported(decompose_cu3(t, f, l, a, b)) /\ AllSupported(decompose_cu1(l, a, b))
    /\ AllSupported(decompose_cu(t, f, l, g, a, b)) /\ AllSupported(decompose_csx(a, b))
    /\ AllSupported(decompose_cs(a, b)) /\ AllSupported(decompose_csdg(a, b))
    /\ AllSupported(decompose_crx(t, a, b)) /\ AllSupported(decompose_cry(t, a, b))
    /\ AllSupported(decompose_crz(t, a, b)) /\ AllSupported(decompose_rxx(t, a, b))
    /\ AllSupported(decompose_ryy(t, a, b)) /\ AllSupported(decompose_rzz(t, a, b))
    /\ AllSupported(decompose_rzx(t, a, b)) /\ AllSupported(decompose_ecr(a, b))
    /\ AllSupported(decompose_dcx(a, b)) /\ AllSupported(decompose_iswap(a, b))
    /\ AllSupported(decompose_cpx(t, a, b)) /\ AllSupported(decompose_cxz(t, a, b))
<1> TAKE t, f, l, g, a, b
<1> USE OneWireGates, LargerGates DEF AllSupported, IsList
<1>1. AllSupported(decompose_ch(a, b)) /\ AllSupported(decompose_cy(a, b))
  BY DEF decompose_ch, decompose_cy
<1>2. AllSupported(decompose_cu3(t, f, l, a, b)) /\ AllSupported(decompose_cu1(l, a, b))
  BY DEF decompose_cu3, decompose_cu1
<1>3. AllSupported(decompose_cu(t, f, l, g, a, b))
  <2> DEFINE p == Rz((f + l) \div 2, a)
             q == Rz((l - f) \div 2, b)
             r == U3(-(t \div 2), 0, -((l + f) \div 2), b)
             s == U3(t \div 2, f, 0, b)
  <2>1. Supported(p) /\ Supported(q) /\ Supported(r) /\ Supported(s)
    OBVIOUS
  <2>2. decompose_cu(t, f, l, g, a, b) = <<Rz(g, a), p, q, Cx(a, b), r, Cx(a, b), s>>
    BY DEF decompose_cu
  <2> HIDE DEF p, q, r, s
  <2> QED BY <2>1, <2>2
<1>11. AllSupported(decompose_csx(a, b))
  BY DEF decompose_csx
<1>4. AllSupported(decompose_cs(a, b)) /\ AllSupported(decompose_csdg(a, b))
  BY DEF decompose_cs, decompose_csdg
<1>5. AllSupported(decompose_crx(t, a, b)) /\ AllSupported(decompose_cry(t, a, b))
  BY DEF decompose_crx, decompose_cry
<1>6. AllSupported(decompose_crz(t, a, b)) /\ AllSupported(decompose_rxx(t, a, b))
  BY DEF decompose_crz, decompose_rxx
<1>7. AllSupported(decompose_ryy(t, a, b)) /\ AllSupported(decompose_rzz(t, a, b))
  BY DEF decompose_ryy, decompose_rzz
<1>8. AllSupported(decompose_rzx(t, a, b)) /\ AllSupported(decompose_ecr(a, b))
  BY DEF decompose_rzx, decompose_ecr
<1>9. AllSupported(decompose_dcx(a, b)) /\ AllSupported(decompose_iswap(a, b))
  BY DEF decompose_dcx, decompose_iswap
<1>10. AllSupported(decompose_cpx(t, a, b)) /\ AllSupported(decompose_cxz(t, a, b))
  BY DEF decompose_cpx, decompose_cxz
<1> QED BY <1>1, <1>2, <1>3, <1>4, <1>5, <1>6, <1>7, <1>8, <1>9, <1>10, <1>11

(* The gate of four wires that is handed on.                               *)
LEMMA FourWires == \A a, b, c, d : Supported(Due(Gate("rc3x", <<a, b, c, d>>, <<>>)))
<1> TAKE a, b, c, d
<1>1. IsList(<<a, b, c, d>>)
  BY ShortLists
<1>2. OperandCount["rc3x"] = Len(<<a, b, c, d>>) + Len(<<>>)
  BY OperandsHandedOn
<1> QED BY <1>1, <1>2, OperandsHandedOn, HandedOnIsSupported

(* The rules that write for gates of three wires and more.                 *)
LEMMA RulesOfManyWires ==
  \A a, b, c, d, e :
    /\ AllSupported(decompose_ccx(a, b, c)) /\ AllSupported(decompose_cswap(a, b, c))
    /\ AllSupported(decompose_ccz(a, b, c)) /\ AllSupported(decompose_rccx(a, b, c))
    /\ AllSupported(decompose_rc3x(a, b, c, d)) /\ AllSupported(decompose_c3x(a, b, c, d))
    /\ AllSupported(decompose_c3sqrtx(a, b, c, d)) /\ AllSupported(decompose_c4x(a, b, c, d, e))
<1> TAKE a, b, c, d, e
<1> USE OneWireGates, LargerGates DEF AllSupported, IsList
<1>1. AllSupported(decompose_ccx(a, b, c))
  BY DEF decompose_ccx
<1>2. AllSupported(decompose_cswap(a, b, c))
  BY DEF decompose_cswap
<1>3. AllSupported(decompose_ccz(a, b, c)) /\ AllSupported(decompose_rccx(a, b, c))
  BY DEF decompose_ccz, decompose_rccx
<1>4. AllSupported(decompose_rc3x(a, b, c, d))
  BY DEF decompose_rc3x
<1>5. AllSupported(decompose_c3x(a, b, c, d))
  BY DEF decompose_c3x
<1>6. \A p, q, r, s : AllSupported(decompose_c3sqrtx(p, q, r, s))
  BY SMTT(60) DEF decompose_c3sqrtx
<1>7. AllSupported(decompose_c4x(a, b, c, d, e))
  <2> DEFINE rc3x  == Due(Gate("rc3x", <<a, b, c, d>>, <<>>))
             front == <<H(e), Cu1(Pi \div 2, d, e), H(e), rc3x, H(e),
                        Cu1(-(Pi \div 2), d, e), H(e), rc3x>>
             back  == decompose_c3sqrtx(a, b, c, e)
  <2>1. Supported(rc3x)
    BY FourWires
  <2> HIDE DEF rc3x
  <2>2. AllSupported(front)
    BY <2>1
  <2>3. AllSupported(back)
    BY <1>6
  <2>4. decompose_c4x(a, b, c, d, e) = front \o back
    BY DEF decompose_c4x, rc3x
  <2> HIDE DEF front, back
  <2>5. \A i \in 1 .. Len(front \o back) : Supported((front \o back)[i])
    BY <2>2, <2>3, ListsJoin DEF AllSupported
  <2>6. IsList(front \o back)
    BY <2>2, <2>3, ListsJoin DEF AllSupported
  <2> QED BY <2>4, <2>5, <2>6
<1> QED BY <1>1, <1>2, <1>3, <1>4, <1>5, <1>6, <1>7

-----------------------------------------------------------------------------
(* The controls but the last one, with a wire behind them.                 *)
LEMMA FewerControls ==
  ASSUME NEW w, IsList(w), NEW x
  PROVE  IsList(SubSeq(w, 1, Len(w) - 2) \o <<x>>)
<1>1. PICK A : w \in Seq(A)
  BY ListsAreSequences
<1>2. SubSeq(w, 1, Len(w) - 2) \in Seq(A)
  BY <1>1 DEF IsList
<1>3. IsList(SubSeq(w, 1, Len(w) - 2))
  BY <1>2, SequencesAreLists
<1>4. IsList(<<x>>)
  BY ShortLists
<1> QED BY <1>3, <1>4, ListsJoin

(* A gate of any number of wires may be handed on, whatever its wires.     *)
LEMMA AnyNumberOfWires ==
  \A n \in AnyCount : \A w, t : IsList(w) => Supported(Due(Gate(n, w, t)))
  BY HandedOnIsSupported

(* The rules for any number of controls hand on to themselves and to each  *)
(* other what they may be given.                                           *)
LEMMA RulesOfAnyWires ==
  ASSUME NEW w, IsList(w), NEW t
  PROVE  /\ AllSupported(decompose_mcx(w)) /\ AllSupported(decompose_mcp(t, w))
         /\ AllSupported(decompose_mcrx(t, w)) /\ AllSupported(decompose_mcry(t, w))
         /\ AllSupported(decompose_mcrz(t, w))
<1> DEFINE last   == w[Len(w) - 1]
           others == SubSeq(w, 1, Len(w) - 2)
           target == w[Len(w)]
           flip   == Mcx(others \o <<last>>)
           rest(n, angles) == Due(Gate(n, others \o <<target>>, angles))
<1>1. Supported(flip)
  <2>1. IsList(others \o <<last>>)
    BY FewerControls
  <2> QED BY <2>1, AnyNumberOfWires DEF Mcx, AnyCount
<1>2. \A n \in AnyCount : \A angles : Supported(rest(n, angles))
  <2>1. IsList(others \o <<target>>)
    BY FewerControls
  <2> QED BY <2>1, AnyNumberOfWires
<1>3. "mcx" \in AnyCount /\ "mcp" \in AnyCount /\ "mcrx" \in AnyCount /\ "mcry" \in AnyCount
      /\ "mcrz" \in AnyCount
  BY DEF AnyCount
<1>4. \A p, q, r : Supported(p) /\ Supported(q) /\ Supported(r) =>
        AllSupported(<<p, flip, q, flip, r>>)
  BY <1>1 DEF AllSupported, IsList
<1>5. \A p : Supported(p) => AllSupported(<<p>>)
  BY DEF AllSupported, IsList
<1>6. AllSupported(decompose_mcx(w))
  <2>1. CASE Len(w) = 1
    BY <2>1, <1>5, OneWireGates DEF decompose_mcx
  <2>2. CASE Len(w) = 2
    BY <2>2, <1>5, LargerGates DEF decompose_mcx
  <2>3. CASE Len(w) = 3
    BY <2>3, RulesOfManyWires DEF decompose_mcx
  <2>4. CASE Len(w) = 4
    BY <2>4, RulesOfManyWires DEF decompose_mcx
  <2>5. CASE Len(w) \notin 1 .. 4
    <3>1. decompose_mcx(w) = <<Crx(Pi \div 2, last, target), flip, Crx(-(Pi \div 2), last, target),
                               flip, rest("mcx", <<>>)>>
      BY <2>5 DEF decompose_mcx, Laddered, Mcx
    <3> HIDE DEF flip, rest, last, target, others
    <3> QED BY <3>1, <1>2, <1>3, <1>4, LargerGates
  <2> QED BY <2>1, <2>2, <2>3, <2>4, <2>5
<1>7. AllSupported(decompose_mcp(t, w))
  <2>1. CASE Len(w) = 1
    BY <2>1, <1>5, OneWireGates DEF decompose_mcp
  <2>2. CASE Len(w) = 2
    BY <2>2, <1>5, LargerGates DEF decompose_mcp
  <2>3. CASE Len(w) \notin 1 .. 2
    <3>1. decompose_mcp(t, w) = <<Cp(t \div 2, last, target), flip, Cp(-(t \div 2), last, target),
                                  flip, rest("mcp", <<t \div 2>>)>>
      BY <2>3 DEF decompose_mcp, Laddered
    <3> HIDE DEF flip, rest, last, target, others
    <3> QED BY <3>1, <1>2, <1>3, <1>4, LargerGates
  <2> QED BY <2>1, <2>2, <2>3
<1>8. AllSupported(decompose_mcrx(t, w))
  <2>1. CASE Len(w) = 1
    BY <2>1, <1>5, OneWireGates DEF decompose_mcrx
  <2>2. CASE Len(w) = 2
    BY <2>2, RulesOfTwoWires DEF decompose_mcrx
  <2>3. CASE Len(w) \notin 1 .. 2
    <3>1. decompose_mcrx(t, w) = <<Crx(t \div 2, last, target), flip, Crx(-(t \div 2), last, target),
                                   flip, rest("mcrx", <<t \div 2>>)>>
      BY <2>3 DEF decompose_mcrx, Laddered
    <3> HIDE DEF flip, rest, last, target, others
    <3> QED BY <3>1, <1>2, <1>3, <1>4, LargerGates
  <2> QED BY <2>1, <2>2, <2>3
<1>9. AllSupported(decompose_mcry(t, w))
  <2>1. CASE Len(w) = 1
    BY <2>1, <1>5, OneWireGates DEF decompose_mcry
  <2>2. CASE Len(w) = 2
    BY <2>2, RulesOfTwoWires DEF decompose_mcry
  <2>3. CASE Len(w) \notin 1 .. 2
    <3>1. decompose_mcry(t, w) = <<Cry(t \div 2, last, target), flip, Cry(-(t \div 2), last, target),
                                   flip, rest("mcry", <<t \div 2>>)>>
      BY <2>3 DEF decompose_mcry, Laddered
    <3> HIDE DEF flip, rest, last, target, others
    <3> QED BY <3>1, <1>2, <1>3, <1>4, LargerGates
  <2> QED BY <2>1, <2>2, <2>3
<1>10. AllSupported(decompose_mcrz(t, w))
  <2>1. CASE Len(w) = 1
    BY <2>1, <1>5, OneWireGates DEF decompose_mcrz
  <2>2. CASE Len(w) = 2
    BY <2>2, RulesOfTwoWires DEF decompose_mcrz
  <2>3. CASE Len(w) \notin 1 .. 2
    <3>1. decompose_mcrz(t, w) = <<Crz(t \div 2, last, target), flip, Crz(-(t \div 2), last, target),
                                   flip, rest("mcrz", <<t \div 2>>)>>
      BY <2>3 DEF decompose_mcrz, Laddered
    <3> HIDE DEF flip, rest, last, target, others
    <3> QED BY <3>1, <1>2, <1>3, <1>4, LargerGates
  <2> QED BY <2>1, <2>2, <2>3
<1> QED BY <1>6, <1>7, <1>8, <1>9, <1>10

(* One rotation for every pair of wires.                                   *)
LEMMA RuleOfPairs ==
  ASSUME NEW w, IsList(w), NEW t
  PROVE  AllSupported(decompose_ms(t, w))
<1> DEFINE n == Len(w)
           m == (n * (n - 1)) \div 2
           rotation(k) == Rxx(t, w[PairsUpTo(n)[k][1]], w[PairsUpTo(n)[k][2]])
<1>1. m \in Nat
  <2>1. n \in Nat
    BY DEF IsList
  <2>2. n * (n - 1) \in Nat
    BY <2>1
  <2> QED BY <2>2
<1>2. decompose_ms(t, w) = [k \in 1 .. m |-> rotation(k)]
  BY DEF decompose_ms
<1>3. \A k \in 1 .. m : Supported(rotation(k))
  BY LargerGates
<1> HIDE DEF m, rotation
<1>4. Len(decompose_ms(t, w)) = m
  BY <1>1, <1>2
<1> QED BY <1>1, <1>2, <1>3, <1>4 DEF AllSupported, IsList

(* Whatever gate the pass rewrites, it writes gates it settles, or rewrites *)
(* in turn.                                                                *)
LEMMA DecomposeIsSupported ==
  ASSUME NEW g, Decomposable(g), IsList(g.wires)
  PROVE  AllSupported(Decompose(g))
<1> DEFINE w == g.wires
           t == g.args
<1>1. g.name \in AnyCount => AllSupported(Decompose(g))
  BY RulesOfAnyWires, RuleOfPairs DEF Decompose, AnyCount
<1>2. CASE g.name \in DOMAIN OperandCount
  <2>1. g.name \in DOMAIN OperandCount
    BY <1>2
  <2> QED BY <2>1, RulesOfOneWire, RulesOfTwoWires, RulesOfManyWires DEF Decompose, OperandCount
<1> QED BY <1>1, <1>2 DEF Decomposable

-----------------------------------------------------------------------------
(* A gate whose wires are renamed is what it was, on as many wires.        *)
LEMMA RenamedGates ==
  ASSUME NEW g, NEW gates, AllShaped(gates)
  PROVE  LET new == ReplaceUses(g, gates)
         IN  /\ IsList(new) /\ Len(new) = Len(gates)
             /\ \A i \in 1 .. Len(gates) :
                  /\ Shaped(new[i]) /\ Len(new[i].wires) = Len(gates[i].wires)
                  /\ new[i].name = gates[i].name /\ new[i].args = gates[i].args
                  /\ new[i].due = gates[i].due
<1> DEFINE new == ReplaceUses(g, gates)
<1>1. Len(gates) \in Nat /\ DOMAIN gates = 1 .. Len(gates)
  BY DEF AllShaped, IsList
<1>2. Len(new) = Len(gates) /\ IsList(new)
  BY <1>1 DEF ReplaceUses, IsList
<1>3. ASSUME NEW i \in 1 .. Len(gates)
      PROVE  /\ Shaped(new[i]) /\ Len(new[i].wires) = Len(gates[i].wires)
             /\ new[i].name = gates[i].name /\ new[i].args = gates[i].args
             /\ new[i].due = gates[i].due
  <2> DEFINE old   == gates[i]
             wires == [k \in DOMAIN old.wires |-> Renaming(g, old.wires[k])]
  <2>1. Shaped(old)
    BY DEF AllShaped
  <2>2. new[i] = [old EXCEPT !.wires = wires]
    BY <1>1 DEF ReplaceUses
  <2>3. Len(wires) = Len(old.wires) /\ IsList(wires)
    BY <2>1 DEF Shaped, IsList
  <2> HIDE DEF wires, old
  <2>4. /\ new[i].wires = wires /\ new[i].name = old.name /\ new[i].args = old.args
        /\ new[i].due = old.due /\ DOMAIN new[i] = DOMAIN old
    BY <2>1, <2>2 DEF Shaped, HasFields
  <2> QED BY <2>1, <2>3, <2>4 DEF Shaped, HasFields, old
<1> QED BY <1>2, <1>3

(* So it is as supported as it was.                                        *)
LEMMA RenamedIsSupported ==
  ASSUME NEW g, NEW gates, AllSupported(gates)
  PROVE  AllSupported(ReplaceUses(g, gates))
<1> DEFINE new == ReplaceUses(g, gates)
<1>1. AllShaped(gates)
  BY DEF AllSupported, AllShaped, Supported
<1>2. ASSUME NEW i \in 1 .. Len(gates) PROVE Supported(new[i])
  <2>1. /\ Shaped(new[i]) /\ Len(new[i].wires) = Len(gates[i].wires)
        /\ new[i].name = gates[i].name /\ new[i].args = gates[i].args
        /\ new[i].due = gates[i].due
    BY <1>1, RenamedGates
  <2>2. Supported(gates[i])
    BY DEF AllSupported
  <2> HIDE DEF new
  <2> QED BY <2>1, <2>2 DEF Supported, WellFormed, Passes, Decomposable, HasMatrix
<1>3. IsList(new) /\ Len(new) = Len(gates)
  BY <1>1, RenamedGates
<1> QED BY <1>2, <1>3 DEF AllSupported

(* What a list of supported gates, and of gates that pass, is made of.     *)
AllPass(gates) == IsList(gates) /\ \A i \in 1 .. Len(gates) : Passes(gates[i])

DecomposeInv ==
  SourceIsWellFormed => /\ pass = "decompose" => AllSupported(todo) /\ AllPass(done)
                        /\ pass = "check" => AllPass(todo)

(* The walk starts with every gate but the measurements.                   *)
LEMMA InitDecompose == Init => DecomposeInv
<1> SUFFICES ASSUME Init, SourceIsWellFormed PROVE DecomposeInv
  BY DEF DecomposeInv
<1>1. IsProgram(source)
  BY JobsAssumption DEF Init
<1>2. IsList(source) /\ DOMAIN source = 1 .. Len(source)
  BY <1>1 DEF IsProgram, IsList
<1>3. Len(todo) = Len(source) /\ IsList(todo)
  BY <1>2 DEF Init, IsList
<1>4. ASSUME NEW i \in 1 .. Len(source) PROVE Supported(todo[i])
  <2>1. IsGate(source[i]) /\ ~ source[i].due /\ WellFormed(source[i])
    BY <1>1, <1>2 DEF IsProgram, SourceIsWellFormed
  <2>2. IsList(source[i].wires)
    BY <2>1 DEF IsGate, IsList
  <2>3. todo[i] = IF source[i].name = "mz" THEN source[i] ELSE Due(source[i])
    BY <1>2 DEF Init
  <2>4. CASE source[i].name = "mz"
    BY <2>1, <2>2, <2>3, <2>4 DEF Supported, Shaped, HasFields, Passes, IsGate
  <2>5. CASE source[i].name # "mz"
    <3>1. /\ todo[i].wires = source[i].wires /\ todo[i].name = source[i].name
          /\ todo[i].args = source[i].args /\ todo[i].due /\ DOMAIN todo[i] = DOMAIN source[i]
      BY <2>1, <2>3, <2>5 DEF Due, IsGate
    <3> QED BY <2>1, <2>2, <2>5, <3>1 DEF Supported, Shaped, HasFields, WellFormed, Decomposable, HasMatrix, IsGate
  <2> QED BY <2>4, <2>5
<1>5. AllPass(done)
  BY DEF Init, AllPass, IsList
<1> QED BY <1>3, <1>4, <1>5 DEF DecomposeInv, AllSupported, Init

(* The first gate of a supported program, and the gates behind it.         *)
LEMMA FirstAndRest ==
  ASSUME AllSupported(todo), todo # <<>>
  PROVE  Supported(Head(todo)) /\ AllSupported(Tail(todo))
  BY ListShrinks DEF AllSupported

(* A gate that passes is left behind.                                      *)
LEMMA OneMorePasses ==
  ASSUME AllPass(done), NEW g, Passes(g)
  PROVE  AllPass(Append(done, g))
  BY ListGrows DEF AllPass

(* Every step of decomposition keeps them.                                 *)
LEMMA DecomposeStep ==
  ASSUME SourceIsWellFormed, AllSupported(todo), AllPass(done),
         Settle \/ KeepGate \/ DecomposeGate, pass = "decompose"
  PROVE  AllSupported(todo') /\ AllPass(done')
<1>0. todo # <<>>
  BY DEF Settle, KeepGate, DecomposeGate, Working
<1>1. Supported(Head(todo)) /\ AllSupported(Tail(todo))
  BY <1>0, FirstAndRest
<1>2. CASE Settle
  <2>1. Passes(Head(todo))
    BY <1>1, <1>2 DEF Settle, Supported
  <2> QED BY <1>1, <1>2, <2>1, OneMorePasses DEF Settle
<1>3. CASE KeepGate
  <2> DEFINE g == Head(todo)
             kept == [g EXCEPT !.due = FALSE]
  <2>1. WellFormed(g) /\ DOMAIN g = {"name", "wires", "args", "due", "parts"}
    BY <1>1, <1>3 DEF KeepGate, Supported, Shaped, HasFields
  <2>2. g.name \in gate_set /\ g.name \notin gate_to_decompose
    BY <1>3 DEF KeepGate
  <2>3. ~ Decomposable(g) /\ g.name # "mz"
    BY <2>2 DEF Decomposable, gate_to_decompose, gate_set
  <2>4. HasMatrix(g)
    BY <2>1, <2>3 DEF WellFormed
  <2> HIDE DEF g
  <2>5. kept.name = g.name /\ kept.args = g.args /\ kept.wires = g.wires
    BY <2>1
  <2>6. Passes(kept)
    BY <2>4, <2>5 DEF HasMatrix, Passes
  <2>7. done' = Append(done, kept) /\ todo' = Tail(todo)
    BY <1>3 DEF KeepGate, g
  <2> HIDE DEF kept
  <2> QED BY <1>1, <2>6, <2>7, OneMorePasses
<1>4. CASE DecomposeGate
  <2> DEFINE g    == Head(todo)
             rest == ReplaceUses(g, Tail(todo))
  <2>1. Decomposable(g) /\ todo' = Decompose(g) \o rest /\ done' = done
    BY <1>4 DEF DecomposeGate
  <2>2. AllSupported(Decompose(g))
    BY <1>1, <2>1, DecomposeIsSupported DEF Supported, Shaped
  <2>3. AllSupported(rest)
    BY <1>1, RenamedIsSupported
  <2> HIDE DEF g, rest
  <2>4. AllSupported(Decompose(g) \o rest)
    BY <2>2, <2>3, ListsJoin DEF AllSupported
  <2> QED BY <2>1, <2>4
<1> QED BY <1>2, <1>3, <1>4

(* A stage for a device goes on to itself, or fails.                       *)
LEMMA DeviceStepLeaves ==
  DeviceStep => \/ /\ UNCHANGED <<source, options>>
                   /\ pass' \in {"MergeU3", "TurnToPhasedx", "Sabre", "DecomposeSwaps", "Emit"}
                \/ UNCHANGED <<source, options, pass, done, todo>>
<1>1. ASSUME NEW stage, NEW gates, Leaves(stage, gates)
      PROVE  pass' = stage /\ UNCHANGED <<source, options>>
  BY <1>1 DEF Leaves
<1>2. ASSUME NEW how, Fails(how) PROVE UNCHANGED <<source, options, pass, done, todo>>
  BY <1>2 DEF Fails
<1>3. MergeU3 \/ TurnToPhasedx => UNCHANGED <<source, options>> /\ pass' \in {"MergeU3", "TurnToPhasedx"}
  BY <1>1 DEF MergeU3, TurnToPhasedx
<1>4. Sabre => UNCHANGED <<source, options>> /\ pass' = "Sabre"
  BY <1>1 DEF Sabre
<1>5. DecomposeSwaps \/ Emit => UNCHANGED <<source, options>> /\ pass' \in {"DecomposeSwaps", "Emit"}
  BY <1>1 DEF DecomposeSwaps, Emit
<1>6. MergeU3Crashes \/ DecomposeSwapsFails => UNCHANGED <<source, options, pass, done, todo>>
  BY <1>2 DEF MergeU3Crashes, DecomposeSwapsFails
<1> QED BY <1>3, <1>4, <1>5, <1>6 DEF DeviceStep

(* An optimiser stays in its pass.                                         *)
LEMMA OptimiseStays ==
  Optimise => UNCHANGED <<source, options, pass, done>> /\ pass = "optimise"
  BY DEF Optimise, RunRemoveIdentityEquivalent, RunSingleQubitIdentityPairRemoval,
         RunCNOTIdentityPairRemoval, RunDuplicateResetRemoval, RunRemoveDiagonal,
         RunCommutativeCancellation, RunConsolidateBlocks, RunSingleQubitGateMerging,
         Optimising, Becomes, BecomesOrCrashes

(* Every step of the compiler keeps what decomposition promises.           *)
LEMMA NextDecompose == DecomposeInv /\ [ENext]_allVars => DecomposeInv'
<1> SUFFICES ASSUME DecomposeInv, [ENext]_allVars, SourceIsWellFormed' PROVE DecomposeInv'
  BY DEF DecomposeInv
<1>0. UNCHANGED source /\ SourceIsWellFormed
  <2>1. UNCHANGED source
    BY DeviceStepLeaves, OptimiseStays
       DEF ENext, DNext, PNext, Next, Settle, KeepGate, DecomposeGate, RejectGate, EndDecompose,
           EndCheck, FailCheck, TranslateGate, AssertFails, EndTranslate, StartTranslate,
           EndOptimise, allVars, vars
  <2> QED BY <2>1 DEF SourceIsWellFormed
<1>1. CASE Settle \/ KeepGate \/ DecomposeGate
  <2>1. UNCHANGED pass /\ (pass # "check")
    BY <1>1 DEF Settle, KeepGate, DecomposeGate
  <2>2. CASE pass = "decompose"
    BY <1>0, <1>1, <2>1, <2>2, DecomposeStep DEF DecomposeInv
  <2> QED BY <2>1, <2>2 DEF DecomposeInv
<1>2. CASE EndDecompose
  BY <1>0, <1>2 DEF DecomposeInv, EndDecompose
<1>3. CASE RejectGate \/ FailCheck \/ AssertFails \/ TranslateGate \/ UNCHANGED vars
  <2>1. UNCHANGED pass /\ (pass = "translate" \/ UNCHANGED <<todo, done>>)
    BY <1>3 DEF RejectGate, FailCheck, AssertFails, TranslateGate, vars
  <2> QED BY <1>0, <2>1 DEF DecomposeInv
<1>4. CASE EndCheck \/ EndTranslate \/ StartTranslate \/ EndOptimise \/ Optimise
  <2>1. pass' \notin {"decompose", "check"}
    BY <1>4, OptimiseStays DEF EndCheck, EndTranslate, StartTranslate, EndOptimise
  <2> QED BY <2>1 DEF DecomposeInv
<1>5. CASE DeviceStep
  <2>1. pass' \notin {"decompose", "check"} \/ UNCHANGED <<pass, done, todo>>
    BY <1>5, DeviceStepLeaves
  <2> QED BY <1>0, <2>1 DEF DecomposeInv
<1> QED BY <1>1, <1>2, <1>3, <1>4, <1>5 DEF ENext, DNext, PNext, Next, allVars

(* DecomposemultiPass leaves nothing that Check_gate refuses: no gate a    *)
(* rule writes and no walk visits is one without a matrix, for every       *)
(* program of well-formed gates.                                           *)
THEOREM NothingUnsupportedIsLeft == ESpec => []DecomposedIsSupported
<1>1. EInit => DecomposeInv
  BY InitDecompose DEF EInit
<1>2. DecomposeInv /\ [ENext]_allVars => DecomposeInv'
  BY NextDecompose
<1>3. DecomposeInv => DecomposedIsSupported
  BY DEF DecomposeInv, DecomposedIsSupported, AllPass, IsList
<1> QED BY <1>1, <1>2, <1>3, PTL DEF ESpec

-----------------------------------------------------------------------------
(* What translation keeps of each gate: one it still rewrites is of the    *)
(* gate set and no cy, all others are in the basis.                        *)
Bound(B, g) ==
  HasFields(g) /\ IF g.due THEN g.name \in gate_set \ (B \cup {"cy"}) ELSE g.name \in B \cup {"mz"}
AllBound(B, gates) == IsList(gates) /\ \A i \in 1 .. Len(gates) : Bound(B, gates[i])
AllNative(B, gates) ==
  /\ IsList(gates)
  /\ \A i \in 1 .. Len(gates) : HasFields(gates[i]) /\ gates[i].name \in B \cup {"mz"}

(* A gate of the basis is left; another one of the gate set is rewritten.  *)
LEMMA InOrRewritten ==
  ASSUME NEW B, NEW n \in gate_set \ {"cy"}, NEW w, NEW t
  PROVE  /\ Bound(B, UnlessIn(B, Gate(n, w, t)))
         /\ n \in B => Bound(B, Gate(n, w, t))
  BY DEF Bound, HasFields, UnlessIn, Gate, Due

(* The gates every universal basis has, and those that rules ask about.    *)
LEMMA NamedGates ==
  ASSUME NEW B, Universal(B)
  PROVE  \A a, p, q, f, l :
           /\ Bound(B, Rx(a, q)) /\ Bound(B, Ry(a, q)) /\ Bound(B, Rz(a, q)) /\ Bound(B, H(q))
           /\ "cx" \in B => Bound(B, Cx(p, q))
           /\ "cz" \in B => Bound(B, Cz(p, q))
           /\ "x" \in B => Bound(B, X(q))
           /\ "sx" \in B => Bound(B, Sx(q))
           /\ Bound(B, UnlessIn(B, Rx(a, q))) /\ Bound(B, UnlessIn(B, Rz(a, q)))
           /\ Bound(B, UnlessIn(B, H(q))) /\ Bound(B, UnlessIn(B, Cx(p, q)))
           /\ Bound(B, UnlessIn(B, S(q))) /\ Bound(B, UnlessIn(B, Sdg(q)))
           /\ Bound(B, UnlessIn(B, Gate("sx", <<q>>, <<>>)))
<1>1. {"rx", "ry", "rz", "h"} \subseteq B
  BY DEF Universal
<1>2. {"rx", "ry", "rz", "h", "cx", "cz", "x", "sx", "s", "sdg"} \subseteq gate_set \ {"cy"}
  BY DEF gate_set
<1> QED BY <1>1, <1>2, InOrRewritten DEF Rx, Ry, Rz, H, Cx, Cz, X, Sx, S, Sdg

(* Bound programs one behind the other.                                    *)
LEMMA BoundJoin ==
  ASSUME NEW B, NEW s, NEW t, AllBound(B, s), AllBound(B, t)
  PROVE  AllBound(B, s \o t)
  BY ListsJoin DEF AllBound

(* A rotation of the basis, or none; a sequence of Euler rotations.        *)
LEMMA TurnIsBound ==
  ASSUME NEW B, NEW k \in B
  PROVE  /\ \A x, q : AllBound(B, Turn(k, x, q))
         /\ \A q, t : AllBound(B, <<Gate(k, <<q>>, t)>>)
<1>1. \A q, t : AllBound(B, <<Gate(k, <<q>>, t)>>)
  BY DEF AllBound, IsList, Bound, HasFields, Gate
<1>2. AllBound(B, <<>>)
  BY DEF AllBound, IsList
<1> QED BY <1>1, <1>2 DEF Turn

(* The two rotations about z with one about x or y between them.           *)
LEMMA KakIsBound ==
  ASSUME NEW B, NEW k \in B, NEW a \in B
  PROVE  \A p, q : AllBound(B, circuit_kak(k, a, p, q))
<1> TAKE p, q
<1>1. \A x : AllBound(B, Turn(k, x, q))
  BY TurnIsBound
<1>2. \A t : AllBound(B, <<Gate(a, <<q>>, t)>>)
  BY TurnIsBound
<1>3. \A x, y, t : AllBound(B, Turn(k, x, q) \o <<Gate(a, <<q>>, t)>> \o Turn(k, y, q))
  BY <1>1, <1>2, BoundJoin
<1> QED BY <1>1, <1>3 DEF circuit_kak

(* The sequence of rotations about z with sx or x between them.            *)
LEMMA PsxIsBound ==
  ASSUME NEW B, "rz" \in B, "sx" \in B, NEW withX, withX => "x" \in B
  PROVE  \A p, q : AllBound(B, circuit_psx_gen(withX, p, q))
<1> TAKE p, q
<1>1. \A x : AllBound(B, Turn("rz", x, q))
  BY TurnIsBound
<1>2. AllBound(B, <<Sx(q)>>) /\ (withX => AllBound(B, <<X(q)>>))
  BY TurnIsBound DEF Sx, X
<1>3. \A x : AllBound(B, <<Sx(q)>> \o Turn("rz", x, q) \o <<Sx(q)>>)
  BY <1>1, <1>2, BoundJoin
<1>4. \A x, y, m : AllBound(B, m) => AllBound(B, Turn("rz", x, q) \o m \o Turn("rz", y, q))
  BY <1>1, BoundJoin
<1> QED BY <1>1, <1>2, <1>3, <1>4 DEF circuit_psx_gen

(* A named sequence is written with the gates it is offered for.           *)
LEMMA NamedSequence ==
  ASSUME NEW B, Universal(B), NEW name,
         name \in {"ZSX", "ZSXX"} => "sx" \in B, name = "ZSXX" => "x" \in B,
         NEW t, NEW f, NEW l, NEW q, NEW gates \in decompose_unitary_to_basis(name, t, f, l, q)
  PROVE  AllBound(B, gates)
<1>1. "rx" \in B /\ "ry" \in B /\ "rz" \in B
  BY DEF Universal
<1>2. \A p : /\ AllBound(B, circuit_kak("rz", "ry", p, q)) /\ AllBound(B, circuit_kak("rz", "rx", p, q))
             /\ AllBound(B, circuit_kak("rx", "rz", p, q)) /\ AllBound(B, circuit_kak("rx", "ry", p, q))
  BY <1>1, KakIsBound
<1>3. name = "ZSX" => \A p : AllBound(B, circuit_psx_gen(FALSE, p, q))
  BY <1>1, PsxIsBound
<1>4. name = "ZSXX" => \A p : AllBound(B, circuit_psx_gen(TRUE, p, q))
  BY <1>1, PsxIsBound
<1>5. AllBound(B, <<Rx(-(Pi \div 2), q), Ry(l, q), Rx(Pi \div 2, q), Ry(t, q),
                    Rx(-(Pi \div 2), q), Ry(f, q), Rx(Pi \div 2, q)>>)
  <2>1. \A a, b, c, d, e :
          Bound(B, a) /\ Bound(B, b) /\ Bound(B, c) /\ Bound(B, d) /\ Bound(B, e) =>
          AllBound(B, <<a, b, c, d, a, e, c>>)
    BY DEF AllBound, IsList
  <2> QED BY <2>1, NamedGates
<1> QED BY <1>2, <1>3, <1>4, <1>5 DEF decompose_unitary_to_basis

(* The sequences that are offered.                                         *)
LEMMA OfferedNames ==
  ASSUME NEW B, Universal(B), NEW i \in DOMAIN EulerNames(B)
  PROVE  /\ EulerNames(B)[i] \in {"ZSX", "ZSXX"} => "sx" \in B
         /\ EulerNames(B)[i] = "ZSXX" => "x" \in B
<1> DEFINE offer(need, names) == IF need \subseteq B THEN names ELSE <<>>
           Fits(s) == /\ IsList(s)
                      /\ \A k \in 1 .. Len(s) : /\ s[k] \in {"ZSX", "ZSXX"} => "sx" \in B
                                                /\ s[k] = "ZSXX" => "x" \in B
<1>1. Fits(offer({"rz", "ry"}, <<"ZYZ">>)) /\ Fits(offer({"rx", "ry"}, <<"XYX">>))
  BY DEF IsList
<1>2. Fits(offer({"rz", "rx"}, <<"ZXZ", "XZX">>))
  BY DEF IsList
<1>3. Fits(offer({"sx", "x"}, <<"ZSXX">>)) /\ Fits(offer({"rz", "sx"}, <<"ZSX">>))
  BY DEF IsList
<1>4. \A s, u : Fits(s) /\ Fits(u) => Fits(s \o u)
  BY ListsJoin
<1>5. EulerNames(B) = offer({"rz", "ry"}, <<"ZYZ">>) \o offer({"rx", "ry"}, <<"XYX">>)
                      \o offer({"rz", "rx"}, <<"ZXZ", "XZX">>) \o offer({"sx", "x"}, <<"ZSXX">>)
                      \o offer({"rz", "sx"}, <<"ZSX">>)
  BY DEF EulerNames
<1> HIDE DEF offer, Fits
<1>6. Fits(EulerNames(B))
  BY <1>1, <1>2, <1>3, <1>4, <1>5
<1> QED BY <1>6 DEF Fits, IsList

(* u3 is written with gates of the basis, whichever sequence is shortest.  *)
LEMMA U3IsBound ==
  ASSUME NEW B, Universal(B), NEW t, NEW f, NEW l, NEW q, NEW gates \in trans_u3(B, t, f, l, q)
  PROVE  AllBound(B, gates)
<1> DEFINE names  == EulerNames(B)
           offers == Offers(names, t, f, l, q)
<1>1. gates \in Shortest(offers)
  BY DEF trans_u3, least_cost_basis
<1>2. PICK o \in offers : gates = o[2]
  BY <1>1 DEF Shortest
<1>3. PICK i \in DOMAIN names : o \in {i} \X decompose_unitary_to_basis(names[i], t, f, l, q)
  BY <1>2 DEF Offers
<1>4. gates \in decompose_unitary_to_basis(names[i], t, f, l, q)
  BY <1>2, <1>3
<1> QED BY <1>3, <1>4, OfferedNames, NamedSequence

(* The first rule is the one, where the basis has what it asks for.        *)
LEMMA FirstRuleFits ==
  ASSUME NEW B, NEW rules, IsList(rules), Len(rules) >= 1, rules[1].need \subseteq B
  PROVE  FirstRule(B, rules) = {rules[1].gives}
<1>1. DOMAIN rules = 1 .. Len(rules) /\ 1 \in DOMAIN rules
  BY DEF IsList
<1>2. \A i \in DOMAIN rules : 1 <= i
  BY <1>1
<1>3. \A i \in DOMAIN rules : i <= 1 => i = 1
  BY <1>1
<1> QED BY <1>1, <1>2, <1>3 DEF FirstRule

(* What the rules write for x, y and z.                                    *)
LEMMA OneWireTranslations ==
  ASSUME NEW B, Universal(B), NEW q
  PROVE  /\ trans_x(B, q) = {x_to_rx(q)} /\ AllBound(B, x_to_rx(q))
         /\ trans_y(B, q) = {y_to_ry(q)} /\ AllBound(B, y_to_ry(q))
         /\ trans_z(B, q) = {z_to_rz(q)} /\ AllBound(B, z_to_rz(q))
<1>1. "rx" \in B /\ "ry" \in B /\ "rz" \in B
  BY DEF Universal
<1>2. \A x : Bound(B, x) => AllBound(B, <<x>>)
  BY DEF AllBound, IsList
<1>3. AllBound(B, x_to_rx(q)) /\ AllBound(B, y_to_ry(q)) /\ AllBound(B, z_to_rz(q))
  BY <1>2, NamedGates DEF x_to_rx, y_to_ry, z_to_rz
<1>4. ASSUME NEW x, NEW y, NEW z, x.need \subseteq B
      PROVE  FirstRule(B, <<x, y, z>>) = {x.gives}
  <2>1. IsList(<<x, y, z>>)
    BY ShortLists
  <2>2. Len(<<x, y, z>>) >= 1 /\ <<x, y, z>>[1] = x
    OBVIOUS
  <2> QED BY <1>4, <2>1, <2>2, FirstRuleFits
<1>5. trans_x(B, q) = {x_to_rx(q)}
  <2>1. Rule({"rx"}, x_to_rx(q)).need \subseteq B /\ Rule({"rx"}, x_to_rx(q)).gives = x_to_rx(q)
    BY <1>1 DEF Rule
  <2> QED BY <1>4, <2>1 DEF trans_x
<1>6. trans_y(B, q) = {y_to_ry(q)}
  <2>1. Rule({"ry"}, y_to_ry(q)).need \subseteq B /\ Rule({"ry"}, y_to_ry(q)).gives = y_to_ry(q)
    BY <1>1 DEF Rule
  <2> QED BY <1>4, <2>1 DEF trans_y
<1>7. trans_z(B, q) = {z_to_rz(q)}
  <2>1. Rule({"rz"}, z_to_rz(q)).need \subseteq B /\ Rule({"rz"}, z_to_rz(q)).gives = z_to_rz(q)
    BY <1>1 DEF Rule
  <2> QED BY <1>4, <2>1 DEF trans_z
<1> QED BY <1>3, <1>5, <1>6, <1>7

(* What they write for gates of two wires.                                 *)
LEMMA TwoWireTranslations ==
  ASSUME NEW B, Universal(B), NEW l, NEW a, NEW b, NEW gates
  PROVE  /\ gates \in trans_cx(B, a, b) /\ "cx" \notin B => AllBound(B, gates)
         /\ gates \in trans_cz(B, a, b) /\ "cz" \notin B => AllBound(B, gates)
         /\ gates \in trans_cy(B, a, b) => AllBound(B, gates)
         /\ gates \in trans_swap(B, a, b) => AllBound(B, gates)
         /\ AllBound(B, trans_cp(B, l, a, b))
<1>1. "cx" \in B \/ "cz" \in B
  BY DEF Universal
<1>2. \A x, y, z : Bound(B, x) /\ Bound(B, y) /\ Bound(B, z) => AllBound(B, <<x, y, z>>)
  BY DEF AllBound, IsList
<1>3. gates \in trans_cx(B, a, b) /\ "cx" \notin B => AllBound(B, gates)
  <2>1. "cz" \in B => AllBound(B, cx_to_h_cz_h(B, a, b))
    BY <1>2, NamedGates DEF cx_to_h_cz_h
  <2>2. "cz" \in B => trans_cx(B, a, b) = {cx_to_h_cz_h(B, a, b)}
    BY DEF trans_cx, FirstRule, Rule
  <2> QED BY <1>1, <2>1, <2>2
<1>4. gates \in trans_cz(B, a, b) /\ "cz" \notin B => AllBound(B, gates)
  BY <1>1, <1>2, NamedGates DEF trans_cz, cz_to_h_cx_h
<1>5. gates \in trans_cy(B, a, b) => AllBound(B, gates)
  BY <1>1, <1>2, NamedGates DEF trans_cy, cy_to_sdg_cx_s
<1>6. gates \in trans_swap(B, a, b) => AllBound(B, gates)
  <2>1. "cx" \in B => AllBound(B, trans_swap_cx(a, b))
    BY <1>2, NamedGates DEF trans_swap_cx
  <2>2. "cz" \in B => AllBound(B, trans_swap_sx_cz(B, a, b))
    <3> DEFINE u == UnlessIn(B, Gate("sx", <<a>>, <<>>))
               v == UnlessIn(B, Gate("sx", <<b>>, <<>>))
               round == <<u, v, Cz(a, b)>>
    <3>1. "cz" \in B => AllBound(B, round)
      BY <1>2, NamedGates
    <3>2. trans_swap_sx_cz(B, a, b) = round \o round \o round
      BY DEF trans_swap_sx_cz
    <3> HIDE DEF round
    <3> QED BY <3>1, <3>2, BoundJoin
  <2>3. \E i \in 1 .. 2 :
          gates \in trans_swap(B, a, b) =>
            \/ "cx" \in B /\ gates = trans_swap_cx(a, b)
            \/ "cz" \in B /\ gates = trans_swap_sx_cz(B, a, b)
    BY DEF trans_swap, FirstRule, Rule
  <2> QED BY <2>1, <2>2, <2>3
<1>7. AllBound(B, trans_cp(B, l, a, b))
  <2>1. \A x, y, z, u, v : Bound(B, x) /\ Bound(B, y) /\ Bound(B, z) /\ Bound(B, u) /\ Bound(B, v) =>
          AllBound(B, <<x, y, z, u, v>>)
    BY DEF AllBound, IsList
  <2> QED BY <2>1, NamedGates DEF trans_cp
<1> QED BY <1>3, <1>4, <1>5, <1>6, <1>7

(* Whatever gate outside the basis the pass rewrites, it writes gates of   *)
(* the basis, or gates it rewrites in turn.                                *)
LEMMA TranslateIsBound ==
  ASSUME NEW B, Universal(B), NEW g, g.name \in gate_set \ B, NEW gates \in Translate(B, g)
  PROVE  AllBound(B, gates)
<1> DEFINE w == g.wires
           t == g.args
<1>1. g.name \notin {"h", "rx", "ry", "rz"}
  BY DEF Universal
<1>2. CASE g.name \in {"x", "y", "z"}
  <2>1. \/ g.name = "x" /\ gates \in trans_x(B, w[1])
        \/ g.name = "y" /\ gates \in trans_y(B, w[1])
        \/ g.name = "z" /\ gates \in trans_z(B, w[1])
    BY <1>2 DEF Translate, PhaseAngle
  <2> QED BY <2>1, OneWireTranslations
<1>3. CASE g.name \in {"cx", "cz", "cy", "cp", "swap"}
  <2>1. \/ g.name = "cx" /\ gates \in trans_cx(B, w[1], w[2])
        \/ g.name = "cz" /\ gates \in trans_cz(B, w[1], w[2])
        \/ g.name = "cy" /\ gates \in trans_cy(B, w[1], w[2])
        \/ g.name = "cp" /\ gates = trans_cp(B, t[1], w[1], w[2])
        \/ g.name = "swap" /\ gates \in trans_swap(B, w[1], w[2])
    BY <1>3 DEF Translate, PhaseAngle
  <2> QED BY <2>1, TwoWireTranslations
<1>4. CASE g.name = "u3"
  BY <1>4, U3IsBound DEF Translate
<1>5. CASE g.name \in {"s", "sdg", "t", "tdg", "p", "sx"}
  <2>1. \A x : Bound(B, x) => AllBound(B, <<x>>)
    BY DEF AllBound, IsList
  <2>2. DOMAIN PhaseAngle = {"s", "sdg", "t", "tdg"}
    BY DEF PhaseAngle
  <2>3. CASE g.name \in DOMAIN PhaseAngle
    <3>1. gates = s_sdg_t_tdg_to_rz(B, g.name, w[1])
      BY <2>2, <2>3 DEF Translate
    <3> QED BY <2>1, <3>1, NamedGates DEF s_sdg_t_tdg_to_rz
  <2>4. CASE g.name = "p"
    BY <2>1, <2>2, <2>4, NamedGates DEF Translate, trans_p
  <2>5. CASE g.name = "sx"
    BY <2>1, <2>2, <2>5, NamedGates DEF Translate, trans_sx
  <2> QED BY <1>5, <2>2, <2>3, <2>4, <2>5
<1> QED BY <1>1, <1>2, <1>3, <1>4, <1>5 DEF gate_set

(* What translation keeps, and what is there at the end.                   *)
TranslateInv ==
  level = 0 /\ Universal(basis) =>
     /\ pass = "translate" => AllBound(basis, todo) /\ AllNative(basis, done)
     /\ pass = "end" => AllNative(basis, done)

(* A program decomposition has done with: no gate waits for a rule.        *)
Settled(g)        == Shaped(g) /\ ~ g.due
AllSettled(gates) == IsList(gates) /\ \A i \in 1 .. Len(gates) : Settled(gates[i])

(* The gates it has not reached, where Check_gate has let all pass.        *)
LEMMA CollectedIsBound ==
  ASSUME NEW gates, AllSettled(gates), \A i \in DOMAIN gates : Passes(gates[i])
  PROVE  AllBound(basis, Collected(gates))
<1> DEFINE new == Collected(gates)
<1>1. Len(gates) \in Nat /\ DOMAIN gates = 1 .. Len(gates)
  BY DEF AllSettled, IsList
<1>2. Len(new) = Len(gates) /\ IsList(new)
  BY <1>1 DEF Collected, IsList
<1>3. ASSUME NEW i \in 1 .. Len(gates) PROVE Bound(basis, new[i])
  <2> DEFINE old == gates[i]
  <2>1. new[i] = [old EXCEPT !.due = old.name \notin basis \cup {"mz", "unitary"}]
    BY <1>1 DEF Collected
  <2>2. /\ DOMAIN old = {"name", "wires", "args", "due", "parts"} /\ Passes(old)
        /\ old.name # "cy"
    BY <1>1 DEF AllSettled, Settled, Shaped, HasFields
  <2> HIDE DEF old
  <2>3. /\ new[i].name = old.name /\ new[i].due = (old.name \notin basis \cup {"mz", "unitary"})
        /\ HasFields(new[i])
    BY <2>1, <2>2 DEF HasFields
  <2>4. old.name \in gate_set \cup {"mz"} /\ "unitary" \notin gate_set
    BY <2>2 DEF Passes, HasMatrix, gate_set
  <2> QED BY <2>2, <2>3, <2>4 DEF Bound
<1> QED BY <1>2, <1>3 DEF AllBound

(* In the first two passes a program is a list of gates, well formed or    *)
(* not.                                                                    *)
ShapeInv ==
  /\ pass = "decompose" => AllShaped(todo) /\ AllSettled(done)
  /\ pass = "check" => AllSettled(todo)

(* A program the front end built is a list of gates on lists of wires.     *)
LEMMA InitShape == Init => ShapeInv
<1> SUFFICES ASSUME Init PROVE ShapeInv
  OBVIOUS
<1>1. IsProgram(source)
  BY JobsAssumption DEF Init
<1>2. IsList(source) /\ DOMAIN source = 1 .. Len(source)
  BY <1>1 DEF IsProgram, IsList
<1>3. Len(todo) = Len(source) /\ IsList(todo)
  BY <1>2 DEF Init, IsList
<1>4. ASSUME NEW i \in 1 .. Len(source) PROVE Shaped(todo[i])
  <2>0. IsGate(source[i])
    BY <1>1, <1>2 DEF IsProgram
  <2>1. DOMAIN source[i] = {"name", "wires", "args", "due", "parts"} /\ IsList(source[i].wires)
    BY <2>0 DEF IsGate, IsList
  <2>2. todo[i] = IF source[i].name = "mz" THEN source[i] ELSE Due(source[i])
    BY <1>2 DEF Init
  <2>3. /\ todo[i].wires = source[i].wires /\ DOMAIN todo[i] = DOMAIN source[i]
        /\ todo[i].due \/ todo[i].name # "cy"
    BY <2>1, <2>2 DEF Due
  <2> QED BY <2>1, <2>3 DEF Shaped, HasFields
<1>5. AllSettled(done)
  BY DEF Init, AllSettled, IsList
<1> QED BY <1>3, <1>4, <1>5 DEF ShapeInv, AllShaped, Init

(* Every step of decomposition keeps the shape.                            *)
LEMMA ShapeStep ==
  ASSUME AllShaped(todo), AllSettled(done), Settle \/ KeepGate \/ DecomposeGate, pass = "decompose"
  PROVE  AllShaped(todo') /\ AllSettled(done')
<1>0. todo # <<>>
  BY DEF Settle, KeepGate, DecomposeGate, Working
<1>1. Shaped(Head(todo)) /\ AllShaped(Tail(todo))
  BY <1>0, ListShrinks DEF AllShaped
<1>2. \A g : Settled(g) => AllSettled(Append(done, g))
  BY ListGrows DEF AllSettled
<1>3. CASE Settle
  BY <1>1, <1>2, <1>3 DEF Settle, Settled
<1>4. CASE KeepGate
  <2> DEFINE g == Head(todo)
             kept == [g EXCEPT !.due = FALSE]
  <2> HIDE DEF g
  <2>0. g.name # "cy"
    BY <1>4 DEF KeepGate, g, gate_to_decompose, OperandCount
  <2>1. Settled(kept)
    BY <1>1, <2>0 DEF Settled, Shaped, HasFields, g
  <2>2. done' = Append(done, kept) /\ todo' = Tail(todo)
    BY <1>4 DEF KeepGate, g
  <2> HIDE DEF kept
  <2> QED BY <1>1, <1>2, <2>1, <2>2
<1>5. CASE DecomposeGate
  <2> DEFINE g    == Head(todo)
             rest == ReplaceUses(g, Tail(todo))
  <2>1. Decomposable(g) /\ todo' = Decompose(g) \o rest /\ done' = done
    BY <1>5 DEF DecomposeGate
  <2>2. AllSupported(Decompose(g))
    BY <1>1, <2>1, DecomposeIsSupported DEF Shaped
  <2>3. AllShaped(Decompose(g))
    BY <2>2 DEF AllSupported, AllShaped, Supported
  <2>4. AllShaped(rest)
    BY <1>1, RenamedGates DEF AllShaped
  <2> HIDE DEF g, rest
  <2>5. AllShaped(Decompose(g) \o rest)
    BY <2>3, <2>4, ListsJoin DEF AllShaped
  <2> QED BY <2>1, <2>5
<1> QED BY <1>3, <1>4, <1>5

(* Every step of the compiler keeps the shape.                             *)
LEMMA NextShape == ShapeInv /\ [ENext]_allVars => ShapeInv'
<1> SUFFICES ASSUME ShapeInv, [ENext]_allVars PROVE ShapeInv'
  OBVIOUS
<1>1. CASE Settle \/ KeepGate \/ DecomposeGate
  <2>1. UNCHANGED pass /\ (pass # "check")
    BY <1>1 DEF Settle, KeepGate, DecomposeGate
  <2>2. CASE pass = "decompose"
    BY <1>1, <2>1, <2>2, ShapeStep DEF ShapeInv
  <2> QED BY <2>1, <2>2 DEF ShapeInv
<1>2. CASE EndDecompose
  BY <1>2 DEF ShapeInv, EndDecompose
<1>3. CASE RejectGate \/ FailCheck \/ AssertFails \/ TranslateGate \/ UNCHANGED vars
  <2>1. UNCHANGED pass /\ (pass = "translate" \/ UNCHANGED <<todo, done>>)
    BY <1>3 DEF RejectGate, FailCheck, AssertFails, TranslateGate, vars
  <2> QED BY <2>1 DEF ShapeInv, AllShaped, AllSettled
<1>4. CASE EndCheck \/ EndTranslate \/ StartTranslate \/ EndOptimise \/ Optimise
  <2>1. pass' \notin {"decompose", "check"}
    BY <1>4, OptimiseStays DEF EndCheck, EndTranslate, StartTranslate, EndOptimise
  <2> QED BY <2>1 DEF ShapeInv
<1>5. CASE DeviceStep
  <2>1. pass' \notin {"decompose", "check"} \/ UNCHANGED <<pass, done, todo>>
    BY <1>5, DeviceStepLeaves
  <2> QED BY <2>1 DEF ShapeInv, AllShaped, AllSettled
<1> QED BY <1>1, <1>2, <1>3, <1>4, <1>5 DEF ENext, DNext, PNext, Next, allVars

(* The options stay what they were.                                        *)
LEMMA OptionsAreKept == [ENext]_allVars => UNCHANGED options
  BY DeviceStepLeaves, OptimiseStays
     DEF ENext, DNext, PNext, Next, Settle, KeepGate, DecomposeGate, RejectGate, EndDecompose,
         EndCheck, FailCheck, TranslateGate, AssertFails, EndTranslate, StartTranslate,
         EndOptimise, allVars, vars

(* A step of translation.                                                  *)
LEMMA TranslateStep ==
  ASSUME Universal(basis), AllBound(basis, todo), AllNative(basis, done),
         Settle \/ TranslateGate, pass = "translate"
  PROVE  AllBound(basis, todo') /\ AllNative(basis, done')
<1>0. todo # <<>>
  BY DEF Settle, TranslateGate, Working
<1>1. Bound(basis, Head(todo)) /\ AllBound(basis, Tail(todo))
  BY <1>0, ListShrinks DEF AllBound
<1>2. CASE Settle
  <2>1. /\ Head(todo).name \in basis \cup {"mz"} /\ HasFields(Head(todo))
        /\ done' = Append(done, Head(todo))
    BY <1>1, <1>2 DEF Settle, Bound
  <2> QED BY <1>1, <1>2, <2>1, ListGrows DEF Settle, AllNative
<1>3. CASE TranslateGate
  <2>1. PICK gates \in Translate(basis, Head(todo)) : todo' = gates \o Tail(todo)
    BY <1>3 DEF TranslateGate
  <2>2. AllBound(basis, gates)
    <3>1. Head(todo).name \in gate_set \ basis
      BY <1>1, <1>3 DEF TranslateGate, Bound
    <3> QED BY <3>1, TranslateIsBound
  <2> QED BY <1>1, <1>3, <2>1, <2>2, BoundJoin DEF TranslateGate
<1> QED BY <1>2, <1>3

(* The optimisers run where the compiler is asked for them only.           *)
UnoptimisedInv == level = 0 => /\ pass # "optimise"
                               /\ basis = {} => pass # "translate"

(* Every step of the compiler keeps that.                                  *)
LEMMA NextUnoptimised == UnoptimisedInv /\ [ENext]_allVars => UnoptimisedInv'
<1> SUFFICES ASSUME UnoptimisedInv, [ENext]_allVars, level' = 0
             PROVE  pass' # "optimise" /\ (basis' = {} => pass' # "translate")
  BY DEF UnoptimisedInv
<1>0. level = 0 /\ basis' = basis /\ pass # "optimise" /\ (basis = {} => pass # "translate")
  BY OptionsAreKept DEF level, basis, UnoptimisedInv
<1>1. CASE Settle \/ KeepGate \/ DecomposeGate \/ RejectGate \/ FailCheck \/ TranslateGate \/ AssertFails
  BY <1>0, <1>1
     DEF Settle, KeepGate, DecomposeGate, RejectGate, FailCheck, TranslateGate, AssertFails
<1>2. CASE EndDecompose \/ EndCheck \/ EndTranslate
  BY <1>0, <1>2 DEF EndDecompose, EndCheck, EndTranslate
<1>3. CASE Optimise \/ StartTranslate \/ EndOptimise \/ UNCHANGED vars
  BY <1>0, <1>3, OptimiseStays DEF StartTranslate, EndOptimise, Optimising, vars
<1>4. CASE DeviceStep
  BY <1>0, <1>4, DeviceStepLeaves
<1> QED BY <1>1, <1>2, <1>3, <1>4 DEF ENext, DNext, PNext, Next, allVars

(* Every step of the compiler keeps what translation promises.             *)
LEMMA NextTranslate ==
  ShapeInv /\ UnoptimisedInv /\ TranslateInv /\ [ENext]_allVars => TranslateInv'
<1> SUFFICES ASSUME ShapeInv, UnoptimisedInv, TranslateInv, [ENext]_allVars,
                    level' = 0, Universal(basis')
             PROVE  /\ pass' = "translate" => AllBound(basis', todo') /\ AllNative(basis', done')
                    /\ pass' = "end" => AllNative(basis', done')
  BY DEF TranslateInv
<1>0. UNCHANGED <<options, level, basis>>
  BY OptionsAreKept DEF level, basis
<1>1. CASE Settle \/ TranslateGate
  <2>1. UNCHANGED pass /\ pass # "end"
    BY <1>1 DEF Settle, TranslateGate
  <2>2. CASE pass = "translate"
    BY <1>0, <1>1, <2>1, <2>2, TranslateStep DEF TranslateInv
  <2> QED BY <2>1, <2>2
<1>2. CASE KeepGate \/ DecomposeGate \/ EndDecompose
  <2>1. pass' \notin {"translate", "end"}
    BY <1>2 DEF KeepGate, DecomposeGate, EndDecompose
  <2> QED BY <2>1
<1>3. CASE RejectGate \/ FailCheck \/ AssertFails \/ UNCHANGED vars
  <2>1. UNCHANGED <<pass, todo, done>>
    BY <1>3 DEF RejectGate, FailCheck, AssertFails, vars
  <2> QED BY <1>0, <2>1 DEF TranslateInv
<1>4. CASE EndCheck
  <2>1. basis # {}
    BY <1>0 DEF Universal
  <2>2. pass' = "translate" /\ todo' = Collected(todo) /\ done' = <<>>
    BY <1>4, <2>1 DEF EndCheck
  <2>3. AllSettled(todo) /\ \A i \in DOMAIN todo : Passes(todo[i])
    BY <1>4 DEF EndCheck, ShapeInv
  <2>4. AllBound(basis, todo')
    BY <2>2, <2>3, CollectedIsBound
  <2>5. AllNative(basis, done')
    BY <2>2 DEF AllNative, IsList
  <2> QED BY <1>0, <2>2, <2>4, <2>5
<1>5. CASE EndTranslate
  BY <1>0, <1>5 DEF EndTranslate, TranslateInv
<1>6. CASE StartTranslate \/ EndOptimise \/ Optimise
  <2>1. pass = "optimise"
    BY <1>6, OptimiseStays DEF StartTranslate, EndOptimise, Optimising
  <2> QED BY <1>0, <2>1 DEF UnoptimisedInv
<1>7. CASE DeviceStep
  <2>1. pass' \notin {"translate", "end"} \/ UNCHANGED <<pass, done, todo>>
    BY <1>7, DeviceStepLeaves
  <2> QED BY <1>0, <2>1 DEF TranslateInv
<1> QED BY <1>1, <1>2, <1>3, <1>4, <1>5, <1>6, <1>7 DEF ENext, DNext, PNext, Next, allVars

(* Translation leaves nothing but gates of the basis and measurements,     *)
(* whatever the program, where the compiler is not asked to optimise and   *)
(* the basis has what the universal ones have (the first conjunct of       *)
(* CompiledIsNative): no rule of TransBasicGate writes a gate outside the  *)
(* basis that no rule rewrites after it, and no sequence for u3 is offered *)
(* whose gates the basis lacks.                                            *)
THEOREM TranslatedProgramsAreNative == ESpec => []TranslatedIsNative
<1>1. EInit => ShapeInv /\ UnoptimisedInv /\ TranslateInv
  BY InitShape DEF EInit, Init, UnoptimisedInv, TranslateInv
<1>2. /\ ShapeInv /\ UnoptimisedInv /\ TranslateInv
      /\ [ENext]_allVars
      => (ShapeInv /\ UnoptimisedInv /\ TranslateInv)'
  BY NextShape, NextUnoptimised, NextTranslate
<1>3. ShapeInv /\ TranslateInv => TranslatedIsNative
  <2> SUFFICES ASSUME TranslateInv, pass = "end", level = 0, Universal(basis)
               PROVE  Native(basis)
    BY DEF TranslatedIsNative
  <2>1. AllNative(basis, done)
    BY DEF TranslateInv
  <2> QED BY <2>1 DEF AllNative, IsList, Native
<1> QED BY <1>1, <1>2, <1>3, PTL DEF ESpec

-----------------------------------------------------------------------------
(* std::arg returns something.                                             *)
LEMMA ArgsExist ==
  ASSUME NEW x, NEW signs, signs # {}
  PROVE  Args(x, signs) # {}
<1> DEFINE turned == {IF s = 1 THEN x ELSE x + Pi : s \in signs}
           wrapped(y) == ((y + Pi) % (2 * Pi)) - Pi
           choices(y) == IF wrapped(y) = -Pi THEN {-Pi, Pi} ELSE {wrapped(y)}
<1>1. PICK s \in signs : TRUE
  OBVIOUS
<1>2. PICK y \in turned : TRUE
  BY <1>1
<1>3. PICK z \in choices(y) : TRUE
  OBVIOUS
<1>4. Args(x, signs) = UNION {choices(v) : v \in turned}
  BY DEF Args
<1> HIDE DEF turned, choices
<1> QED BY <1>2, <1>3, <1>4

(* The rotations of a u3 have angles.                                      *)
LEMMA AnglesExist == \A t, f, l : params_zyz_inner(t, f, l) # {}
<1> TAKE t, f, l
<1>1. \A x : CosSigns(x) # {}
  BY DEF CosSigns
<1>2. CosSigns(t) # {} /\ SinSigns(t) # {}
  BY <1>1 DEF SinSigns
<1>3. PICK ang1 \in Args(f + l, CosSigns(t)) : TRUE
  BY <1>2, ArgsExist
<1>4. PICK ang2 \in Args(f, SinSigns(t)) : TRUE
  BY <1>2, ArgsExist
<1>5. PICK det \in Args(f + l, {1}) : TRUE
  BY ArgsExist
<1> DEFINE turn  == t % (2 * Pi)
           theta == IF turn <= Pi THEN turn ELSE 2 * Pi - turn
           A == Args(f + l, CosSigns(t))
           B == Args(f, SinSigns(t))
           D == Args(f + l, {1})
           angles(x, y, z) == <<theta, x + y - z, x - y>>
<1>6. params_zyz_inner(t, f, l) = {angles(x, y, z) : x \in A, y \in B, z \in D}
  BY DEF params_zyz_inner
<1> HIDE DEF theta, angles, A, B, D
<1>7. \A x \in A, y \in B, z \in D : angles(x, y, z) \in params_zyz_inner(t, f, l)
  BY <1>6
<1> QED BY <1>3, <1>4, <1>5, <1>7 DEF A, B, D

(* A sequence of Euler rotations is a list.                                *)
LEMMA SequencesOfRotations ==
  \A name, t, f, l, q : \A gates \in decompose_unitary_to_basis(name, t, f, l, q) : IsList(gates)
<1> TAKE name, t, f, l, q
<1>1. \A k, x : IsList(Turn(k, x, q))
  BY DEF Turn, IsList
<1>2. \A x : IsList(<<x>>)
  BY ShortLists
<1>3. \A k, a, p : IsList(circuit_kak(k, a, p, q))
  <2>1. \A k, a, x, y, m : IsList(Turn(k, x, q) \o <<Gate(a, <<q>>, <<m>>)>> \o Turn(k, y, q))
    BY <1>1, <1>2, ListsJoin
  <2> QED BY <1>1, <2>1 DEF circuit_kak
<1>4. \A withX, p : IsList(circuit_psx_gen(withX, p, q))
  <2>1. \A x : IsList(<<Sx(q)>> \o Turn("rz", x, q) \o <<Sx(q)>>)
    BY <1>1, <1>2, ListsJoin
  <2>2. \A x, y, m : IsList(m) => IsList(Turn("rz", x, q) \o m \o Turn("rz", y, q))
    BY <1>1, ListsJoin
  <2> QED BY <1>1, <1>2, <2>1, <2>2 DEF circuit_psx_gen
<1>5. IsList(<<Rx(-(Pi \div 2), q), Ry(l, q), Rx(Pi \div 2, q), Ry(t, q),
               Rx(-(Pi \div 2), q), Ry(f, q), Rx(Pi \div 2, q)>>)
  BY DEF IsList
<1> QED BY <1>3, <1>4, <1>5 DEF decompose_unitary_to_basis

(* Of the sequences that are offered, if any are, one is taken: the        *)
(* shortest, of several the one that is offered first.                     *)
LEMMA OneIsShortest ==
  ASSUME NEW offers, offers # {},
         \A o \in offers : o[1] \in Nat /\ Len(o[2]) \in Nat
  PROVE  Shortest(offers) # {}
<1> DEFINE Lengths == {Len(o[2]) : o \in offers}
<1>1. Lengths \in SUBSET Nat /\ Lengths # {}
  OBVIOUS
<1>2. PICK m \in Lengths : \A h \in Lengths : m <= h
  BY <1>1, LeastNatural
<1> DEFINE Places == {o[1] : o \in {r \in offers : Len(r[2]) = m}}
<1>3. Places \in SUBSET Nat /\ Places # {}
  BY <1>2
<1>4. PICK n \in Places : \A h \in Places : n <= h
  BY <1>3, LeastNatural
<1>5. PICK o \in offers : o[1] = n /\ Len(o[2]) = m
  BY <1>4
<1>6. \A r \in offers : \/ Len(r[2]) > Len(o[2])
                        \/ Len(r[2]) = Len(o[2]) /\ r[1] >= o[1]
  <2> TAKE r \in offers
  <2>1. Len(r[2]) \in Lengths /\ Len(r[2]) \in Nat /\ m \in Nat /\ n \in Nat /\ r[1] \in Nat
    BY <1>1, <1>2, <1>3, <1>4
  <2>2. m <= Len(r[2])
    BY <1>2, <2>1
  <2>3. Len(r[2]) = m => n <= r[1]
    BY <1>4
  <2> QED BY <1>5, <2>1, <2>2, <2>3
<1>7. o[2] \in Shortest(offers)
  BY <1>5, <1>6 DEF Shortest
<1> QED BY <1>7

(* A universal basis has a sequence for every u3.                          *)
LEMMA U3IsWritten ==
  ASSUME NEW B, Universal(B), NEW t, NEW f, NEW l, NEW q
  PROVE  trans_u3(B, t, f, l, q) # {}
<1> DEFINE names  == EulerNames(B)
           offers == Offers(names, t, f, l, q)
           offer(need, seq) == IF need \subseteq B THEN seq ELSE <<>>
<1> DEFINE Leads(s) == IsList(s) /\ Len(s) >= 1 /\ s[1] = "ZYZ"
<1>1. Leads(names)
  <2>1. Leads(offer({"rz", "ry"}, <<"ZYZ">>))
    BY DEF Universal, IsList
  <2>2. /\ IsList(offer({"rx", "ry"}, <<"XYX">>)) /\ IsList(offer({"rz", "rx"}, <<"ZXZ", "XZX">>))
        /\ IsList(offer({"sx", "x"}, <<"ZSXX">>)) /\ IsList(offer({"rz", "sx"}, <<"ZSX">>))
    BY DEF IsList
  <2>3. \A r, u : Leads(r) /\ IsList(u) => Leads(r \o u)
    <3> TAKE r, u
    <3> HAVE Leads(r) /\ IsList(u)
    <3>1. PICK A : r \in Seq(A) /\ \A x \in A : \E i \in 1 .. Len(r) : x = r[i]
      BY ListsAreSequences
    <3>2. PICK C : u \in Seq(C) /\ \A x \in C : \E i \in 1 .. Len(u) : x = u[i]
      BY ListsAreSequences
    <3>3. r \in Seq(A \cup C) /\ u \in Seq(A \cup C)
      BY <3>1, <3>2
    <3>4. Len(r \o u) >= 1 /\ (r \o u)[1] = r[1]
      BY <3>3
    <3> QED BY <3>4, ListsJoin
  <2>4. names = offer({"rz", "ry"}, <<"ZYZ">>) \o offer({"rx", "ry"}, <<"XYX">>)
                \o offer({"rz", "rx"}, <<"ZXZ", "XZX">>) \o offer({"sx", "x"}, <<"ZSXX">>)
                \o offer({"rz", "sx"}, <<"ZSX">>)
    BY DEF EulerNames
  <2> HIDE DEF offer, Leads
  <2> QED BY <2>1, <2>2, <2>3, <2>4
<1>2. 1 \in DOMAIN names /\ DOMAIN names \in SUBSET Nat
  BY <1>1 DEF IsList
<1>3. PICK p \in params_zyz_inner(t, f, l) : TRUE
  BY AnglesExist
<1>4. circuit_kak("rz", "ry", p, q) \in decompose_unitary_to_basis("ZYZ", t, f, l, q)
  BY <1>3 DEF decompose_unitary_to_basis
<1>5. <<1, circuit_kak("rz", "ry", p, q)>> \in offers
  <2>1. {1} \X decompose_unitary_to_basis(names[1], t, f, l, q) \subseteq offers
    BY <1>2 DEF Offers
  <2> QED BY <1>1, <1>4, <2>1
<1>6. ASSUME NEW o \in offers PROVE o[1] \in Nat /\ Len(o[2]) \in Nat
  <2>1. PICK i \in DOMAIN names : o \in {i} \X decompose_unitary_to_basis(names[i], t, f, l, q)
    BY DEF Offers
  <2>2. o[1] = i /\ o[2] \in decompose_unitary_to_basis(names[i], t, f, l, q)
    BY <2>1
  <2>3. IsList(o[2])
    BY <2>2, SequencesOfRotations
  <2> QED BY <1>2, <2>2, <2>3 DEF IsList
<1>7. Shortest(offers) # {}
  BY <1>5, <1>6, OneIsShortest
<1> QED BY <1>7 DEF trans_u3, least_cost_basis

(* For every gate of the gate set outside a universal basis, but cy, a     *)
(* rule fits: no assertion is met.                                         *)
LEMMA TranslationExists ==
  ASSUME NEW B, Universal(B), NEW g, g.name \in gate_set \ (B \cup {"cy"})
  PROVE  Translate(B, g) # {}
<1> DEFINE w == g.wires
           t == g.args
<1>1. g.name \notin {"h", "rx", "ry", "rz"} /\ ("cx" \in B \/ "cz" \in B)
  BY DEF Universal
<1>2. CASE g.name \in {"x", "y", "z"}
  <2>1. \/ Translate(B, g) = trans_x(B, w[1])
        \/ Translate(B, g) = trans_y(B, w[1])
        \/ Translate(B, g) = trans_z(B, w[1])
    BY <1>2 DEF Translate, PhaseAngle
  <2> QED BY <2>1, OneWireTranslations
<1>3. CASE g.name = "cx"
  <2>1. "cz" \in B
    BY <1>1, <1>3
  <2>2. trans_cx(B, w[1], w[2]) = {cx_to_h_cz_h(B, w[1], w[2])}
    BY <2>1 DEF trans_cx, FirstRule, Rule
  <2> QED BY <1>3, <2>2 DEF Translate
<1>4. CASE g.name = "cz"
  <2>1. "cx" \in B
    BY <1>1, <1>4
  <2> QED BY <1>4, <2>1 DEF Translate, trans_cz
<1>5. CASE g.name = "swap"
  <2>1. trans_swap(B, w[1], w[2]) # {}
    <3>1. CASE "cx" \in B
      BY <3>1 DEF trans_swap, FirstRule, Rule
    <3>2. CASE "cx" \notin B
      BY <1>1, <3>2 DEF trans_swap, FirstRule, Rule
    <3> QED BY <3>1, <3>2
  <2> QED BY <1>5, <2>1 DEF Translate, PhaseAngle
<1>6. CASE g.name = "u3"
  BY <1>6, U3IsWritten DEF Translate, PhaseAngle
<1>7. CASE g.name \in {"s", "sdg", "t", "tdg", "cp", "p", "sx"}
  BY <1>7 DEF Translate, PhaseAngle
<1> QED BY <1>1, <1>2, <1>3, <1>4, <1>5, <1>6, <1>7 DEF gate_set

-----------------------------------------------------------------------------
(* A list of sequences over one set, one behind the other, is one too.     *)
LEMMA FlattenedSequences ==
  ASSUME NEW s, IsList(s), NEW A, \A k \in 1 .. Len(s) : s[k] \in Seq(A)
  PROVE  FlattenSeq(s) \in Seq(A)
<1> DEFINE n == Len(s)
           Over == Seq(A)
           step == [k \in 1 .. n |-> [x \in Over |-> x \o s[k]]]
           IsF(f) == f = [k \in 1 .. n |-> IF k = 1 THEN s[k] ELSE f[k - 1] \o s[k]]
           F == CHOOSE f : IsF(f)
<1>1. n \in Nat /\ s = [k \in 1 .. n |-> s[k]]
  BY DEF IsList
<1>2. CASE n = 0
  <2>1. s \in Seq(A) /\ FlattenSeq(s) = s
    BY <1>1, <1>2 DEF FlattenSeq
  <2> QED BY <2>1
<1>3. CASE n # 0
  <2>1. step \in [1 .. n -> [Over -> Over]]
    <3>1. \A k \in 1 .. n : \A x \in Over : x \o s[k] \in Over
      OBVIOUS
    <3> HIDE DEF n, Over
    <3> QED BY <3>1
  <2>2. PICK g \in [0 .. n -> Over] : g[0] = <<>> /\ \A k \in 1 .. n : g[k] = step[k][g[k - 1]]
    <3>1. <<>> \in Over
      OBVIOUS
    <3>2. \E g \in [0 .. n -> Over] : Iterates(n, <<>>, step, g)
      <4> HIDE DEF n, Over, step
      <4> QED BY <1>1, <2>1, <3>1, IterationExists, Zenon
    <3> HIDE DEF n, Over, step
    <3> QED BY <3>2 DEF Iterates
  <2>3. \A k \in 1 .. n : g[k] = g[k - 1] \o s[k]
    <3> TAKE k \in 1 .. n
    <3>1. k - 1 \in 0 .. n
      BY <1>1
    <3>2. g[k - 1] \in Over
      BY <3>1, <2>2
    <3>3. step[k][g[k - 1]] = g[k - 1] \o s[k]
      BY <3>2
    <3> QED BY <2>2, <3>3
  <2>4. g[1] = s[1]
    <3>0. 1 \in 1 .. n /\ 1 - 1 = 0
      BY <1>1, <1>3
    <3>1. 1 \in 1 .. n /\ g[1] = g[0] \o s[1]
      BY <2>3, <3>0
    <3>2. s[1] \in Seq(A)
      BY <3>1
    <3> QED BY <2>2, <3>1, <3>2
  <2> DEFINE h == [k \in 1 .. n |-> g[k]]
  <2>5. IsF(h)
    <3>1. ASSUME NEW k \in 1 .. n PROVE h[k] = IF k = 1 THEN s[k] ELSE h[k - 1] \o s[k]
      <4>1. CASE k = 1
        BY <2>4, <4>1
      <4>2. CASE k # 1
        <5>1. k - 1 \in 1 .. n
          BY <1>1, <4>2
        <5> QED BY <2>3, <4>2, <5>1
      <4> QED BY <4>1, <4>2
    <3>2. h = [k \in 1 .. n |-> h[k]]
      OBVIOUS
    <3> HIDE DEF h
    <3> QED BY <3>1, <3>2
  <2>6. IsF(F)
    <3> HIDE DEF IsF, h
    <3> QED BY <2>5, Zenon
  <2> DEFINE Good == {k \in 0 .. n : k = 0 \/ F[k] \in Over}
  <2>7. \A k \in 1 .. n : k - 1 \in Good => k \in Good
    <3> TAKE k \in 1 .. n
    <3> HAVE k - 1 \in Good
    <3>1. F[k] = IF k = 1 THEN s[k] ELSE F[k - 1] \o s[k]
      <4> HIDE DEF F
      <4> QED BY <2>6
    <3>2. k \in 0 .. n
      BY <1>1
    <3>3. k # 1 => F[k - 1] \in Over
      BY <1>1
    <3>4. F[k] \in Over
      <4> HIDE DEF F
      <4> QED BY <3>1, <3>3
    <3> QED BY <3>2, <3>4
  <2>8. \A k \in 0 .. n : k \in Good
    <3>1. 0 \in Good
      BY <1>1
    <3> HIDE DEF Good, n
    <3> QED BY <1>1, <2>7, <3>1, CountingUp, Zenon
  <2>9. F[n] \in Over
    <3>1. n \in 0 .. n
      BY <1>1
    <3> HIDE DEF F
    <3> QED BY <1>3, <2>8, <3>1
  <2>10. FlattenSeq(s) = F[n]
    BY <1>3 DEF FlattenSeq
  <2> HIDE DEF F
  <2> QED BY <2>9, <2>10
<1> QED BY <1>2, <1>3

(* The same for lists: every element comes from one of them.               *)
LEMMA FlattenedLists ==
  ASSUME NEW s, IsList(s), \A k \in 1 .. Len(s) : IsList(s[k])
  PROVE  /\ IsList(FlattenSeq(s))
         /\ \A i \in 1 .. Len(FlattenSeq(s)) :
              \E k \in 1 .. Len(s) : \E j \in 1 .. Len(s[k]) : FlattenSeq(s)[i] = s[k][j]
<1> DEFINE A == UNION {{s[k][j] : j \in 1 .. Len(s[k])} : k \in 1 .. Len(s)}
<1>1. ASSUME NEW k \in 1 .. Len(s) PROVE s[k] \in Seq(A)
  <2> DEFINE x == s[k]
  <2>1. IsList(x) /\ \A j \in 1 .. Len(x) : x[j] \in A
    OBVIOUS
  <2> HIDE DEF x, A
  <2>2. x \in Seq(A)
    BY <2>1 DEF IsList
  <2> QED BY <2>2 DEF x
<1>2. FlattenSeq(s) \in Seq(A)
  <2> HIDE DEF A
  <2> QED BY <1>1, FlattenedSequences
<1>3. \A i \in 1 .. Len(FlattenSeq(s)) : FlattenSeq(s)[i] \in A
  <2> HIDE DEF A
  <2> QED BY <1>2
<1>4. IsList(FlattenSeq(s))
  <2> HIDE DEF A
  <2> QED BY <1>2, SequencesAreLists
<1> QED BY <1>3, <1>4

(* The ways to choose, set by set.                                         *)
LEMMA OneOfEachUnfolds ==
  ASSUME NEW sets, IsList(sets)
  PROVE  \E F : /\ OneOfEach(sets) = F[Len(sets)] /\ F[0] = {<<>>}
                /\ \A k \in 1 .. Len(sets) : F[k] = {Append(c[1], c[2]) : c \in F[k - 1] \X sets[k]}
<1> DEFINE n == Len(sets)
           A == UNION {sets[k] : k \in 1 .. n}
           Over == SUBSET Seq(A)
           More(x, k) == {Append(c[1], c[2]) : c \in x \X sets[k]}
           step == [k \in 1 .. n |-> [x \in Over |-> More(x, k)]]
           IsF(f) == f = [k \in 0 .. n |-> IF k = 0 THEN {<<>>} ELSE More(f[k - 1], k)]
           F == CHOOSE f : IsF(f)
<1>1. n \in Nat
  BY DEF IsList
<1>2. step \in [1 .. n -> [Over -> Over]]
  <2>1. ASSUME NEW k \in 1 .. n, NEW x \in Over PROVE More(x, k) \in Over
    <3>1. \A c \in x \X sets[k] : c[1] \in Seq(A) /\ c[2] \in A
      OBVIOUS
    <3> HIDE DEF A
    <3> QED BY <3>1
  <2> HIDE DEF n, Over, More
  <2> QED BY <2>1
<1>3. PICK g \in [0 .. n -> Over] : g[0] = {<<>>} /\ \A k \in 1 .. n : g[k] = step[k][g[k - 1]]
  <2>1. {<<>>} \in Over
    OBVIOUS
  <2>2. \E g \in [0 .. n -> Over] : Iterates(n, {<<>>}, step, g)
    <3> HIDE DEF n, Over, step
    <3> QED BY <1>1, <1>2, <2>1, IterationExists, Zenon
  <2> HIDE DEF n, Over, step
  <2> QED BY <2>2 DEF Iterates
<1>4. \A k \in 1 .. n : g[k] = More(g[k - 1], k)
  <2> TAKE k \in 1 .. n
  <2>1. k - 1 \in 0 .. n
    BY <1>1
  <2>2. g[k - 1] \in Over
    <3> HIDE DEF Over
    <3> QED BY <2>1, <1>3
  <2> HIDE DEF Over, More
  <2>3. step[k][g[k - 1]] = More(g[k - 1], k)
    BY <2>2
  <2> QED BY <1>3, <2>3
<1>5. IsF(g)
  <2> HIDE DEF Over, More, n
  <2>1. \A k \in 0 .. n : g[k] = IF k = 0 THEN {<<>>} ELSE More(g[k - 1], k)
    <3> TAKE k \in 0 .. n
    <3>1. k = 0 \/ k \in 1 .. n
      BY <1>1
    <3> QED BY <1>3, <1>4, <3>1
  <2>2. g = [k \in 0 .. n |-> g[k]]
    OBVIOUS
  <2> QED BY <2>1, <2>2
<1>6. IsF(F)
  <2> HIDE DEF IsF
  <2> QED BY <1>5, Zenon
<1>7. OneOfEach(sets) = F[n]
  BY DEF OneOfEach
<1>8. F[0] = {<<>>} /\ \A k \in 1 .. n : F[k] = More(F[k - 1], k)
  <2> HIDE DEF F, More, n
  <2>1. 0 \in 0 .. n /\ \A k \in 1 .. n : k \in 0 .. n /\ k # 0
    BY <1>1
  <2> QED BY <1>6, <2>1
<1> HIDE DEF F
<1> QED BY <1>7, <1>8

(* Each is a list with one element of every set; there is one if no set is *)
(* empty.                                                                  *)
LEMMA OneOfEachChooses ==
  ASSUME NEW sets, IsList(sets)
  PROVE  /\ \A s \in OneOfEach(sets) : /\ IsList(s) /\ Len(s) = Len(sets)
                                       /\ \A i \in 1 .. Len(sets) : s[i] \in sets[i]
         /\ (\A i \in 1 .. Len(sets) : sets[i] # {}) => OneOfEach(sets) # {}
<1> DEFINE n == Len(sets)
<1>1. n \in Nat
  BY DEF IsList
<1>2. PICK F : /\ OneOfEach(sets) = F[n] /\ F[0] = {<<>>}
               /\ \A k \in 1 .. n : F[k] = {Append(c[1], c[2]) : c \in F[k - 1] \X sets[k]}
  BY OneOfEachUnfolds
<1> DEFINE Fits(s, k) == IsList(s) /\ Len(s) = k /\ \A i \in 1 .. k : s[i] \in sets[i]
           Good == {k \in 0 .. n : \A s \in F[k] : Fits(s, k)}
           Open == {k \in 0 .. n : F[k] # {}}
<1> HIDE DEF n
<1>3. 0 \in Good /\ 0 \in Open
  <2>1. Fits(<<>>, 0)
    BY DEF IsList
  <2> HIDE DEF Fits
  <2> QED BY <1>1, <1>2, <2>1
<1>4. \A k \in 1 .. n : k - 1 \in Good => k \in Good
  <2> TAKE k \in 1 .. n
  <2> HAVE k - 1 \in Good
  <2>1. k \in 0 .. n
    BY <1>1
  <2>2. ASSUME NEW s \in F[k] PROVE Fits(s, k)
    <3>1. PICK c \in F[k - 1] \X sets[k] : s = Append(c[1], c[2])
      <4>1. s \in {Append(c[1], c[2]) : c \in F[k - 1] \X sets[k]}
        BY <1>2
      <4> QED BY <4>1, Zenon
    <3>2. Fits(c[1], k - 1) /\ c[2] \in sets[k]
      BY <3>1
    <3>3. PICK A : c[1] \in Seq(A)
      BY <3>2, ListsAreSequences
    <3>4. c[1] \in Seq(A \cup {c[2]}) /\ Len(c[1]) = k - 1
      BY <3>2, <3>3
    <3>5. Len(s) = k /\ s[k] = c[2] /\ \A i \in 1 .. k - 1 : s[i] = c[1][i]
      BY <1>1, <3>1, <3>4
    <3>6. IsList(s)
      BY <3>1, <3>2, ListGrows
    <3>7. \A i \in 1 .. k : i = k \/ i \in 1 .. k - 1
      BY <1>1
    <3> QED BY <3>2, <3>5, <3>6, <3>7
  <2> HIDE DEF Fits
  <2> QED BY <2>1, <2>2
<1>5. \A k \in 0 .. n : k \in Good
  <2> HIDE DEF Good
  <2> QED BY <1>1, <1>3, <1>4, CountingUp, Zenon
<1>6. ASSUME \A i \in 1 .. n : sets[i] # {} PROVE F[n] # {}
  <2>1. \A k \in 1 .. n : k - 1 \in Open => k \in Open
    <3> TAKE k \in 1 .. n
    <3> HAVE k - 1 \in Open
    <3>1. PICK s \in F[k - 1] : TRUE
      OBVIOUS
    <3>2. PICK x \in sets[k] : TRUE
      BY <1>6
    <3>3. <<s, x>> \in F[k - 1] \X sets[k]
      BY <3>1, <3>2
    <3>4. Append(<<s, x>>[1], <<s, x>>[2]) \in {Append(c[1], c[2]) : c \in F[k - 1] \X sets[k]}
      BY <3>3, Zenon
    <3>5. F[k] # {}
      BY <1>2, <3>4
    <3> QED BY <1>1, <3>5
  <2>2. \A k \in 0 .. n : k \in Open
    <3> HIDE DEF Open
    <3> QED BY <1>1, <1>3, <2>1, CountingUp, Zenon
  <2> QED BY <1>1, <2>2
<1>7. n \in 0 .. n
  BY <1>1
<1>8. \A s \in F[n] : Fits(s, n)
  BY <1>5, <1>7
<1> QED BY <1>2, <1>6, <1>8 DEF n

(* The runs of one-wire gates are a list, whatever the gates.              *)
LEMMA ForwardRunsAreAList ==
  ASSUME NEW gates, IsList(gates)
  PROVE  IsList(ForwardRuns(gates))
<1> DEFINE n == Len(gates)
           From(i) == Beyond(gates, i, Wire(gates, i), Forward)
           E == UNION {{<<i>> \o UpTo(From(i), ends) : ends \in SUBSET DOMAIN From(i)} : i \in 1 .. n}
           Over == Seq(E)
           Labels(runs) == UNION {ToSet(runs[r]) : r \in DOMAIN runs}
           Next1(runs, i) ==
             IF ~ IsValue(gates[i]) \/ ~ OnOneWire(gates[i]) \/ i \in Labels(runs) THEN runs
             ELSE Append(runs, <<i>> \o find_runs(gates, i, Forward, Labels(runs)))
           step == [k \in 1 .. n |-> [x \in Over |-> Next1(x, k)]]
           IsF(f) == f = [k \in 0 .. n |-> IF k = 0 THEN <<>> ELSE Next1(f[k - 1], k)]
           F == CHOOSE f : IsF(f)
<1>1. n \in Nat
  BY DEF IsList
<1>2. ASSUME NEW k \in 1 .. n, NEW x \in Over PROVE Next1(x, k) \in Over
  <2> DEFINE l == Labels(x)
             run == <<k>> \o find_runs(gates, k, Forward, l)
  <2>1. run \in E
    <3> DEFINE ends == {j \in DOMAIN From(k) : ~ OnOneWire(gates[From(k)[j]]) \/ From(k)[j] \in l}
    <3> HIDE DEF l, n
    <3>1. find_runs(gates, k, Forward, l) = UpTo(From(k), ends)
      BY DEF find_runs, OpenGates, Forward, Backward
    <3>2. ends \in SUBSET DOMAIN From(k)
      OBVIOUS
    <3> HIDE DEF ends, From
    <3>3. run = <<k>> \o UpTo(From(k), ends)
      BY <3>1
    <3>4. run \in {<<k>> \o UpTo(From(k), e) : e \in SUBSET DOMAIN From(k)}
      BY <3>2, <3>3
    <3> QED BY <3>4, Zenon
  <2>2. Next1(x, k) \in {x, Append(x, run)}
    OBVIOUS
  <2> HIDE DEF E, run, Next1
  <2>3. Append(x, run) \in Over
    BY <2>1
  <2> QED BY <2>2, <2>3
<1> HIDE DEF Next1
<1>3. step \in [1 .. n -> [Over -> Over]]
  <2> HIDE DEF n, Over
  <2> QED BY <1>2
<1>4. PICK g \in [0 .. n -> Over] : g[0] = <<>> /\ \A k \in 1 .. n : g[k] = step[k][g[k - 1]]
  <2>1. <<>> \in Over
    <3> HIDE DEF E
    <3> QED OBVIOUS
  <2>2. \E g \in [0 .. n -> Over] : Iterates(n, <<>>, step, g)
    <3> HIDE DEF n, Over, step
    <3> QED BY <1>1, <1>3, <2>1, IterationExists, Zenon
  <2> HIDE DEF n, Over, step
  <2> QED BY <2>2 DEF Iterates
<1>5. \A k \in 1 .. n : g[k] = Next1(g[k - 1], k)
  <2> TAKE k \in 1 .. n
  <2>1. k - 1 \in 0 .. n
    BY <1>1
  <2> HIDE DEF Over
  <2>2. g[k - 1] \in Over
    BY <2>1, <1>4
  <2>3. step[k][g[k - 1]] = Next1(g[k - 1], k)
    BY <2>2
  <2> QED BY <1>4, <2>3
<1>6. IsF(g)
  <2> HIDE DEF Over, n
  <2>1. \A k \in 0 .. n : g[k] = IF k = 0 THEN <<>> ELSE Next1(g[k - 1], k)
    <3> TAKE k \in 0 .. n
    <3>1. k = 0 \/ k \in 1 .. n
      BY <1>1
    <3> QED BY <1>4, <1>5, <3>1
  <2>2. g = [k \in 0 .. n |-> g[k]]
    OBVIOUS
  <2> QED BY <2>1, <2>2
<1>7. IsF(F)
  <2> HIDE DEF IsF
  <2> QED BY <1>6, Zenon
<1>8. ForwardRuns(gates) = F[n]
  BY DEF ForwardRuns, Next1
<1> DEFINE Good == {k \in 0 .. n : F[k] \in Over}
<1>9. \A k \in 0 .. n : k \in Good
  <2> HIDE DEF F, n, Over
  <2>1. F[0] = <<>> /\ \A k \in 1 .. n : F[k] = Next1(F[k - 1], k)
    <3>1. 0 \in 0 .. n /\ \A k \in 1 .. n : k \in 0 .. n /\ k # 0
      BY <1>1
    <3> QED BY <1>7, <3>1
  <2>2. 0 \in Good
    <3>1. <<>> \in Over
      BY <1>4, <1>1
    <3> QED BY <1>1, <2>1, <3>1
  <2>3. \A k \in 1 .. n : k - 1 \in Good => k \in Good
    <3>1. \A k \in 1 .. n : k \in 0 .. n
      BY <1>1
    <3> QED BY <1>2, <2>1, <3>1
  <2> HIDE DEF Good
  <2> QED BY <1>1, <2>2, <2>3, CountingUp, Zenon
<1>10. F[n] \in Over
  <2> HIDE DEF F, Over, n
  <2> QED BY <1>1, <1>9
<1> HIDE DEF F, E
<1> QED BY <1>8, <1>10, SequencesAreLists

(* Programs of gates, and what their gates are called.                     *)
AllWritten(gates) == IsList(gates) /\ \A i \in 1 .. Len(gates) : HasFields(gates[i])
Within(names, gates) == \A i \in 1 .. Len(gates) : gates[i].name \in names

(* The gates of a program whose runs are replaced are its own or written   *)
(* for a run.                                                              *)
LEMMA ReplacedRuns ==
  ASSUME NEW gates, IsList(gates), NEW runs, IsList(runs),
         NEW written, IsList(written), Len(written) = Len(runs),
         \A r \in 1 .. Len(runs) : IsList(written[r])
  PROVE  /\ IsList(Replaced(gates, runs, written))
         /\ \A i \in 1 .. Len(Replaced(gates, runs, written)) :
              \/ \E k \in 1 .. Len(gates) : Replaced(gates, runs, written)[i] = gates[k]
              \/ \E r \in 1 .. Len(runs) : \E j \in 1 .. Len(written[r]) :
                   Replaced(gates, runs, written)[i] = written[r][j]
<1> DEFINE taken == UNION {ToSet(runs[r]) : r \in DOMAIN runs}
           behind(i) == [r \in DOMAIN runs |-> IF Last(runs[r]) = i THEN written[r] ELSE <<>>]
           At(i) == IF i \notin taken THEN <<gates[i]>> ELSE FlattenSeq(behind(i))
           new == [i \in DOMAIN gates |-> At(i)]
           Known(x) == \/ \E k \in 1 .. Len(gates) : x = gates[k]
                       \/ \E r \in 1 .. Len(runs) : \E j \in 1 .. Len(written[r]) : x = written[r][j]
<1>1. /\ DOMAIN runs = 1 .. Len(runs) /\ Len(runs) \in Nat
      /\ DOMAIN gates = 1 .. Len(gates) /\ Len(gates) \in Nat
  BY DEF IsList
<1>2. ASSUME NEW i \in 1 .. Len(gates)
      PROVE  IsList(At(i)) /\ \A j \in 1 .. Len(At(i)) : Known(At(i)[j])
  <2>1. CASE i \notin taken
    <3>1. At(i) = <<gates[i]>> /\ IsList(<<gates[i]>>)
      BY <2>1, ShortLists
    <3>2. Len(<<gates[i]>>) = 1 /\ <<gates[i]>>[1] = gates[i]
      OBVIOUS
    <3> HIDE DEF At
    <3> QED BY <3>1, <3>2
  <2>2. CASE i \in taken
    <3> DEFINE b == behind(i)
    <3>0. IsList(<<>>) /\ Len(<<>>) = 0
      BY DEF IsList
    <3>1. IsList(b) /\ Len(b) = Len(runs)
      BY <1>1 DEF IsList
    <3>2. \A r \in 1 .. Len(runs) : b[r] = written[r] \/ b[r] = <<>>
      BY <1>1
    <3> HIDE DEF b
    <3>3. \A r \in 1 .. Len(b) : IsList(b[r])
      BY <3>0, <3>1, <3>2
    <3>4. /\ IsList(FlattenSeq(b))
          /\ \A m \in 1 .. Len(FlattenSeq(b)) :
               \E r \in 1 .. Len(b) : \E j \in 1 .. Len(b[r]) : FlattenSeq(b)[m] = b[r][j]
      BY <3>1, <3>3, FlattenedLists
    <3>5. \A m \in 1 .. Len(FlattenSeq(b)) : Known(FlattenSeq(b)[m])
      <4> TAKE m \in 1 .. Len(FlattenSeq(b))
      <4>1. PICK r \in 1 .. Len(b) : \E j \in 1 .. Len(b[r]) : FlattenSeq(b)[m] = b[r][j]
        BY <3>4
      <4>2. PICK j \in 1 .. Len(b[r]) : FlattenSeq(b)[m] = b[r][j]
        BY <4>1
      <4>3. b[r] # <<>>
        BY <3>0, <4>2
      <4>4. r \in 1 .. Len(runs) /\ b[r] = written[r]
        BY <3>1, <3>2, <4>3
      <4> QED BY <4>2, <4>4
    <3>6. At(i) = FlattenSeq(b)
      BY <2>2 DEF b
    <3> HIDE DEF At, Known
    <3> QED BY <3>4, <3>5, <3>6
  <2> QED BY <2>1, <2>2
<1>3. Replaced(gates, runs, written) = FlattenSeq(new)
  BY DEF Replaced
<1> HIDE DEF At, Known
<1>4. IsList(new) /\ Len(new) = Len(gates) /\ \A i \in 1 .. Len(gates) : new[i] = At(i)
  BY <1>1 DEF IsList
<1> HIDE DEF new
<1>5. \A i \in 1 .. Len(new) : IsList(new[i])
  BY <1>2, <1>4
<1>6. /\ IsList(FlattenSeq(new))
      /\ \A m \in 1 .. Len(FlattenSeq(new)) :
           \E i \in 1 .. Len(new) : \E j \in 1 .. Len(new[i]) : FlattenSeq(new)[m] = new[i][j]
  BY <1>4, <1>5, FlattenedLists
<1>7. \A m \in 1 .. Len(FlattenSeq(new)) : Known(FlattenSeq(new)[m])
  BY <1>2, <1>4, <1>6
<1> DEFINE R == Replaced(gates, runs, written)
<1>8. R = FlattenSeq(new)
  BY <1>3
<1> HIDE DEF R
<1>9. IsList(R) /\ \A i \in 1 .. Len(R) : Known(R[i])
  BY <1>6, <1>7, <1>8
<1>10. \A x : Known(x) <=> \/ \E k \in 1 .. Len(gates) : x = gates[k]
                         \/ \E r \in 1 .. Len(runs) : \E j \in 1 .. Len(written[r]) : x = written[r][j]
  BY DEF Known
<1> QED BY <1>9, <1>10 DEF R

(* What is written for a run for a trapped-ion device.                     *)
LEMMA PhasedRuns ==
  ASSUME NEW run, NEW gates \in turn_run_to_tk1(run)
  PROVE  AllWritten(gates) /\ Within({"rz", "phasedx", "unitary"}, gates)
<1>1. \A x : HasFields(x) /\ x.name = "unitary" =>
               AllWritten(<<x>>) /\ Within({"rz", "phasedx", "unitary"}, <<x>>)
  BY DEF AllWritten, Within, IsList
<1>2. HasFields(Fused(run)) /\ Fused(run).name = "unitary"
  BY DEF Fused, HasFields, Gate
<1>3. \A a, b, c, q : LET two == trans_TK1_PhasedX(a, b, c, q)
                      IN  AllWritten(two) /\ Within({"rz", "phasedx", "unitary"}, two)
  <2> TAKE a, b, c, q
  <2>1. \A x, y : HasFields(x) /\ x.name = "rz" /\ HasFields(y) /\ y.name = "phasedx" =>
                  AllWritten(<<x, y>>) /\ Within({"rz", "phasedx", "unitary"}, <<x, y>>)
    BY DEF AllWritten, Within, IsList
  <2>2. /\ HasFields(Rz(a + c, q)) /\ Rz(a + c, q).name = "rz"
        /\ HasFields(Phasedx(b, c, q)) /\ Phasedx(b, c, q).name = "phasedx"
    BY DEF Rz, Phasedx, HasFields, Gate
  <2> QED BY <2>1, <2>2 DEF trans_TK1_PhasedX
<1>4. AllWritten(<<>>) /\ Within({"rz", "phasedx", "unitary"}, <<>>)
  BY DEF AllWritten, Within, IsList
<1> DEFINE q == run[1].wires[1]
           exact == AnglesOf(run)
           Written(seq) == IF seq = <<>> THEN <<>>
                           ELSE trans_TK1_PhasedX(TK1(seq)[1], TK1(seq)[2], TK1(seq)[3], q)
           ways(a) == {Written(seq) : seq \in least_cost_basis(<<"ZXZ">>, a[1], a[2], a[3], q)}
<1>5. turn_run_to_tk1(run) = IF exact = {} THEN {<<Fused(run)>>} ELSE UNION {ways(a) : a \in exact}
  BY DEF turn_run_to_tk1
<1>6. \A seq : AllWritten(Written(seq)) /\ Within({"rz", "phasedx", "unitary"}, Written(seq))
  BY <1>3, <1>4
<1> HIDE DEF exact, Written
<1>7. gates = <<Fused(run)>> \/ \E seq : gates = Written(seq)
  <2>1. CASE exact = {}
    BY <1>5, <2>1
  <2>2. CASE exact # {}
    <3>1. PICK a \in exact : gates \in ways(a)
      <4> HIDE DEF ways
      <4> QED BY <1>5, <2>2
    <3> QED BY <3>1
  <2> QED BY <2>1, <2>2
<1> QED BY <1>1, <1>2, <1>6, <1>7

(* The gates for a swap are all of the basis, which has some for it if it  *)
(* has what the universal ones have.                                       *)
LEMMA SwapsAreWritten ==
  ASSUME NEW B, NEW a, NEW b
  PROVE  /\ \A gates \in decomposeswap(B, a, b) : AllWritten(gates) /\ Within(B, gates)
         /\ Universal(B) => decomposeswap(B, a, b) # {}
<1> DEFINE Ok(gates) == AllWritten(gates) /\ Within(B, gates)
<1>1. ASSUME NEW x, HasFields(x), x.name \in B PROVE Ok(<<x>>)
  BY <1>1 DEF AllWritten, Within, IsList
<1>2. \A s, u : Ok(s) /\ Ok(u) => Ok(s \o u)
  BY ListsJoin DEF AllWritten, Within
<1>3. ASSUME "cz" \in B PROVE Ok(<<Cz(a, b)>>) /\ Ok(<<Cz(b, a)>>)
  BY <1>1, <1>3 DEF Cz, Gate, HasFields
<1>4. ASSUME NEW q, NEW gates \in emitHOrDecompose(B, q) PROVE Ok(gates)
  <2> DEFINE rules == <<Rule({"h"}, <<H(q)>>),
                        Rule({"ry", "rz"}, <<Rz(Pi, q), Ry(Quarter, q)>>),
                        Rule({"rx", "rz"}, <<Rz(Quarter, q), Rx(Quarter, q), Rz(Quarter, q)>>),
                        Rule({"u3"}, <<U3(Quarter, 0, Pi, q)>>),
                        Rule({"sx", "rz", "x"}, <<Rz(Pi, q), Sx(q), Rz(Quarter, q), Sx(q), X(q)>>)>>
  <2>1. PICK i \in 1 .. 5 : rules[i].need \subseteq B /\ gates = rules[i].gives
    BY <1>4 DEF emitHOrDecompose, FirstRule
  <2>2. \/ "h" \in B /\ gates = <<H(q)>>
        \/ {"ry", "rz"} \subseteq B /\ gates = <<Rz(Pi, q), Ry(Quarter, q)>>
        \/ {"rx", "rz"} \subseteq B /\ gates = <<Rz(Quarter, q), Rx(Quarter, q), Rz(Quarter, q)>>
        \/ "u3" \in B /\ gates = <<U3(Quarter, 0, Pi, q)>>
        \/ {"sx", "rz", "x"} \subseteq B /\ gates = <<Rz(Pi, q), Sx(q), Rz(Quarter, q), Sx(q), X(q)>>
    BY <2>1 DEF Rule
  <2>3. \A u, v, w, x, y : LET Fit(g) == HasFields(g) /\ g.name \in B
                           IN  /\ Fit(u) /\ Fit(v) => Ok(<<u, v>>)
                               /\ Fit(u) /\ Fit(v) /\ Fit(w) => Ok(<<u, v, w>>)
                               /\ Fit(u) /\ Fit(v) /\ Fit(w) /\ Fit(x) /\ Fit(y) => Ok(<<u, v, w, x, y>>)
    BY DEF AllWritten, Within, IsList
  <2>4. \A n, w, t : n \in B => HasFields(Gate(n, w, t)) /\ Gate(n, w, t).name \in B
    BY DEF HasFields, Gate
  <2> HIDE DEF Ok
  <2> QED BY <1>1, <2>2, <2>3, <2>4 DEF H, Rz, Ry, Rx, U3, Sx, X
<1>5. ASSUME "cz" \in B, NEW gates \in decomposeToCzH(B, a, b) PROVE Ok(gates)
  <2>1. PICK ha \in emitHOrDecompose(B, a) \X emitHOrDecompose(B, b) :
          gates = ha[2] \o <<Cz(a, b)>> \o ha[2] \o ha[1] \o <<Cz(b, a)>> \o ha[1] \o ha[2]
                  \o <<Cz(a, b)>> \o ha[2]
    BY <1>5 DEF decomposeToCzH
  <2>2. Ok(ha[1]) /\ Ok(ha[2])
    <3>1. ha[1] \in emitHOrDecompose(B, a) /\ ha[2] \in emitHOrDecompose(B, b)
      BY <2>1
    <3> HIDE DEF Ok
    <3> QED BY <1>4, <3>1
  <2> DEFINE h == ha[1]
             k == ha[2]
             c == <<Cz(a, b)>>
             d == <<Cz(b, a)>>
  <2>3. Ok(h) /\ Ok(k) /\ Ok(c) /\ Ok(d) /\ gates = k \o c \o k \o h \o d \o h \o k \o c \o k
    BY <1>3, <1>5, <2>1, <2>2
  <2> HIDE DEF h, k, c, d, Ok
  <2>4. Ok(k \o c \o k \o h)
    BY <1>2, <2>3
  <2>5. Ok(k \o c \o k \o h \o d \o h)
    BY <1>2, <2>3, <2>4
  <2> QED BY <1>2, <2>3, <2>5
<1>6. "cx" \in B => Ok(decomposeTocx(a, b))
  <2>1. \A u, v, w : LET Fit(g) == HasFields(g) /\ g.name \in B
                     IN  Fit(u) /\ Fit(v) /\ Fit(w) => Ok(<<u, v, w>>)
    BY DEF AllWritten, Within, IsList
  <2>2. "cx" \in B => /\ HasFields(Cx(a, b)) /\ Cx(a, b).name \in B
                      /\ HasFields(Cx(b, a)) /\ Cx(b, a).name \in B
    BY DEF HasFields, Gate, Cx
  <2> HIDE DEF Ok
  <2> QED BY <2>1, <2>2 DEF decomposeTocx
<1>7. \A gates \in decomposeswap(B, a, b) : Ok(gates)
  <2> HIDE DEF Ok
  <2> QED BY <1>5, <1>6 DEF decomposeswap
<1>8. ASSUME Universal(B) PROVE decomposeswap(B, a, b) # {}
  <2>1. CASE "cx" \in B
    BY <2>1 DEF decomposeswap
  <2>2. CASE "cx" \notin B
    <3>1. "cz" \in B /\ "h" \in B
      BY <1>8, <2>2 DEF Universal
    <3>2. \A q : emitHOrDecompose(B, q) # {}
      <4> TAKE q
      <4>1. <<H(q)>> \in emitHOrDecompose(B, q)
        BY <3>1 DEF emitHOrDecompose, FirstRule, Rule
      <4> QED BY <4>1
    <3>3. PICK h \in emitHOrDecompose(B, a), k \in emitHOrDecompose(B, b) : TRUE
      BY <3>2
    <3>4. <<h, k>> \in emitHOrDecompose(B, a) \X emitHOrDecompose(B, b)
      BY <3>3
    <3>5. decomposeToCzH(B, a, b) # {}
      <4> DEFINE text(ha) == ha[2] \o <<Cz(a, b)>> \o ha[2] \o ha[1] \o <<Cz(b, a)>> \o ha[1] \o ha[2]
                             \o <<Cz(a, b)>> \o ha[2]
      <4>1. text(<<h, k>>) \in {text(ha) : ha \in emitHOrDecompose(B, a) \X emitHOrDecompose(B, b)}
        <5> HIDE DEF text
        <5> QED BY <3>4, Zenon
      <4> QED BY <4>1 DEF decomposeToCzH
    <3> QED BY <3>1, <3>5, <2>2 DEF decomposeswap
  <2> QED BY <2>1, <2>2
<1> QED BY <1>7, <1>8

-----------------------------------------------------------------------------
(* What the stages for a device keep, up to the text: a program of gates,  *)
(* in the basis if it has what the universal ones have.                    *)
Permitted == basis \cup {"mz"} \cup options.basicGateSet \cup PhasedGates
                \cup IF pass = "Sabre" THEN {"swap"} ELSE {}
DeviceInv ==
  level = 0 /\ (Universal(basis) \/ basis = {}) /\ pass \in DOMAIN Order \ {"Emit"} =>
     AllWritten(done) /\ (Universal(basis) => Within(Permitted, done))

(* Whose turn it is, and after which stage.                                *)
LEMMA StageIsLater ==
  ASSUME NEW stage, IsNext(stage)
  PROVE  /\ pass \in DOMAIN Order \ {"Emit"} /\ failure = "none"
         /\ stage \in DOMAIN Order /\ Order[stage] > Order[pass] /\ Asked(stage)
<1>1. /\ pass \in DOMAIN Order /\ failure = "none"
      /\ stage \in DOMAIN Order /\ Order[stage] > Order[pass] /\ Asked(stage)
  BY DEF IsNext, Ahead
<1>2. DOMAIN Order = {"end", "MergeU3", "TurnToPhasedx", "Sabre", "DecomposeSwaps", "Emit"}
  BY DEF Order
<1>3. Order["Emit"] = 5 /\ \A other \in DOMAIN Order : Order[other] \in 0 .. 5
  BY DEF Order
<1> QED BY <1>1, <1>2, <1>3

(* Unoptimised, the merging for u3 leaves a program without runs as it is. *)
LEMMA MergingKeeps ==
  ASSUME NEW gates, AllWritten(gates), ForwardRuns(gates) = <<>>,
         NEW new \in Merge_u3_gate(gates), NEW names, Within(names, gates)
  PROVE  AllWritten(new) /\ Within(names, new)
<1> DEFINE runs == ForwardRuns(gates)
           ways == [r \in DOMAIN runs |-> merge_us_list(RunOf(gates, runs[r]))]
<1>1. IsList(runs) /\ Len(runs) = 0 /\ IsList(ways) /\ Len(ways) = 0
  BY DEF IsList
<1>2. PICK written \in OneOfEach(ways) : new = Replaced(gates, runs, written)
  BY DEF Merge_u3_gate
<1> HIDE DEF ways
<1>3. IsList(written) /\ Len(written) = Len(runs)
  BY <1>1, <1>2, OneOfEachChooses
<1> HIDE DEF runs
<1>4. \A r \in 1 .. Len(runs) : IsList(written[r])
  BY <1>1
<1>5. IsList(gates)
  BY DEF AllWritten
<1>6. IsList(new) /\ \A i \in 1 .. Len(new) : \E k \in 1 .. Len(gates) : new[i] = gates[k]
  BY <1>1, <1>2, <1>3, <1>4, <1>5, ReplacedRuns
<1> QED BY <1>6 DEF AllWritten, Within

(* The merging for a trapped-ion device keeps them, but for what it writes. *)
LEMMA PhasingKeeps ==
  ASSUME NEW gates, AllWritten(gates), NEW new \in turn_to_phasedx(gates),
         NEW names, Within(names, gates)
  PROVE  AllWritten(new) /\ Within(names \cup {"rz", "phasedx", "unitary"}, new)
<1> DEFINE runs == ForwardRuns(gates)
           way(r) == turn_run_to_tk1(RunOf(gates, runs[r]))
           ways == [r \in DOMAIN runs |-> way(r)]
           Ok(x) == HasFields(x) /\ x.name \in names \cup {"rz", "phasedx", "unitary"}
<1>1. IsList(gates) /\ IsList(runs)
  BY ForwardRunsAreAList DEF AllWritten
<1>2. PICK written \in OneOfEach(ways) : new = Replaced(gates, runs, written)
  BY DEF Merge_u3_gate, turn_to_phasedx
<1> HIDE DEF runs
<1>3. DOMAIN runs = 1 .. Len(runs) /\ Len(runs) \in Nat
  BY <1>1 DEF IsList
<1>4. IsList(ways) /\ Len(ways) = Len(runs) /\ \A r \in 1 .. Len(runs) : ways[r] = way(r)
  BY <1>3 DEF IsList
<1> HIDE DEF ways
<1>5. /\ IsList(written) /\ Len(written) = Len(runs)
      /\ \A r \in 1 .. Len(runs) : written[r] \in way(r)
  BY <1>2, <1>4, OneOfEachChooses
<1>6. ASSUME NEW r \in 1 .. Len(runs)
      PROVE  IsList(written[r]) /\ \A j \in 1 .. Len(written[r]) : Ok(written[r][j])
  <2>1. written[r] \in turn_run_to_tk1(RunOf(gates, runs[r]))
    BY <1>5
  <2>2. AllWritten(written[r]) /\ Within({"rz", "phasedx", "unitary"}, written[r])
    BY <2>1, PhasedRuns
  <2> QED BY <2>2 DEF AllWritten, Within
<1>7. \A k \in 1 .. Len(gates) : Ok(gates[k])
  BY DEF AllWritten, Within
<1> HIDE DEF way, Ok
<1>8. \A r \in 1 .. Len(runs) : IsList(written[r])
  BY <1>6
<1>9. /\ IsList(new)
      /\ \A i \in 1 .. Len(new) :
           \/ \E k \in 1 .. Len(gates) : new[i] = gates[k]
           \/ \E r \in 1 .. Len(runs) : \E j \in 1 .. Len(written[r]) : new[i] = written[r][j]
  <2> DEFINE R == Replaced(gates, runs, written)
  <2>1. /\ IsList(R)
        /\ \A i \in 1 .. Len(R) :
             \/ \E k \in 1 .. Len(gates) : R[i] = gates[k]
             \/ \E r \in 1 .. Len(runs) : \E j \in 1 .. Len(written[r]) : R[i] = written[r][j]
    BY <1>1, <1>5, <1>8, ReplacedRuns
  <2>2. new = R
    BY <1>2
  <2> HIDE DEF R
  <2> QED BY <2>1, <2>2
<1>10. \A i \in 1 .. Len(new) : Ok(new[i])
  BY <1>6, <1>7, <1>9
<1> QED BY <1>9, <1>10 DEF AllWritten, Within, Ok

(* The router keeps them, but for its swaps.                               *)
LEMMA RoutingKeeps ==
  ASSUME AllWritten(done), Sabre, NEW names, Within(names, done)
  PROVE  AllWritten(done') /\ Within(names \cup {"swap"}, done')
<1>1. CASE Leaves("Sabre", done)
  BY <1>1 DEF Leaves, AllWritten, Within
<1>2. CASE ~ Leaves("Sabre", done)
  <2> DEFINE turned(u, v) == [q \in Wires |-> IF q = u THEN v ELSE IF q = v THEN u ELSE q]
  <2>0. PICK i \in 0 .. Len(done) :
          \E u, v \in UNION {WiresIn(done[k]) : k \in DOMAIN done} :
            done' = SubSeq(done, 1, i) \o <<Gate("swap", <<u, v>>, <<>>)>>
                      \o [k \in 1 .. Len(done) - i |-> Rename(done[i + k], turned(u, v))]
    BY <1>2, Zenon DEF Sabre
  <2>1. PICK u, v \in UNION {WiresIn(done[k]) : k \in DOMAIN done} :
          done' = SubSeq(done, 1, i) \o <<Gate("swap", <<u, v>>, <<>>)>>
                    \o [k \in 1 .. Len(done) - i |-> Rename(done[i + k], turned(u, v))]
    BY <2>0, Zenon
  <2> DEFINE moved == turned(u, v)
  <2> DEFINE swap   == <<Gate("swap", <<u, v>>, <<>>)>>
             before == SubSeq(done, 1, i)
             later  == [k \in 1 .. Len(done) - i |-> Rename(done[i + k], moved)]
             Ok(s)  == AllWritten(s) /\ Within(names \cup {"swap"}, s)
  <2>2. Len(done) \in Nat /\ IsList(done)
    BY DEF AllWritten, IsList
  <2>3. Ok(before)
    <3>1. PICK A : done \in Seq(A) /\ \A x \in A : \E k \in 1 .. Len(done) : x = done[k]
      BY <2>2, ListsAreSequences
    <3>2. before \in Seq(A)
      BY <2>2, <3>1
    <3>3. IsList(before)
      BY <3>2, SequencesAreLists
    <3> HIDE DEF before
    <3>4. \A m \in 1 .. Len(before) : before[m] \in A
      BY <3>2
    <3>5. \A x \in A : HasFields(x) /\ x.name \in names
      BY <3>1 DEF AllWritten, Within
    <3> QED BY <3>3, <3>4, <3>5 DEF AllWritten, Within
  <2>4. Ok(swap)
    BY DEF AllWritten, Within, IsList, HasFields, Gate
  <2>5. Ok(later)
    <3>1. Len(later) = Len(done) - i /\ IsList(later)
      BY <2>2 DEF IsList
    <3>2. ASSUME NEW x, HasFields(x) PROVE HasFields(Rename(x, moved)) /\ Rename(x, moved).name = x.name
      BY <3>2 DEF HasFields, Rename
    <3>3. ASSUME NEW k \in 1 .. Len(done) - i
          PROVE  HasFields(later[k]) /\ later[k].name \in names
      <4>1. i + k \in 1 .. Len(done)
        BY <2>2
      <4>2. HasFields(done[i + k]) /\ done[i + k].name \in names
        BY <4>1 DEF AllWritten, Within
      <4>3. later[k] = Rename(done[i + k], moved)
        OBVIOUS
      <4> QED BY <3>2, <4>2, <4>3
    <3> HIDE DEF later
    <3> QED BY <3>1, <3>3 DEF AllWritten, Within
  <2>6. \A r, s : Ok(r) /\ Ok(s) => Ok(r \o s)
    BY ListsJoin DEF AllWritten, Within
  <2>7. done' = before \o swap \o later
    BY <2>1
  <2> HIDE DEF before, swap, later, Ok
  <2>8. Ok(done')
    BY <2>3, <2>4, <2>5, <2>6, <2>7
  <2> QED BY <2>8 DEF Ok
<1> QED BY <1>1, <1>2

(* What stands for the router's swaps is of the basis asked for.           *)
LEMMA SwapsAreDecomposed ==
  ASSUME NEW B, NEW gates, AllWritten(gates)
  PROVE  /\ \A new \in runDecomposeSwapQir(B, gates) :
              /\ AllWritten(new)
              /\ \A names : Within(names \cup {"swap"}, gates) /\ B # {} => Within(names \cup B, new)
         /\ Universal(B) \/ B = {} => runDecomposeSwapQir(B, gates) # {}
<1> DEFINE way(i) == IF gates[i].name = "swap" THEN decomposeswap(B, gates[i].wires[1], gates[i].wires[2])
                     ELSE {<<gates[i]>>}
           ways == [i \in DOMAIN gates |-> way(i)]
<1>1. IsList(gates) /\ DOMAIN gates = 1 .. Len(gates) /\ Len(gates) \in Nat
  BY DEF AllWritten, IsList
<1>2. IsList(ways) /\ Len(ways) = Len(gates) /\ \A i \in 1 .. Len(gates) : ways[i] = way(i)
  BY <1>1 DEF IsList
<1>3. runDecomposeSwapQir(B, gates) =
        IF B = {} \/ "swap" \in B THEN {gates} ELSE {FlattenSeq(written) : written \in OneOfEach(ways)}
  BY DEF runDecomposeSwapQir
<1> HIDE DEF ways, way
<1>4. CASE B = {} \/ "swap" \in B
  BY <1>3, <1>4 DEF Within
<1>5. CASE ~ (B = {} \/ "swap" \in B)
  <2>1. ASSUME NEW new \in runDecomposeSwapQir(B, gates)
        PROVE  /\ AllWritten(new)
               /\ \A names : Within(names \cup {"swap"}, gates) /\ B # {} => Within(names \cup B, new)
    <3>1. PICK written \in OneOfEach(ways) : new = FlattenSeq(written)
      BY <1>3, <1>5, <2>1
    <3>2. /\ IsList(written) /\ Len(written) = Len(gates)
          /\ \A i \in 1 .. Len(gates) : written[i] \in way(i)
      BY <1>2, <3>1, OneOfEachChooses
    <3> DEFINE From(i, x) == /\ HasFields(x)
                             /\ \/ x.name \in B
                                \/ x = gates[i] /\ gates[i].name # "swap"
    <3>3. ASSUME NEW i \in 1 .. Len(gates)
          PROVE  IsList(written[i]) /\ \A j \in 1 .. Len(written[i]) : From(i, written[i][j])
      <4>1. CASE gates[i].name = "swap"
        <5>1. written[i] \in decomposeswap(B, gates[i].wires[1], gates[i].wires[2])
          BY <3>2, <4>1 DEF way
        <5>2. AllWritten(written[i]) /\ Within(B, written[i])
          BY <5>1, SwapsAreWritten
        <5> QED BY <5>2 DEF AllWritten, Within
      <4>2. CASE gates[i].name # "swap"
        <5>1. written[i] = <<gates[i]>>
          BY <3>2, <4>2 DEF way
        <5>2. HasFields(gates[i])
          BY DEF AllWritten
        <5>3. IsList(<<gates[i]>>) /\ Len(<<gates[i]>>) = 1 /\ <<gates[i]>>[1] = gates[i]
          BY ShortLists
        <5> QED BY <4>2, <5>1, <5>2, <5>3
      <4> QED BY <4>1, <4>2
    <3> HIDE DEF From
    <3>4. /\ IsList(new)
          /\ \A m \in 1 .. Len(new) :
               \E i \in 1 .. Len(written) : \E j \in 1 .. Len(written[i]) : new[m] = written[i][j]
      BY <3>1, <3>2, <3>3, FlattenedLists
    <3>5. \A m \in 1 .. Len(new) : \E i \in 1 .. Len(gates) : From(i, new[m])
      BY <3>2, <3>3, <3>4
    <3> QED BY <3>4, <3>5 DEF From, AllWritten, Within
  <2>2. ASSUME Universal(B) \/ B = {} PROVE runDecomposeSwapQir(B, gates) # {}
    <3>1. \A i \in 1 .. Len(gates) : way(i) # {}
      BY <1>5, <2>2, SwapsAreWritten DEF way
    <3>2. OneOfEach(ways) # {}
      BY <1>2, <3>1, OneOfEachChooses
    <3> QED BY <1>3, <1>5, <3>2
  <2> QED BY <2>1, <2>2
<1> QED BY <1>4, <1>5

(* A stage keeps it, whichever stage it is.                                *)
LEMMA StageKeeps ==
  ASSUME DeviceInv, DeviceStep
  PROVE  DeviceInv'
<1> SUFFICES ASSUME level' = 0, Universal(basis') \/ basis' = {}, pass' \in DOMAIN Order \ {"Emit"}
             PROVE  AllWritten(done') /\ (Universal(basis') => Within(Permitted', done'))
  BY DEF DeviceInv
<1> DEFINE plain == basis \cup {"mz"} \cup options.basicGateSet \cup PhasedGates
           here  == plain \cup IF pass = "Sabre" THEN {"swap"} ELSE {}
           there == plain \cup IF pass' = "Sabre" THEN {"swap"} ELSE {}
<1>1. UNCHANGED options
  BY DeviceStepLeaves DEF DeviceStep, MergeU3Crashes, DecomposeSwapsFails, Fails
<1>2. /\ basis' = basis /\ level = 0 /\ (Universal(basis) \/ basis = {})
      /\ Permitted = here /\ Permitted' = there
  BY <1>1 DEF basis, level, Permitted, PhasedGates
<1>3. ASSUME pass \in DOMAIN Order \ {"Emit"}
      PROVE  AllWritten(done) /\ (Universal(basis) => Within(here, done))
  BY <1>2, <1>3 DEF DeviceInv
<1>4. \A names, more, gates : names \subseteq more /\ Within(names, gates) => Within(more, gates)
  BY DEF Within
<1>5. \A gates : AllWritten(gates) => \E names : Within(names, gates)
  <2> TAKE gates
  <2> HAVE AllWritten(gates)
  <2>1. Within({gates[i].name : i \in 1 .. Len(gates)}, gates)
    BY DEF Within
  <2> QED BY <2>1
<1>6. ASSUME NEW stage, IsNext(stage), stage # "DecomposeSwaps", stage # "Emit"
      PROVE  here = plain /\ AllWritten(done) /\ (Universal(basis) => Within(plain, done))
  <2>1. pass \in DOMAIN Order \ {"Emit"} /\ stage \in DOMAIN Order /\ Order[stage] > Order[pass]
    BY <1>6, StageIsLater
  <2>2. pass # "Sabre"
    BY <1>6, <2>1 DEF Order
  <2> QED BY <1>3, <2>1, <2>2
<1>7. CASE MergeU3
  <2>1. IsNext("MergeU3") /\ ForwardRuns(done) = <<>> /\ pass' = "MergeU3"
    BY <1>2, <1>7 DEF MergeU3, Leaves
  <2>2. done' \in Merge_u3_gate(done)
    BY <1>7 DEF MergeU3, Leaves
  <2>3. AllWritten(done) /\ (Universal(basis) => Within(plain, done)) /\ there = plain
    BY <1>6, <2>1
  <2> HIDE DEF plain, here, there
  <2>4. AllWritten(done')
    BY <1>5, <2>1, <2>2, <2>3, MergingKeeps
  <2>5. Universal(basis) => Within(plain, done')
    BY <2>1, <2>2, <2>3, MergingKeeps
  <2> QED BY <1>2, <2>3, <2>4, <2>5
<1>8. CASE TurnToPhasedx
  <2>1. IsNext("TurnToPhasedx") /\ pass' = "TurnToPhasedx" /\ done' \in turn_to_phasedx(done)
    BY <1>8 DEF TurnToPhasedx, Leaves
  <2>2. AllWritten(done) /\ (Universal(basis) => Within(plain, done)) /\ there = plain
    BY <1>6, <2>1
  <2>3. Universal(basis) => plain \cup {"rz", "phasedx", "unitary"} = plain
    <3>1. options.emitBackend = "Trappedion-backend"
      BY <2>1, StageIsLater DEF Asked
    <3>2. {"phasedx", "unitary"} \subseteq PhasedGates /\ (Universal(basis) => "rz" \in basis)
      BY <3>1 DEF PhasedGates, Universal
    <3> QED BY <3>2
  <2> HIDE DEF plain, here, there
  <2>4. AllWritten(done')
    BY <1>5, <2>1, <2>2, PhasingKeeps
  <2>5. Universal(basis) => Within(plain \cup {"rz", "phasedx", "unitary"}, done')
    BY <2>1, <2>2, PhasingKeeps
  <2> QED BY <1>2, <2>2, <2>3, <2>4, <2>5
<1>9. CASE Sabre
  <2>1. IsNext("Sabre") /\ pass' = "Sabre"
    BY <1>9 DEF Sabre, Leaves
  <2>2. AllWritten(done) /\ (Universal(basis) => Within(plain, done)) /\ there = plain \cup {"swap"}
    BY <1>6, <2>1
  <2> HIDE DEF plain, here, there
  <2>3. AllWritten(done')
    BY <1>5, <1>9, <2>2, RoutingKeeps
  <2>4. Universal(basis) => Within(plain \cup {"swap"}, done')
    BY <1>9, <2>2, RoutingKeeps
  <2> QED BY <1>2, <2>2, <2>3, <2>4
<1>10. CASE DecomposeSwaps
  <2> DEFINE B == options.basicGateSet
  <2>1. /\ IsNext("DecomposeSwaps") /\ pass' = "DecomposeSwaps"
        /\ done' \in runDecomposeSwapQir(B, done)
    BY <1>10 DEF DecomposeSwaps, Leaves
  <2>2. AllWritten(done) /\ (Universal(basis) => Within(here, done)) /\ there = plain
    BY <1>3, <2>1, StageIsLater
  <2>3. here \subseteq plain \cup {"swap"} /\ plain \cup B = plain
    OBVIOUS
  <2>4. Universal(basis) => B # {}
    BY DEF Universal, basis, basicGateSet
  <2> HIDE DEF plain, here, there, B
  <2>5. AllWritten(done')
    BY <2>1, <2>2, SwapsAreDecomposed
  <2>6. Universal(basis) => Within(plain \cup {"swap"}, done)
    BY <1>4, <2>2, <2>3
  <2>7. Universal(basis) => Within(plain \cup B, done')
    BY <2>1, <2>2, <2>4, <2>6, SwapsAreDecomposed
  <2> QED BY <1>2, <2>2, <2>3, <2>5, <2>7
<1>11. CASE MergeU3Crashes \/ DecomposeSwapsFails
  <2>1. UNCHANGED <<pass, done>>
    BY <1>11 DEF MergeU3Crashes, DecomposeSwapsFails, Fails
  <2>2. pass \in DOMAIN Order \ {"Emit"} /\ here = there
    BY <2>1
  <2> HIDE DEF here, there
  <2> QED BY <1>2, <1>3, <2>1, <2>2
<1>12. CASE Emit
  BY <1>12 DEF Emit, Leaves
<1> QED BY <1>7, <1>8, <1>9, <1>10, <1>11, <1>12 DEF DeviceStep

(* Every step of the compiler keeps it.                                    *)
LEMMA NextDevice ==
  ShapeInv /\ UnoptimisedInv /\ TranslateInv /\ DeviceInv /\ [ENext]_allVars => DeviceInv'
<1> SUFFICES ASSUME ShapeInv, UnoptimisedInv, TranslateInv, DeviceInv, [ENext]_allVars,
                    level' = 0, Universal(basis') \/ basis' = {}, pass' \in DOMAIN Order \ {"Emit"}
             PROVE  AllWritten(done') /\ (Universal(basis') => Within(Permitted', done'))
  BY DEF DeviceInv
<1>0. /\ options' = options /\ basis' = basis /\ level = 0 /\ (Universal(basis) \/ basis = {})
      /\ DOMAIN Order = {"end", "MergeU3", "TurnToPhasedx", "Sabre", "DecomposeSwaps", "Emit"}
  BY OptionsAreKept DEF level, basis, Order
<1>1. CASE Settle \/ KeepGate \/ DecomposeGate \/ EndDecompose \/ TranslateGate
  <2>1. pass' \in {"decompose", "check", "optimise", "translate"}
    BY <1>1 DEF Settle, KeepGate, DecomposeGate, EndDecompose, TranslateGate
  <2> QED BY <1>0, <2>1
<1>2. CASE RejectGate \/ FailCheck \/ AssertFails \/ UNCHANGED vars
  <2>1. UNCHANGED <<pass, done, options>>
    BY <1>0, <1>2 DEF RejectGate, FailCheck, AssertFails, vars
  <2>2. Permitted' = Permitted
    BY <1>0, <2>1 DEF Permitted, PhasedGates
  <2> QED BY <1>0, <2>1, <2>2 DEF DeviceInv
<1>3. CASE EndCheck
  <2>1. basis = {} /\ done' = todo /\ AllSettled(todo)
    BY <1>0, <1>3 DEF EndCheck, ShapeInv
  <2>2. AllWritten(done')
    BY <2>1 DEF AllSettled, Settled, Shaped, AllWritten
  <2> QED BY <1>0, <2>1, <2>2 DEF Universal
<1>4. CASE EndTranslate
  <2>1. pass = "translate" /\ done' = done
    BY <1>0, <1>4 DEF EndTranslate
  <2>2. Universal(basis)
    BY <1>0, <2>1 DEF UnoptimisedInv
  <2>3. AllNative(basis, done)
    BY <1>0, <2>1, <2>2 DEF TranslateInv
  <2>4. basis \cup {"mz"} \subseteq Permitted'
    BY <1>0 DEF Permitted
  <2> QED BY <2>1, <2>3, <2>4 DEF AllNative, AllWritten, Within
<1>5. CASE StartTranslate \/ EndOptimise \/ Optimise
  <2>1. pass = "optimise"
    BY <1>5, OptimiseStays DEF StartTranslate, EndOptimise, Optimising
  <2> QED BY <1>0, <2>1 DEF UnoptimisedInv
<1>6. CASE DeviceStep
  <2>1. DeviceInv'
    BY <1>6, StageKeeps
  <2> QED BY <2>1 DEF DeviceInv
<1> QED BY <1>1, <1>2, <1>3, <1>4, <1>5, <1>6 DEF ENext, DNext, PNext, Next, allVars

(* What all of this keeps, together.                                       *)
PassesInv == DecomposeInv /\ ShapeInv /\ UnoptimisedInv /\ TranslateInv /\ DeviceInv

(* It holds at the start, and every step of the compiler keeps it.         *)
LEMMA PassesInvariant ==
  /\ EInit => PassesInv
  /\ PassesInv /\ [ENext]_allVars => PassesInv'
<1>1. EInit => PassesInv
  <2>1. EInit => pass = "decompose" /\ "decompose" \notin DOMAIN Order
    BY DEF EInit, Init, Order
  <2> QED BY <2>1, InitShape, InitDecompose
          DEF EInit, PassesInv, UnoptimisedInv, TranslateInv, DeviceInv
<1> QED BY <1>1, NextDecompose, NextShape, NextUnoptimised, NextTranslate, NextDevice DEF PassesInv

(* After the stages for a device, too, what an unoptimised compilation     *)
(* leaves is of the basis, of the set that was asked for, or written by    *)
(* turn_to_phasedx for a trapped-ion device: no swap of the router is left *)
(* and none is written with gates that are not asked for.  (The first      *)
(* conjunct is TranslatedProgramsAreNative.)                               *)
THEOREM CompiledProgramsAreNative == ESpec => []CompiledIsNative
<1>1. PassesInv => CompiledIsNative
  <2> SUFFICES ASSUME PassesInv, level = 0, Universal(basis)
               PROVE  /\ pass = "end" => Native(basis)
                      /\ pass = "DecomposeSwaps" =>
                           Native(basis \cup options.basicGateSet \cup PhasedGates)
    BY DEF CompiledIsNative, TranslatedIsNative
  <2>1. pass = "end" => AllNative(basis, done)
    BY DEF PassesInv, TranslateInv
  <2>2. pass = "DecomposeSwaps" => AllWritten(done) /\ Within(Permitted, done)
    BY DEF PassesInv, DeviceInv, Order
  <2>3. pass = "end" => Native(basis)
    BY <2>1 DEF AllNative, IsList, Native
  <2>4. pass = "DecomposeSwaps" => Native(basis \cup options.basicGateSet \cup PhasedGates)
    BY <2>2 DEF AllWritten, IsList, Within, Permitted, Native
  <2> QED BY <2>3, <2>4
<1> QED BY <1>1, PassesInvariant, PTL DEF ESpec

-----------------------------------------------------------------------------
(* The half of Compiles that is not about fairness, where the compiler is  *)
(* not asked to optimise.                                                  *)
WellFormedIsNotRefused == Compilable /\ level = 0 => failure = "none"

(* A step that fails is one that the program or the basis gives a reason   *)
(* for.                                                                    *)
LEMMA NextNotRefused ==
  PassesInv /\ WellFormedIsNotRefused /\ [ENext]_allVars => WellFormedIsNotRefused'
<1> SUFFICES ASSUME PassesInv, WellFormedIsNotRefused, [ENext]_allVars, Compilable', level' = 0,
                    failure' # "none"
             PROVE  FALSE
  BY DEF WellFormedIsNotRefused
<1>0. UNCHANGED <<source, options>> /\ Compilable /\ level = 0 /\ failure = "none"
  <2>1. UNCHANGED source
    BY DeviceStepLeaves, OptimiseStays
       DEF ENext, DNext, PNext, Next, Settle, KeepGate, DecomposeGate, RejectGate, EndDecompose,
           EndCheck, FailCheck, TranslateGate, AssertFails, EndTranslate, StartTranslate,
           EndOptimise, allVars, vars
  <2>2. UNCHANGED options
    BY OptionsAreKept
  <2>3. Compilable /\ level = 0
    BY <2>1, <2>2 DEF Compilable, SourceIsWellFormed, basis, turn_to_u3, level
  <2> QED BY <2>1, <2>2, <2>3 DEF WellFormedIsNotRefused
<1>1. CASE Settle \/ KeepGate \/ DecomposeGate \/ EndDecompose \/ EndCheck \/ TranslateGate
           \/ EndTranslate \/ StartTranslate \/ EndOptimise \/ UNCHANGED vars
  BY <1>0, <1>1
     DEF Settle, KeepGate, DecomposeGate, EndDecompose, EndCheck, TranslateGate, EndTranslate,
         StartTranslate, EndOptimise, vars
<1>2. CASE RejectGate
  <2>1. AllSupported(todo) /\ todo # <<>> /\ Head(todo).due
    BY <1>0, <1>2 DEF RejectGate, PassesInv, DecomposeInv, Compilable, Working
  <2>2. Supported(Head(todo))
    BY <2>1, ListShrinks DEF AllSupported
  <2>3. WellFormed(Head(todo)) /\ Head(todo).name # "mz"
    BY <2>1, <2>2 DEF Supported
  <2>4. \/ Decomposable(Head(todo)) /\ Head(todo).name \in gate_to_decompose
        \/ Head(todo).name \in gate_set
    BY <2>3 DEF WellFormed, HasMatrix, Decomposable, gate_to_decompose
  <2>5. Head(todo).name \in gate_set \cap gate_to_decompose => Decomposable(Head(todo))
    <3>1. gate_set \cap gate_to_decompose \subseteq {"cy"}
      BY DEF gate_set, gate_to_decompose, OperandCount, AnyCount
    <3>2. "cy" \in DOMAIN OperandCount /\ OperandCount["cy"] = 2
      BY DEF OperandCount
    <3>3. ASSUME NEW g, g.name = "cy", HasMatrix(g) PROVE Decomposable(g)
      <4>1. Len(g.args) = 0 /\ Len(g.wires) = 2
        BY <3>3 DEF HasMatrix, AngleCount, WireCount
      <4> QED BY <3>2, <3>3, <4>1 DEF Decomposable
    <3> QED BY <2>3, <3>1, <3>3 DEF WellFormed
  <2> QED BY <1>2, <2>4, <2>5 DEF RejectGate
<1>3. CASE FailCheck
  <2>1. AllPass(todo)
    BY <1>0, <1>3 DEF FailCheck, PassesInv, DecomposeInv, Compilable
  <2>2. \A i \in DOMAIN todo : Passes(todo[i])
    BY <2>1 DEF AllPass, IsList
  <2> QED BY <1>3, <2>2 DEF FailCheck
<1>4. CASE AssertFails
  <2>1. pass = "translate" /\ todo # <<>> /\ Head(todo).due /\ Translate(basis, Head(todo)) = {}
    BY <1>4 DEF AssertFails, Working
  <2>2. Universal(basis)
    BY <1>0, <2>1 DEF PassesInv, UnoptimisedInv, Compilable
  <2>3. Bound(basis, Head(todo))
    BY <1>0, <2>1, <2>2, ListShrinks DEF PassesInv, TranslateInv, AllBound
  <2> QED BY <2>1, <2>2, <2>3, TranslationExists DEF Bound
<1>5. CASE Optimise
  BY <1>0, <1>5, OptimiseStays DEF PassesInv, UnoptimisedInv
<1>6. CASE DeviceStep
  <2>1. ASSUME NEW stage, NEW gates, Leaves(stage, gates) PROVE failure' = failure
    BY <2>1 DEF Leaves
  <2>2. ~ MergeU3Crashes
    BY <1>0, StageIsLater DEF MergeU3Crashes, Asked, Compilable
  <2>3. ~ DecomposeSwapsFails
    <3> SUFFICES ASSUME DecomposeSwapsFails PROVE FALSE
      OBVIOUS
    <3>1. /\ pass \in DOMAIN Order \ {"Emit"}
          /\ runDecomposeSwapQir(options.basicGateSet, done) = {}
      BY StageIsLater DEF DecomposeSwapsFails
    <3>2. Universal(basis) \/ basis = {}
      BY <1>0 DEF Compilable
    <3>3. AllWritten(done)
      BY <1>0, <3>1, <3>2 DEF PassesInv, DeviceInv
    <3>4. options.basicGateSet = basis
      BY <1>0 DEF Compilable, turn_to_u3, basis, basicGateSet
    <3> QED BY <3>1, <3>2, <3>3, <3>4, SwapsAreDecomposed
  <2>4. MergeU3 \/ TurnToPhasedx => failure' = failure
    BY <2>1 DEF MergeU3, TurnToPhasedx
  <2>5. Sabre => failure' = failure
    BY <2>1 DEF Sabre
  <2>6. DecomposeSwaps \/ Emit => failure' = failure
    BY <2>1 DEF DecomposeSwaps, Emit
  <2> QED BY <1>0, <1>6, <2>2, <2>3, <2>4, <2>5, <2>6 DEF DeviceStep
<1> QED BY <1>1, <1>2, <1>3, <1>4, <1>5, <1>6 DEF ENext, DNext, PNext, Next, allVars

(* A program of well-formed gates is not refused by an unoptimised         *)
(* compilation for a universal basis or none, by a format check, an        *)
(* assertion or a crash of any pass or stage: what a rule hands on has a   *)
(* rule or a matrix, and the basis the gates the rule asks for.            *)
(* (DecomposemultiPass.cpp:3470 and 3571, get_matrix.cpp:829, the          *)
(* assertions of trans_basicgate.cpp:658 to 1321 and of                    *)
(* DecomposeSwapQirPass.cpp:182 and 228.)                                  *)
THEOREM NothingWellFormedIsRefused == ESpec => []WellFormedIsNotRefused
<1>1. EInit => WellFormedIsNotRefused
  BY DEF EInit, Init, WellFormedIsNotRefused
<1> QED BY <1>1, PassesInvariant, NextNotRefused, PTL DEF ESpec

=============================================================================
