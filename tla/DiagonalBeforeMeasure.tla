----------------------- MODULE DiagonalBeforeMeasure -----------------------
(***************************************************************************)
(* remove_diagonal_gates_before_measure: for each measurement in turn, the *)
(* diagonal gates right before it are erased, those with two wires when    *)
(* the measured wire is their second and nothing but diagonal gates and a  *)
(* measurement follow on the first.                                        *)
(***************************************************************************)
EXTENDS GateChains

diagonal_gates == {"rz", "z", "t", "s", "tdg", "sdg", "u1", "p", "cz", "crz", "cu1",
                   "cphase", "rzz"}

(* get_diagonal_gates_before_measure: from the measurement backwards, past *)
(* earlier measurements of the wire too.                                   *)
DiagonalRun(gates, m) ==
  LET w     == gates[m].wires[1]
      chain == Reverse(Ascending(gates, {j \in 1 .. m - 1 : IsValue(gates[j]) /\ w \in WiresIn(gates[j])}))
      Ends(k) == \/ gates[chain[k]].name \notin diagonal_gates
                 \/ Last(gates[chain[k]].wires) # w
      ends   == {k \in DOMAIN chain : Ends(k)}
  IN  IF ends = {} THEN chain ELSE SubSeq(chain, 1, Min(ends) - 1)

(* Mutant of JudgeSingle: only the next gate is looked at. *)
JudgeNext(gates, i) ==
  {IF OnOneWire(gates[i]) /\ gates[i].name \in diagonal_gates THEN "yes" ELSE "no"}

(* recursionJudgeSingleGate from gate i on: "yes", "no", or "crash" when a *)
(* result nobody uses is asked for its first user.  Of a measurement and a *)
(* gate either may be the first user.                                      *)
JudgeSingle(gates, i) ==
  LET w     == gates[i].wires[1]
      chain == Ascending(gates, {j \in i .. Len(gates) : IsValue(gates[j]) /\ w \in WiresIn(gates[j])})
      Bad(k) == ~ OnOneWire(gates[chain[k]]) \/ gates[chain[k]].name \notin diagonal_gates
      bad    == {k \in DOMAIN chain : Bad(k)}
      passed == {k \in DOMAIN chain : \A b \in bad : k < b}
  IN  (IF \E k \in passed : IsMeasured(gates, chain[k], w) THEN {"yes"} ELSE {})
        \cup (IF bad # {} THEN {"no"} ELSE {})
        \cup (IF bad = {} /\ User(gates, Last(chain), w) = 0 THEN {"crash"} ELSE {})

(* The fate of what was collected: only the two-wire gate nearest to the   *)
(* measurement is judged.                                                  *)
Verdicts(gates, run, pairs) ==
  LET nearest == run[Min(pairs)]
      next    == IF pairs = {} THEN 0 ELSE NextGate(gates, nearest, gates[nearest].wires[1])
  IN  IF next = 0 THEN {"yes"} ELSE JudgeSingle(gates, next)
Fate(gates, run, pairs, verdict) ==
  LET dead == IF verdict = "no" THEN {run[k] : k \in 1 .. Min(pairs) - 1} ELSE ToSet(run)
  IN  [crash |-> verdict = "crash" \/ CutsMeasurement(gates, dead), dead |-> dead]
Judge(gates, run) ==
  LET pairs == {k \in DOMAIN run : ~ OnOneWire(gates[run[k]])}
  IN  {Fate(gates, run, pairs, verdict) : verdict \in Verdicts(gates, run, pairs)}

(* The measurements, by their place from the end: what is erased lies      *)
(* before the measurement at hand, so that place stays what it is.  A      *)
(* measurement that reads an extract ends the pass.                        *)
Measurements(gates) ==
  LET places == Ascending(gates, {i \in DOMAIN gates : ~ IsValue(gates[i])})
  IN  [k \in DOMAIN places |-> Len(gates) - places[k]]
MeasureStep(s, m) ==
  UNION { IF owner = 0 THEN {[s EXCEPT !.stop = TRUE]}
          ELSE {[gates |-> IF fate.crash THEN s.gates ELSE Erase(s.gates, fate.dead),
                 stop  |-> fate.crash, crash |-> fate.crash] :
                  fate \in Judge(s.gates, DiagonalRun(s.gates, m))} :
          owner \in MeasuredFrom(s.gates, m) }
RemoveDiagonalBeforeMeasure(gates) ==
  FoldLeft(LAMBDA reached, back :
             UNION {IF s.stop THEN {s} ELSE MeasureStep(s, Len(s.gates) - back) : s \in reached},
           {[gates |-> gates, stop |-> FALSE, crash |-> FALSE]}, Measurements(gates))
=============================================================================
