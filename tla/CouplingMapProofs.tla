------------------------- MODULE CouplingMapProofs -------------------------
(***************************************************************************)
(* Facts about the distances of a coupling map, for every device.  The     *)
(* balls around a qubit are a recursive definition, so each fact about all *)
(* of them is proved on a least counterexample.                            *)
(***************************************************************************)
EXTENDS CouplingMap, FiniteSetTheorems, CountingProofs, TLAPS

(* The balls around a qubit: the qubit itself, then one ring of neighbours *)
(* more at each step.                                                      *)
LEMMA BallsGrow ==
  ASSUME NEW d, d.size \in Nat, NEW p \in Phys(d)
  PROVE  /\ Ball(d, p) \in [0 .. d.size -> SUBSET Phys(d)]
         /\ Ball(d, p)[0] = {p}
         /\ \A k \in 1 .. d.size :
              Ball(d, p)[k] = Ball(d, p)[k - 1]
                                \cup UNION { Neighbors(d, q) : q \in Ball(d, p)[k - 1] }
<1> DEFINE n == d.size
           Grown(X) == X \cup UNION { Neighbors(d, q) : q \in X }
           step == [k \in 1 .. n |-> [X \in SUBSET Phys(d) |-> Grown(X)]]
           IsBall(B) == B = [k \in 0 .. n |-> IF k = 0 THEN {p} ELSE Grown(B[k - 1])]
<1>1. step \in [1 .. n -> [SUBSET Phys(d) -> SUBSET Phys(d)]]
  BY DEF Neighbors
<1>2. {p} \in SUBSET Phys(d)
  OBVIOUS
<1>3. PICK g \in [0 .. n -> SUBSET Phys(d)] :
        g[0] = {p} /\ \A k \in 1 .. n : g[k] = step[k][g[k - 1]]
  <2>1. n \in Nat
    OBVIOUS
  <2>2. \E g \in [0 .. n -> SUBSET Phys(d)] : Iterates(n, {p}, step, g)
    <3> HIDE DEF step, n
    <3> QED BY <1>1, <1>2, <2>1, IterationExists, Zenon
  <2> HIDE DEF step, n
  <2> QED BY <2>2 DEF Iterates
<1>4. \A k \in 1 .. n : g[k] = Grown(g[k - 1])
  <2> TAKE k \in 1 .. n
  <2>1. g[k - 1] \in SUBSET Phys(d)
    OBVIOUS
  <2>2. step[k][g[k - 1]] = Grown(g[k - 1])
    BY <2>1
  <2> QED BY <1>3, <2>2
<1>5. IsBall(g)
  <2>1. \A k \in 0 .. n : g[k] = IF k = 0 THEN {p} ELSE Grown(g[k - 1])
    <3> HIDE DEF Grown
    <3> TAKE k \in 0 .. n
    <3>1. CASE k = 0
      BY <3>1, <1>3
    <3>2. CASE k # 0
      <4>1. k \in 1 .. n
        BY <3>2
      <4> QED BY <3>2, <4>1, <1>4
    <3> QED BY <3>1, <3>2
  <2> HIDE DEF Grown
  <2> QED BY <2>1
<1>6. Ball(d, p) = CHOOSE B : IsBall(B)
  BY DEF Ball
<1>7. IsBall(Ball(d, p))
  <2> HIDE DEF IsBall
  <2> QED BY <1>5, <1>6, Zenon
<1> DEFINE B == Ball(d, p)
<1>8. \A k \in 0 .. n : B[k] = IF k = 0 THEN {p} ELSE Grown(B[k - 1])
  <2> HIDE DEF Grown, B
  <2>1. B = [k \in 0 .. n |-> IF k = 0 THEN {p} ELSE Grown(B[k - 1])]
    BY <1>7 DEF B
  <2> QED BY <2>1
<1>9. B[0] = {p} /\ \A k \in 1 .. n : B[k] = Grown(B[k - 1])
  <2> HIDE DEF Grown, B
  <2> QED BY <1>8
<1>10. \A k \in 0 .. n : B[k] \subseteq Phys(d)
  <2> DEFINE T == { k \in 0 .. n : B[k] \subseteq Phys(d) }
  <2>1. 0 \in T
    BY <1>9
  <2>2. ASSUME NEW k \in 1 .. n, k - 1 \in T PROVE k \in T
    <3>1. B[k] = Grown(B[k - 1])
      BY <1>9
    <3>2. Grown(B[k - 1]) \subseteq Phys(d)
      BY <2>2 DEF Neighbors
    <3> QED BY <3>1, <3>2
  <2>3. \A k \in 0 .. n : k \in T
    <3> HIDE DEF T
    <3> QED BY <2>1, <2>2, CountingUp
  <2> QED BY <2>3
<1>11. B \in [0 .. n -> SUBSET Phys(d)]
  <2>1. B = [k \in 0 .. n |-> B[k]]
    <3> HIDE DEF Grown, B
    <3>1. B = [k \in 0 .. n |-> IF k = 0 THEN {p} ELSE Grown(B[k - 1])]
      BY <1>7 DEF B
    <3> QED BY <3>1
  <2> HIDE DEF B
  <2> QED BY <2>1, <1>10
<1> QED BY <1>9, <1>11

(* A larger ball contains a smaller one.                                   *)
LEMMA BallsAreNested ==
  ASSUME NEW d, d.size \in Nat, NEW p \in Phys(d),
         NEW j \in 0 .. d.size, NEW k \in 0 .. d.size, j <= k
  PROVE  Ball(d, p)[j] \subseteq Ball(d, p)[k]
<1> DEFINE B == Ball(d, p)
           T == { i \in 0 .. (d.size - j) : B[j] \subseteq B[j + i] }
<1> HIDE DEF B
<1>1. 0 \in T
  OBVIOUS
<1>2. ASSUME NEW i \in 1 .. (d.size - j), i - 1 \in T
      PROVE  i \in T
  <2>1. j + i \in 1 .. d.size /\ (j + i) - 1 = j + (i - 1)
    OBVIOUS
  <2>2. B[(j + i) - 1] \subseteq B[j + i]
    BY <2>1, BallsGrow DEF B
  <2> QED BY <1>2, <2>1, <2>2
<1>3. \A i \in 0 .. (d.size - j) : i \in T
  <2>1. d.size - j \in Nat /\ \A i \in 1 .. (d.size - j) : i - 1 \in T => i \in T
    BY <1>2
  <2> HIDE DEF T
  <2> QED BY <1>1, <2>1, CountingUp
<1>4. k - j \in 0 .. (d.size - j) /\ j + (k - j) = k
  OBVIOUS
<1> QED BY <1>3, <1>4 DEF B

(* A qubit lies in exactly the balls whose radius is at least its distance *)
(* (-1 if it lies in none).                                                *)
LEMMA DistanceIsLeast ==
  ASSUME NEW d, d.size \in Nat, NEW p \in Phys(d), NEW q
  PROVE  /\ Distance(d, p, q) \in 0 .. d.size \cup {Unreachable}
         /\ \A k \in 0 .. d.size : q \in Ball(d, p)[k] <=> Distance(d, p, q) \in 0 .. k
<1> DEFINE B == Ball(d, p)
           Hops == { k \in 0 .. d.size : q \in B[k] }
<1>0. Distance(d, p, q) = IF Hops = {} THEN Unreachable ELSE Min(Hops)
  BY DEF Distance
<1> HIDE DEF B
<1>1. CASE Hops = {}
  <2>1. Distance(d, p, q) = -1
    BY <1>0, <1>1 DEF Unreachable
  <2>2. \A k \in 0 .. d.size : q \notin B[k]
    BY <1>1
  <2> QED BY <2>1, <2>2 DEF B, Unreachable
<1>2. CASE Hops # {}
  <2>1. Hops \in SUBSET Nat
    OBVIOUS
  <2>2. PICK m \in Hops : \A h \in Hops : m <= h
    <3> HIDE DEF Hops
    <3> QED BY <1>2, <2>1, LeastNatural
  <2>3. Min(Hops) \in Hops /\ \A h \in Hops : Min(Hops) <= h
    <3> HIDE DEF Hops
    <3> QED BY <2>2 DEF Min
  <2>4. Distance(d, p, q) = Min(Hops)
    BY <1>0, <1>2
  <2> DEFINE m0 == Min(Hops)
  <2>5. m0 \in 0 .. d.size /\ q \in B[m0] /\ \A h \in 0 .. d.size : q \in B[h] => m0 <= h
    BY <2>3
  <2>6. ASSUME NEW k \in 0 .. d.size, m0 <= k
        PROVE  q \in B[k]
    <3> HIDE DEF m0
    <3> QED BY <2>5, <2>6, BallsAreNested DEF B
  <2> HIDE DEF m0
  <2>7. \A k \in 0 .. d.size : q \in B[k] <=> m0 <= k
    BY <2>5, <2>6
  <2>8. Distance(d, p, q) = m0
    BY <2>4 DEF m0
  <2> QED BY <2>5, <2>7, <2>8 DEF B
<1> QED BY <1>1, <1>2

(* A qubit is at distance 0 from itself only.                              *)
LEMMA DistanceToItself ==
  ASSUME NEW d, d.size \in Nat, NEW p \in Phys(d), NEW q
  PROVE  Distance(d, p, q) = 0 <=> q = p
<1>1. 0 \in 0 .. d.size /\ Ball(d, p)[0] = {p}
  BY BallsGrow
<1>2. q \in Ball(d, p)[0] <=> Distance(d, p, q) \in 0 .. 0
  BY <1>1, DistanceIsLeast
<1> QED BY <1>1, <1>2

(* A qubit at distance k + 1 has a neighbour at distance k: the one before *)
(* it on a shortest path.                                                  *)
LEMMA DistanceBefore ==
  ASSUME NEW d, d.size \in Nat, NEW p \in Phys(d), NEW q, Distance(d, p, q) > 0
  PROVE  \E r \in Phys(d) : Distance(d, p, r) = Distance(d, p, q) - 1 /\ q \in Neighbors(d, r)
<1> DEFINE B == Ball(d, p)
           D(x) == Distance(d, p, x)
           k == D(q)
<1>1. /\ \A x : D(x) \in 0 .. d.size \cup {Unreachable}
      /\ \A x : \A i \in 0 .. d.size : x \in B[i] <=> D(x) \in 0 .. i
  BY DistanceIsLeast
<1>2. /\ B \in [0 .. d.size -> SUBSET Phys(d)]
      /\ \A i \in 1 .. d.size : B[i] = B[i - 1] \cup UNION { Neighbors(d, x) : x \in B[i - 1] }
  BY BallsGrow
<1>3. k > 0
  OBVIOUS
<1> HIDE DEF B, D
<1>4. k \in 1 .. d.size /\ k - 1 \in 0 .. d.size
  BY <1>1, <1>3 DEF Unreachable
<1>5. q \in B[k] /\ q \notin B[k - 1]
  BY <1>1, <1>4
<1>6. PICK r \in B[k - 1] : q \in Neighbors(d, r)
  BY <1>2, <1>4, <1>5
<1>7. r \in Phys(d)
  BY <1>2, <1>4
<1>8. D(r) \in 0 .. (k - 1)
  BY <1>1, <1>4
<1>9. D(r) = k - 1
  <2> SUFFICES ASSUME D(r) < k - 1 PROVE FALSE
    BY <1>4, <1>8
  <2>1. D(r) + 1 \in 1 .. d.size /\ D(r) \in 0 .. d.size /\ (D(r) + 1) - 1 = D(r) /\ D(r) + 1 <= k - 1
    BY <1>4, <1>8
  <2>2. r \in B[D(r)]
    BY <1>1, <2>1
  <2>3. q \in B[D(r) + 1]
    BY <1>2, <1>6, <2>1, <2>2
  <2>4. D(q) \in 0 .. (D(r) + 1)
    BY <1>1, <2>1, <2>3
  <2> QED BY <1>4, <2>1, <2>4
<1> QED BY <1>6, <1>7, <1>9 DEF D

(* A shortest path visits no qubit twice, so it is shorter than the device *)
(* is wide.                                                                *)
LEMMA DistanceIsShort ==
  ASSUME NEW d, d.size \in Nat, NEW p \in Phys(d), NEW q \in Phys(d)
  PROVE  Distance(d, p, q) < d.size
<1> DEFINE D(x) == Distance(d, p, x)
           k == D(q)
<1>1. \A x : D(x) \in 0 .. d.size \cup {Unreachable}
  BY DistanceIsLeast
<1>2. \A x : D(x) > 0 => \E r \in Phys(d) : D(r) = D(x) - 1
  BY DistanceBefore
<1> HIDE DEF D
<1> SUFFICES ASSUME k >= d.size PROVE FALSE
  BY <1>1 DEF D, Unreachable
<1>3. k \in Nat
  BY <1>1 DEF Unreachable
<1> DEFINE T == { i \in 0 .. k : \E r \in Phys(d) : D(r) = k - i }
<1>4. 0 \in T
  BY <1>3
<1>5. \A i \in 1 .. k : i - 1 \in T => i \in T
  <2> SUFFICES ASSUME NEW i \in 1 .. k, i - 1 \in T PROVE i \in T
    OBVIOUS
  <2>1. PICK r \in Phys(d) : D(r) = k - (i - 1)
    OBVIOUS
  <2>2. D(r) > 0 /\ D(r) - 1 = k - i
    BY <1>3, <2>1
  <2>3. PICK r2 \in Phys(d) : D(r2) = k - i
    BY <1>2, <2>2
  <2> QED BY <2>3, <1>3
<1>6. \A i \in 0 .. k : i \in T
  <2> HIDE DEF T, k
  <2> QED BY <1>3, <1>4, <1>5, CountingUp
<1> DEFINE f == [i \in 0 .. k |-> CHOOSE r \in Phys(d) : D(r) = i]
<1>7. \A i \in 0 .. k : f[i] \in Phys(d) /\ D(f[i]) = i
  <2> TAKE i \in 0 .. k
  <2>1. k - i \in 0 .. k /\ k - (k - i) = i
    BY <1>3
  <2>2. k - i \in T
    BY <1>6, <2>1
  <2>3. \E r \in Phys(d) : D(r) = i
    BY <2>1, <2>2
  <2>4. f[i] = CHOOSE r \in Phys(d) : D(r) = i
    OBVIOUS
  <2> HIDE DEF f
  <2> QED BY <2>3, <2>4
<1> HIDE DEF f, T
<1>8. f \in Injection(0 .. k, Phys(d))
  <2>1. f \in [0 .. k -> Phys(d)]
    BY <1>7 DEF f
  <2>2. \A i, j \in 0 .. k : f[i] = f[j] => i = j
    BY <1>7
  <2> QED BY <2>1, <2>2 DEF Injection, IsInjective
<1>9. IsFiniteSet(Phys(d)) /\ Cardinality(Phys(d)) = d.size
  <2> DEFINE m == d.size - 1
  <2>1. 0 \in Int /\ m \in Int /\ (IF 0 > m THEN 0 ELSE m - 0 + 1) = d.size
    OBVIOUS
  <2>2. IsFiniteSet(0 .. m) /\ Cardinality(0 .. m) = IF 0 > m THEN 0 ELSE m - 0 + 1
    <3> HIDE DEF m
    <3> QED BY <2>1, FS_Interval
  <2>3. Phys(d) = 0 .. m
    BY DEF Phys
  <2> HIDE DEF m
  <2> QED BY <2>1, <2>2, <2>3
<1>10. IsFiniteSet(0 .. k) /\ Cardinality(0 .. k) = k + 1
  BY <1>3, FS_Interval
<1>11. Cardinality(0 .. k) <= Cardinality(Phys(d))
  BY <1>8, <1>9, FS_Injection
<1> QED BY <1>3, <1>9, <1>10, <1>11

(* The distances of two coupled qubits differ by one at most.              *)
LEMMA DistanceBeyond ==
  ASSUME NEW d, d.size \in Nat, NEW p \in Phys(d),
         NEW r \in Phys(d), Distance(d, p, r) # Unreachable, NEW q \in Neighbors(d, r)
  PROVE  Distance(d, p, q) \in 0 .. (Distance(d, p, r) + 1)
<1> DEFINE B == Ball(d, p)
           k == Distance(d, p, r)
<1>1. k \in 0 .. d.size /\ k < d.size
  BY DistanceIsLeast, DistanceIsShort
<1>2. k + 1 \in 1 .. d.size /\ (k + 1) - 1 = k /\ k \in 0 .. d.size /\ k + 1 \in 0 .. d.size /\ k \in 0 .. k
  BY <1>1
<1> HIDE DEF k
<1>3. r \in B[k]
  BY <1>2, DistanceIsLeast DEF k
<1>4. B[k + 1] = B[k] \cup UNION { Neighbors(d, x) : x \in B[k] }
  BY <1>2, BallsGrow
<1>5. q \in B[k + 1]
  BY <1>3, <1>4
<1>6. Distance(d, p, q) \in 0 .. (k + 1)
  BY <1>2, <1>5, DistanceIsLeast
<1> QED BY <1>6 DEF k

(* The device is wide enough for every index that an edge names.           *)
LEMMA GraphHoldsEndpoints ==
  ASSUME NEW E \in SUBSET (Nat \X Nat), NEW b \in Nat,
         \A e \in E : e[1] <= b /\ e[2] <= b
  PROVE  /\ GraphOf(E).size \in Nat
         /\ GraphOf(E).edges = E
         /\ \A e \in E : e[1] \in Phys(GraphOf(E)) /\ e[2] \in Phys(GraphOf(E))
<1>1. GraphOf(E).edges = E /\ GraphOf(E).size = IF E = {} THEN 0 ELSE 1 + Max(Endpoints(E))
  BY DEF GraphOf
<1>2. CASE E = {}
  BY <1>1, <1>2
<1>3. CASE E # {}
  <2> DEFINE T == Endpoints(E)
  <2>1. T \in SUBSET Nat /\ T # {} /\ \A e \in E : e[1] \in T /\ e[2] \in T
    BY <1>3 DEF Endpoints
  <2>2. \A x \in T : x <= b
    BY DEF Endpoints
  <2> HIDE DEF T
  <2>3. \E y \in T : \A x \in T : x <= y
    BY <2>1, <2>2, GreatestNatural
  <2>4. Max(T) \in T /\ \A x \in T : Max(T) >= x
    <3>1. \E y \in T : \A x \in T : y >= x
      BY <2>1, <2>3
    <3> QED BY <3>1 DEF Max
  <2>5. GraphOf(E).size = 1 + Max(T)
    BY <1>1, <1>3 DEF T
  <2> DEFINE g == GraphOf(E)
             top == Max(T)
  <2> HIDE DEF g, top
  <2>6. top \in T /\ \A x \in T : x <= top
    BY <2>1, <2>4 DEF top
  <2>7. top \in Nat /\ \A x \in T : x \in 0 .. top
    BY <2>1, <2>6
  <2>8. g.size \in Nat /\ g.size - 1 = top
    BY <2>5, <2>7 DEF g, top
  <2>9. Phys(g) = 0 .. top
    BY <2>8 DEF Phys
  <2>10. \A e \in E : e[1] \in Phys(g) /\ e[2] \in Phys(g)
    BY <2>1, <2>7, <2>9
  <2> QED BY <1>1, <2>8, <2>10 DEF g
<1> QED BY <1>2, <1>3

(* A set that holds p, and with each of its members less than n hops away  *)
(* the neighbours of that member, holds every qubit up to n hops away.     *)
LEMMA ClosedSetHoldsBall ==
  ASSUME NEW d, d.size \in Nat, NEW p \in Phys(d), NEW W, p \in W, NEW n \in Nat,
         \A r \in W \cap Phys(d) :
           Distance(d, p, r) \in 0 .. (n - 1) => Neighbors(d, r) \subseteq W
  PROVE  \A q \in Phys(d) : Distance(d, p, q) \in 0 .. n => q \in W
<1> DEFINE D(x) == Distance(d, p, x)
           T == { k \in 0 .. n : \A q \in Phys(d) : D(q) = k => q \in W }
<1>1. 0 \in T
  BY DistanceToItself
<1>2. \A k \in 1 .. n : k - 1 \in T => k \in T
  <2> SUFFICES ASSUME NEW k \in 1 .. n, k - 1 \in T, NEW q \in Phys(d), D(q) = k
               PROVE  q \in W
    OBVIOUS
  <2>1. D(q) > 0
    OBVIOUS
  <2>2. PICK r \in Phys(d) : D(r) = D(q) - 1 /\ q \in Neighbors(d, r)
    BY <2>1, DistanceBefore
  <2> HIDE DEF D
  <2>3. D(r) = k - 1 /\ D(r) \in 0 .. (n - 1)
    BY <2>2
  <2>4. r \in W
    BY <2>3
  <2> QED BY <2>2, <2>3, <2>4 DEF D
<1>3. \A k \in 0 .. n : k \in T
  <2> HIDE DEF T
  <2> QED BY <1>1, <1>2, CountingUp
<1> QED BY <1>3
=============================================================================
