------------------------ MODULE HybridProgramProofs ------------------------
(***************************************************************************)
(* Proofs about MpiHistogram, HybridBuild and HybridProgram for every      *)
(* number of ranks, drivers, kernels, workers and starts.                  *)
(*                                                                         *)
(* First the ranks, for every sequence of calls and every choice of what   *)
(* the kernels print.  Both theorems rest on counting: in front of a call  *)
(* every rank has passed through the same collectives, two for each kernel *)
(* call before it and one for each hardware call.                          *)
(*                                                                         *)
(* Then builds alone: the inductive invariant says what each thread relies *)
(* on at each of its statements; a step of one thread touches no file      *)
(* another one relies on, except entries of the cache, which it replaces   *)
(* by what they were.                                                      *)
(*                                                                         *)
(* Last, building and running put together: the cache stays sound, the     *)
(* ranks run the kernels as they are written, and they hold the same       *)
(* histograms.                                                             *)
(***************************************************************************)
EXTENDS HybridProgram, SequenceTheorems, FiniteSetTheorems, CountingProofs, TLAPS

-----------------------------------------------------------------------------
(* How many of the first n calls of p are of kind op, and how many         *)
(* collectives these calls take.                                           *)
CallsOf(p, op, n) == Cardinality({ i \in 1 .. n : p[i].op = op })

Collectives(p, n) == 2 * CallsOf(p, "kernel", n) + CallsOf(p, "hardware", n)

(* What a rank has passed through inside its call.                         *)
PassedInCall(c) == IF c = "unpack" THEN 2 ELSE IF c = "data" THEN 1 ELSE 0

OpOf(c) == IF c = "barrier" THEN "hardware" ELSE "kernel"

Labels == {"ready", "pack", "size", "data", "unpack", "barrier"}

(* Rank r is in call a of p, at c, with q collectives behind it.           *)
IsAt(p, a, c, q) ==
  /\ a \in 1 .. Len(p) + 1 /\ c \in Labels
  /\ c # "ready" => a <= Len(p) /\ p[a].op = OpOf(c)
  /\ q = Collectives(p, a - 1) + PassedInCall(c)

InBarrier(c) == IF c = "barrier" THEN 1 ELSE 0

(* Hardware calls a rank has reached.                                      *)
Reached(p, a, c) == CallsOf(p, "hardware", a - 1) + InBarrier(c)

PlacesInv ==
  /\ program \in Programs
  /\ at \in [Ranks -> Nat \ {0}] /\ pc \in [Ranks -> Labels] /\ passed \in [Ranks -> Nat]
  /\ \A r \in Ranks : IsAt(program, at[r], pc[r], passed[r])
  /\ \A r \in Ranks : pc[r] = "pack" => r = 0
  /\ pc[0] # "unpack"

(* No rank has left a hardware call that another has not reached, the root *)
(* among them.                                                             *)
BarrierInv ==
  /\ dispatched = Reached(program, at[0], pc[0])
  /\ \A r \in Ranks : \A s \in Ranks :
       CallsOf(program, "hardware", at[r] - 1) <= Reached(program, at[s], pc[s])

SyncInv == PlacesInv /\ BarrierInv

----------------------------------------------------------------------------

(* Calls are counted one after the other.                                  *)
LEMMA CountingCalls ==
  ASSUME NEW p, NEW op
  PROVE  /\ CallsOf(p, op, 0) = 0
         /\ \A n \in Nat : CallsOf(p, op, n) \in Nat
         /\ \A n \in Nat \ {0} :
              CallsOf(p, op, n) = CallsOf(p, op, n - 1) + (IF p[n].op = op THEN 1 ELSE 0)
         /\ \A m, n \in Nat : m <= n => CallsOf(p, op, m) <= CallsOf(p, op, n)
<1> DEFINE C(n) == { i \in 1 .. n : p[i].op = op }
<1>1. \A n \in Nat : IsFiniteSet(C(n))
  <2> TAKE n \in Nat
  <2>1. IsFiniteSet(1 .. n) /\ C(n) \subseteq 1 .. n
    BY FS_Interval
  <2> HIDE DEF C
  <2> QED BY <2>1, FS_Subset
<1>2. \A n \in Nat : Cardinality(C(n)) \in Nat
  <2> HIDE DEF C
  <2> QED BY <1>1, FS_CardinalityType
<1>3. C(0) = {}
  OBVIOUS
<1>4. Cardinality(C(0)) = 0
  <2> HIDE DEF C
  <2> QED BY <1>3, FS_EmptySet
<1>5. ASSUME NEW n \in Nat \ {0}
      PROVE  Cardinality(C(n)) = Cardinality(C(n - 1)) + (IF p[n].op = op THEN 1 ELSE 0)
  <2>1. n - 1 \in Nat /\ n \notin C(n - 1)
    OBVIOUS
  <2>2. CASE p[n].op = op
    <3>1. C(n) = C(n - 1) \cup {n}
      BY <2>2
    <3> HIDE DEF C
    <3> QED BY <1>1, <2>1, <2>2, <3>1, FS_AddElement
  <2>3. CASE p[n].op # op
    <3>1. C(n) = C(n - 1)
      BY <2>3
    <3>2. Cardinality(C(n - 1)) \in Nat
      BY <1>2, <2>1
    <3> HIDE DEF C
    <3> QED BY <2>3, <3>1, <3>2
  <2> QED BY <2>2, <2>3
<1>6. ASSUME NEW m \in Nat, NEW n \in Nat, m <= n
      PROVE  Cardinality(C(m)) <= Cardinality(C(n))
  <2>1. C(m) \subseteq C(n)
    BY <1>6
  <2> HIDE DEF C
  <2> QED BY <1>1, <2>1, FS_Subset
<1> QED BY <1>2, <1>4, <1>5, <1>6 DEF CallsOf

(* The same of collectives: none is shared by two calls.                   *)
LEMMA CountingCollectives ==
  ASSUME NEW p
  PROVE  /\ \A n \in Nat : Collectives(p, n) \in Nat
         /\ Collectives(p, 0) = 0
         /\ \A n \in Nat \ {0} :
              Collectives(p, n) = Collectives(p, n - 1)
                + (IF p[n].op = "kernel" THEN 2 ELSE IF p[n].op = "hardware" THEN 1 ELSE 0)
         /\ \A m, n \in Nat : m <= n => Collectives(p, m) <= Collectives(p, n)
<1>1. \A n \in Nat : CallsOf(p, "kernel", n) \in Nat /\ CallsOf(p, "hardware", n) \in Nat
  BY CountingCalls
<1>2. /\ CallsOf(p, "kernel", 0) = 0 /\ CallsOf(p, "hardware", 0) = 0
  BY CountingCalls
<1>3. ASSUME NEW n \in Nat \ {0}
      PROVE  /\ CallsOf(p, "kernel", n) = CallsOf(p, "kernel", n - 1) + (IF p[n].op = "kernel" THEN 1 ELSE 0)
             /\ CallsOf(p, "hardware", n) = CallsOf(p, "hardware", n - 1) + (IF p[n].op = "hardware" THEN 1 ELSE 0)
             /\ n - 1 \in Nat
  <2>1. CallsOf(p, "kernel", n) = CallsOf(p, "kernel", n - 1) + (IF p[n].op = "kernel" THEN 1 ELSE 0)
    BY CountingCalls
  <2>2. CallsOf(p, "hardware", n) = CallsOf(p, "hardware", n - 1) + (IF p[n].op = "hardware" THEN 1 ELSE 0)
    BY CountingCalls
  <2> QED BY <2>1, <2>2
<1>4. ASSUME NEW m \in Nat, NEW n \in Nat, m <= n
      PROVE  /\ CallsOf(p, "kernel", m) <= CallsOf(p, "kernel", n)
             /\ CallsOf(p, "hardware", m) <= CallsOf(p, "hardware", n)
  BY <1>4, CountingCalls
<1>5. ASSUME NEW n \in Nat \ {0}
      PROVE  Collectives(p, n) = Collectives(p, n - 1)
                + (IF p[n].op = "kernel" THEN 2 ELSE IF p[n].op = "hardware" THEN 1 ELSE 0)
  <2>1. CallsOf(p, "kernel", n - 1) \in Nat /\ CallsOf(p, "hardware", n - 1) \in Nat
    BY <1>1, <1>3
  <2>2. CASE p[n].op = "kernel"
    <3>1. CallsOf(p, "kernel", n) = CallsOf(p, "kernel", n - 1) + 1
      BY <1>3, <2>2
    <3>2. CallsOf(p, "hardware", n) = CallsOf(p, "hardware", n - 1)
      BY <1>3, <2>1, <2>2
    <3> QED BY <2>1, <2>2, <3>1, <3>2 DEF Collectives
  <2>3. CASE p[n].op = "hardware"
    <3>1. CallsOf(p, "kernel", n) = CallsOf(p, "kernel", n - 1)
      BY <1>3, <2>1, <2>3
    <3>2. CallsOf(p, "hardware", n) = CallsOf(p, "hardware", n - 1) + 1
      BY <1>3, <2>3
    <3> QED BY <2>1, <2>3, <3>1, <3>2 DEF Collectives
  <2>4. CASE p[n].op \notin {"kernel", "hardware"}
    BY <1>3, <2>1, <2>4 DEF Collectives
  <2> QED BY <2>2, <2>3, <2>4
<1>6. \A m, n \in Nat : m <= n => Collectives(p, m) <= Collectives(p, n)
  BY <1>1, <1>4 DEF Collectives
<1>7. Collectives(p, 0) = 0
  BY <1>2 DEF Collectives
<1>8. \A n \in Nat : Collectives(p, n) \in Nat
  BY <1>1 DEF Collectives
<1> QED BY <1>5, <1>6, <1>7, <1>8

----------------------------------------------------------------------------

(* How a rank goes from place to place.                                    *)
Moves(r, p, a, c, q, a2, c2, q2) ==
  \/ a2 = a /\ c2 = c /\ q2 = q
  \/ /\ c = "ready" /\ a <= Len(p) /\ p[a].op = OpOf(c2) /\ a2 = a /\ q2 = q
     /\ c2 \in (IF r = 0 THEN {"pack", "barrier"} ELSE {"size", "barrier"})
  \/ c = "pack" /\ c2 = "size" /\ a2 = a /\ q2 = q
  \/ c = "size" /\ c2 = "data" /\ a2 = a /\ q2 = q + 1
  \/ r # 0 /\ c = "data" /\ c2 = "unpack" /\ a2 = a /\ q2 = q + 1
  \/ r = 0 /\ c = "data" /\ c2 = "ready" /\ a2 = a + 1 /\ q2 = q + 1
  \/ c = "unpack" /\ c2 = "ready" /\ a2 = a + 1 /\ q2 = q
  \/ c = "ready" /\ a <= Len(p) /\ p[a].op = "dispatch" /\ c2 = "ready" /\ a2 = a + 1 /\ q2 = q
  \/ c = "barrier" /\ c2 = "ready" /\ a2 = a + 1 /\ q2 = q + 1

(* Every action belongs to one rank; what a step does to the places.       *)
LEMMA PlacesOfStep ==
  ASSUME NEW r \in Ranks, Step(r), SyncInv
  PROVE  /\ program' = program
         /\ \A s \in Ranks \ {r} : at'[s] = at[s] /\ pc'[s] = pc[s] /\ passed'[s] = passed[s]
         /\ at' \in [Ranks -> Nat \ {0}] /\ pc' \in [Ranks -> Labels] /\ passed' \in [Ranks -> Nat]
         /\ Moves(r, program, at[r], pc[r], passed[r], at'[r], pc'[r], passed'[r])
         /\ pc[r] = "barrier" => AllInBarrier(r) \/ at'[r] = at[r]
         /\ dispatched' = IF r = 0 /\ pc'[r] = "barrier" /\ pc[r] = "ready"
                          THEN dispatched + 1 ELSE dispatched
<1> USE RanksAssumption DEF SyncInv, PlacesInv, Goto, Return, Labels, OpOf, Moves
<1>0. at[r] \in Nat /\ passed[r] \in Nat /\ at[r] + 1 \in Nat \ {0} /\ passed[r] + 1 \in Nat
  <2>1. at[r] \in Nat \ {0} /\ passed[r] \in Nat
    OBVIOUS
  <2> QED BY <2>1
<1>1. CASE r = 0 /\ RootExecutes
  BY <1>1 DEF RootExecutes, Calling
<1>2. CASE r = 0 /\ PackHistogram
  BY <1>2 DEF PackHistogram
<1>3. CASE r = 0 /\ RootDispatches
  BY <1>3 DEF RootDispatches, Calling
<1>4. CASE r = 0 /\ RootAborts
  BY <1>4 DEF RootAborts
<1>5. CASE SkipExecute(r)
  BY <1>5 DEF SkipExecute, Calling
<1>6. CASE BcastSize(r)
  BY <1>0, <1>6 DEF BcastSize, RootPosts, Receives
<1>7. CASE BcastData(r)
  <2>1. CASE r = 0
    BY <1>0, <1>7, <2>1 DEF BcastData, RootPosts
  <2>2. CASE r # 0
    BY <1>0, <1>7, <2>2 DEF BcastData, Receives
  <2> QED BY <2>1, <2>2
<1>8. CASE UnpackHistogram(r)
  BY <1>0, <1>8 DEF UnpackHistogram
<1>9. CASE DispatchByRank(r)
  BY <1>0, <1>9 DEF DispatchByRank, Calling
<1>10. CASE EnterBarrier(r)
  BY <1>10 DEF EnterBarrier, Calling
<1>11. CASE LeaveBarrier(r)
  <2>1. CASE r = 0
    BY <1>0, <1>11, <2>1 DEF LeaveBarrier, RootPosts
  <2>2. CASE r # 0
    BY <1>0, <1>11, <2>2 DEF LeaveBarrier
  <2> QED BY <2>1, <2>2
<1> QED BY <1>1, <1>2, <1>3, <1>4, <1>5, <1>6, <1>7, <1>8, <1>9, <1>10, <1>11 DEF Step

(* From one place in a call to the next, or to the next call.              *)
LEMMA NextPlace ==
  ASSUME NEW p, p \in Seq(ToSet(p)), NEW a, NEW c, NEW q, IsAt(p, a, c, q)
  PROVE  /\ \A d \in {"pack", "size", "barrier"} :
              c = "ready" /\ a <= Len(p) /\ p[a].op = OpOf(d) => IsAt(p, a, d, q)
         /\ c = "pack" => IsAt(p, a, "size", q)
         /\ c = "size" => IsAt(p, a, "data", q + 1)
         /\ c = "data" => IsAt(p, a, "unpack", q + 1) /\ IsAt(p, a + 1, "ready", q + 1)
         /\ c = "unpack" => IsAt(p, a + 1, "ready", q)
         /\ c = "ready" /\ a <= Len(p) /\ p[a].op = "dispatch" => IsAt(p, a + 1, "ready", q)
         /\ c = "barrier" => IsAt(p, a + 1, "ready", q + 1)
<1>1. Len(p) \in Nat /\ a \in Nat \ {0} /\ a - 1 \in Nat /\ (a + 1) - 1 = a
  <2>1. Len(p) \in Nat /\ a \in 1 .. Len(p) + 1
    BY LenProperties DEF IsAt
  <2> QED BY <2>1
<1>2. Collectives(p, a - 1) \in Nat
  BY <1>1, CountingCollectives
<1>3. Collectives(p, a) = Collectives(p, a - 1)
        + (IF p[a].op = "kernel" THEN 2 ELSE IF p[a].op = "hardware" THEN 1 ELSE 0)
  BY <1>1, CountingCollectives
<1>4. c # "ready" => a + 1 \in 1 .. Len(p) + 1
  BY <1>1 DEF IsAt
<1>5. ASSUME c = "ready", a <= Len(p)
      PROVE  q = Collectives(p, a - 1) /\ a + 1 \in 1 .. Len(p) + 1
  BY <1>1, <1>2, <1>5 DEF IsAt, PassedInCall
<1>6. ASSUME NEW d \in {"pack", "size", "barrier"}, c = "ready", a <= Len(p), p[a].op = OpOf(d)
      PROVE  IsAt(p, a, d, q)
  BY <1>1, <1>2, <1>5, <1>6 DEF IsAt, PassedInCall, Labels
<1>7. CASE c = "pack"
  BY <1>1, <1>2, <1>7 DEF IsAt, PassedInCall, Labels, OpOf
<1>8. CASE c = "size"
  BY <1>1, <1>2, <1>8 DEF IsAt, PassedInCall, Labels, OpOf
<1>9. CASE c = "data"
  <2>1. q = Collectives(p, a - 1) + 1 /\ a \in 1 .. Len(p) + 1 /\ a <= Len(p) /\ p[a].op = "kernel"
    BY <1>9 DEF IsAt, PassedInCall, OpOf
  <2>2. IsAt(p, a, "unpack", q + 1)
    BY <1>2, <2>1 DEF IsAt, PassedInCall, Labels, OpOf
  <2>3. Collectives(p, (a + 1) - 1) = q + 1
    BY <1>1, <1>2, <1>3, <2>1
  <2>4. IsAt(p, a + 1, "ready", q + 1)
    BY <1>1, <1>2, <1>4, <1>9, <2>1, <2>3 DEF IsAt, PassedInCall, Labels
  <2> QED BY <1>9, <2>2, <2>4
<1>10. CASE c = "unpack"
  <2>1. q = Collectives(p, a - 1) + 2 /\ p[a].op = "kernel"
    BY <1>10 DEF IsAt, PassedInCall, OpOf
  <2>2. Collectives(p, (a + 1) - 1) = q /\ q \in Nat
    BY <1>1, <1>2, <1>3, <2>1
  <2>3. IsAt(p, a + 1, "ready", q)
    BY <1>1, <1>4, <1>10, <2>2 DEF IsAt, PassedInCall, Labels
  <2> QED BY <1>10, <2>3
<1>11. ASSUME c = "ready", a <= Len(p), p[a].op = "dispatch"
       PROVE  IsAt(p, a + 1, "ready", q)
  <2>1. Collectives(p, (a + 1) - 1) = q /\ q \in Nat
    BY <1>1, <1>2, <1>3, <1>5, <1>11
  <2> QED BY <1>1, <1>5, <1>11, <2>1 DEF IsAt, PassedInCall, Labels
<1>12. CASE c = "barrier"
  <2>1. q = Collectives(p, a - 1) /\ p[a].op = "hardware"
    BY <1>2, <1>12 DEF IsAt, PassedInCall, OpOf
  <2>2. Collectives(p, (a + 1) - 1) = q + 1 /\ q + 1 \in Nat
    BY <1>1, <1>2, <1>3, <2>1
  <2>3. IsAt(p, a + 1, "ready", q + 1)
    BY <1>1, <1>4, <1>12, <2>2 DEF IsAt, PassedInCall, Labels
  <2> QED BY <1>12, <2>3
<1>13. c = "pack" => IsAt(p, a, "size", q)
  BY <1>7
<1>14. c = "size" => IsAt(p, a, "data", q + 1)
  BY <1>8
<1>15. c = "data" => IsAt(p, a, "unpack", q + 1) /\ IsAt(p, a + 1, "ready", q + 1)
  BY <1>9
<1>16. c = "unpack" => IsAt(p, a + 1, "ready", q)
  BY <1>10
<1>17. c = "barrier" => IsAt(p, a + 1, "ready", q + 1)
  BY <1>12
<1> QED BY <1>6, <1>11, <1>13, <1>14, <1>15, <1>16, <1>17, Zenon

(* Whatever moves there are, a rank stays at a place of the program.       *)
LEMMA MovesKeepPlace ==
  ASSUME NEW p, p \in Seq(ToSet(p)), NEW r, NEW a, NEW c, NEW q, NEW a2, NEW c2, NEW q2,
         IsAt(p, a, c, q), c = "pack" => r = 0, c = "unpack" => r # 0,
         Moves(r, p, a, c, q, a2, c2, q2)
  PROVE  IsAt(p, a2, c2, q2) /\ (c2 = "pack" => r = 0) /\ (c2 = "unpack" => r # 0)
<1>1. /\ \A d \in {"pack", "size", "barrier"} :
            c = "ready" /\ a <= Len(p) /\ p[a].op = OpOf(d) => IsAt(p, a, d, q)
      /\ c = "pack" => IsAt(p, a, "size", q)
      /\ c = "size" => IsAt(p, a, "data", q + 1)
      /\ c = "data" => IsAt(p, a, "unpack", q + 1) /\ IsAt(p, a + 1, "ready", q + 1)
      /\ c = "unpack" => IsAt(p, a + 1, "ready", q)
      /\ c = "ready" /\ a <= Len(p) /\ p[a].op = "dispatch" => IsAt(p, a + 1, "ready", q)
      /\ c = "barrier" => IsAt(p, a + 1, "ready", q + 1)
  BY NextPlace, Zenon
<1>2. CASE /\ c = "ready" /\ a <= Len(p) /\ p[a].op = OpOf(c2) /\ a2 = a /\ q2 = q
           /\ c2 \in (IF r = 0 THEN {"pack", "barrier"} ELSE {"size", "barrier"})
  <2>1. c2 \in {"pack", "size", "barrier"} /\ (c2 = "pack" => r = 0) /\ c2 # "unpack"
    BY <1>2
  <2> QED BY <1>1, <1>2, <2>1, Zenon
<1>3. CASE a2 = a /\ c2 = c /\ q2 = q
  BY <1>3, Zenon
<1>4. CASE c = "pack" /\ c2 = "size" /\ a2 = a /\ q2 = q
  BY <1>1, <1>4, Zenon
<1>5. CASE c = "size" /\ c2 = "data" /\ a2 = a /\ q2 = q + 1
  BY <1>1, <1>5, Zenon
<1>6. CASE r # 0 /\ c = "data" /\ c2 = "unpack" /\ a2 = a /\ q2 = q + 1
  BY <1>1, <1>6, Zenon
<1>7. CASE c = "data" /\ c2 = "ready" /\ a2 = a + 1 /\ q2 = q + 1
  BY <1>1, <1>7, Zenon
<1>8. CASE c = "unpack" /\ c2 = "ready" /\ a2 = a + 1 /\ q2 = q
  BY <1>1, <1>8, Zenon
<1>9. CASE c = "ready" /\ a <= Len(p) /\ p[a].op = "dispatch" /\ c2 = "ready" /\ a2 = a + 1 /\ q2 = q
  BY <1>1, <1>9, Zenon
<1>10. CASE c = "barrier" /\ c2 = "ready" /\ a2 = a + 1 /\ q2 = q + 1
  BY <1>1, <1>10, Zenon
<1> QED BY <1>2, <1>3, <1>4, <1>5, <1>6, <1>7, <1>8, <1>9, <1>10, Zenon DEF Moves

(* The program is a sequence.                                              *)
LEMMA ProgramIsSeq ==
  ASSUME PlacesInv
  PROVE  program \in Seq(ToSet(program)) /\ Len(program) \in Nat
BY ProgramsAssumption, LenProperties DEF PlacesInv

(* Every rank stays at a place of the program.                             *)
LEMMA PlacesKept ==
  ASSUME NEW r \in Ranks, Step(r), SyncInv
  PROVE  PlacesInv'
<1>1. /\ program' = program
      /\ \A s \in Ranks \ {r} : at'[s] = at[s] /\ pc'[s] = pc[s] /\ passed'[s] = passed[s]
      /\ at' \in [Ranks -> Nat \ {0}] /\ pc' \in [Ranks -> Labels] /\ passed' \in [Ranks -> Nat]
  BY PlacesOfStep
<1>2. /\ program \in Seq(ToSet(program)) /\ IsAt(program, at[r], pc[r], passed[r])
      /\ (pc[r] = "pack" => r = 0) /\ (pc[r] = "unpack" => r # 0)
  BY ProgramIsSeq DEF SyncInv, PlacesInv
<1>3. IsAt(program, at'[r], pc'[r], passed'[r]) /\ (pc'[r] = "pack" => r = 0) /\ (pc'[r] = "unpack" => r # 0)
  <2>1. Moves(r, program, at[r], pc[r], passed[r], at'[r], pc'[r], passed'[r])
    BY PlacesOfStep
  <2> QED BY <1>2, <2>1, MovesKeepPlace
<1>4. \A s \in Ranks : /\ IsAt(program', at'[s], pc'[s], passed'[s])
                       /\ pc'[s] = "pack" => s = 0
                       /\ pc'[s] = "unpack" => s # 0
  <2> TAKE s \in Ranks
  <2>1. CASE s = r
    BY <1>1, <1>3, <2>1
  <2>2. CASE s # r
    BY <1>1, <2>2 DEF SyncInv, PlacesInv
  <2> QED BY <2>1, <2>2
<1> QED BY <1>1, <1>4, RanksAssumption DEF SyncInv, PlacesInv

(* The hardware calls a rank has reached, after a move.                    *)
LEMMA ReachedAfterMove ==
  ASSUME NEW p, p \in Seq(ToSet(p)), NEW r, NEW a, NEW c, NEW q, NEW a2, NEW c2, NEW q2,
         IsAt(p, a, c, q), IsAt(p, a2, c2, q2), Moves(r, p, a, c, q, a2, c2, q2)
  PROVE  /\ CallsOf(p, "hardware", a - 1) \in Nat
         /\ Reached(p, a2, c2) = Reached(p, a, c) + (IF c = "ready" /\ c2 = "barrier" THEN 1 ELSE 0)
         /\ CallsOf(p, "hardware", a2 - 1)
              = CallsOf(p, "hardware", a - 1) + (IF c = "barrier" /\ a2 # a THEN 1 ELSE 0)
<1>1. Len(p) \in Nat /\ a \in Nat \ {0} /\ a - 1 \in Nat /\ (a + 1) - 1 = a /\ a + 1 # a
  <2>1. Len(p) \in Nat /\ a \in 1 .. Len(p) + 1
    BY LenProperties DEF IsAt
  <2> QED BY <2>1
<1> DEFINE H(n) == CallsOf(p, "hardware", n)
<1>2. H(a - 1) \in Nat
  BY <1>1, CountingCalls
<1>3. H(a) = H(a - 1) + (IF p[a].op = "hardware" THEN 1 ELSE 0)
  BY <1>1, CountingCalls
<1>4. CASE a2 = a
  <2>1. c = "barrier" <=> (c2 = "barrier" /\ ~(c = "ready"))
    BY <1>1, <1>4 DEF Moves
  <2>2. H(a2 - 1) = H(a - 1)
    BY <1>4
  <2> HIDE DEF H
  <2>3. H(a2 - 1) + InBarrier(c2) = H(a - 1) + InBarrier(c) + (IF c = "ready" /\ c2 = "barrier" THEN 1 ELSE 0)
    BY <1>2, <2>1, <2>2 DEF InBarrier
  <2> QED BY <1>2, <1>4, <2>2, <2>3 DEF H, Reached
<1>5. CASE a2 # a
  <2>1. a2 = a + 1 /\ c2 = "ready" /\ (c = "barrier" \/ c \in {"data", "unpack"} \/ p[a].op = "dispatch")
    BY <1>5 DEF Moves
  <2>2. p[a].op = "hardware" <=> c = "barrier"
    BY <2>1 DEF IsAt, OpOf
  <2>3. H(a2 - 1) = H(a - 1) + (IF c = "barrier" THEN 1 ELSE 0)
    BY <1>1, <1>2, <1>3, <2>1, <2>2
  <2> HIDE DEF H
  <2>4. H(a2 - 1) + InBarrier(c2) = H(a - 1) + InBarrier(c) + (IF c = "ready" /\ c2 = "barrier" THEN 1 ELSE 0)
    BY <1>2, <2>1, <2>3 DEF InBarrier
  <2> QED BY <1>2, <1>5, <2>3, <2>4 DEF H, Reached
<1> QED BY <1>4, <1>5

(* A rank that has passed through more collectives than one in a barrier,  *)
(* or stands in the same one, has reached the hardware call of that one.   *)
LEMMA BarrierIsShared ==
  ASSUME NEW p, p \in Seq(ToSet(p)), NEW a, NEW q, NEW b, NEW d, NEW x,
         IsAt(p, a, "barrier", q), IsAt(p, b, d, x), x > q \/ (x = q /\ d = "barrier")
  PROVE  CallsOf(p, "hardware", a - 1) + 1 <= Reached(p, b, d)
<1>1. /\ Len(p) \in Nat /\ a \in Nat \ {0} /\ b \in Nat \ {0} /\ a - 1 \in Nat /\ b - 1 \in Nat
      /\ (b > a => a <= b - 1) /\ (a > b => b <= a - 1) /\ (a = b \/ a < b \/ b < a)
  <2>1. Len(p) \in Nat /\ a \in 1 .. Len(p) + 1 /\ b \in 1 .. Len(p) + 1
    BY LenProperties DEF IsAt
  <2> QED BY <2>1
<1>2. q = Collectives(p, a - 1) /\ p[a].op = "hardware"
  BY <1>1, CountingCollectives DEF IsAt, PassedInCall, OpOf
<1>3. Collectives(p, a) = Collectives(p, a - 1) + 1 /\ Collectives(p, a - 1) \in Nat
  BY <1>1, <1>2, CountingCollectives
<1>4. CallsOf(p, "hardware", a) = CallsOf(p, "hardware", a - 1) + 1 /\ CallsOf(p, "hardware", a - 1) \in Nat
  BY <1>1, <1>2, CountingCalls
<1>5. /\ x = Collectives(p, b - 1) + PassedInCall(d) /\ Collectives(p, b - 1) \in Nat
      /\ CallsOf(p, "hardware", b - 1) \in Nat
  BY <1>1, CountingCollectives, CountingCalls DEF IsAt
<1>6. CASE a = b
  <2>1. d = "barrier"
    <3>1. d \notin {"data", "unpack"}
      BY <1>2, <1>6 DEF IsAt, OpOf
    <3>2. x = q
      BY <1>2, <1>5, <1>6, <3>1 DEF PassedInCall
    <3> QED BY <1>2, <1>3, <3>2
  <2> QED BY <1>4, <1>6, <2>1 DEF Reached, InBarrier
<1>7. CASE a < b
  <2>1. CallsOf(p, "hardware", a) <= CallsOf(p, "hardware", b - 1)
    <3>1. a <= b - 1
      BY <1>1, <1>7
    <3> QED BY <1>1, <3>1, CountingCalls
  <2> QED BY <1>4, <1>5, <2>1 DEF Reached, InBarrier
<1>8. CASE b < a
  <2>1. Collectives(p, b) <= Collectives(p, a - 1)
    <3>1. b <= a - 1
      BY <1>1, <1>8
    <3> QED BY <1>1, <3>1, CountingCollectives
  <2>2. Collectives(p, b) = Collectives(p, b - 1)
          + (IF p[b].op = "kernel" THEN 2 ELSE IF p[b].op = "hardware" THEN 1 ELSE 0)
    BY <1>1, CountingCollectives
  <2>3. CASE d = "barrier"
    <3>1. Collectives(p, b) = Collectives(p, b - 1) + 1 /\ x = Collectives(p, b - 1)
      BY <1>5, <2>2, <2>3 DEF IsAt, OpOf, PassedInCall
    <3> QED BY <1>2, <1>3, <1>5, <2>1, <3>1
  <2>4. CASE d \in {"data", "unpack"}
    <3>1. Collectives(p, b) = Collectives(p, b - 1) + 2 /\ x \in Int /\ x <= Collectives(p, b - 1) + 2
      BY <1>5, <2>2, <2>4 DEF IsAt, OpOf, PassedInCall
    <3>2. x > q
      BY <2>4
    <3> QED BY <1>2, <1>3, <1>5, <2>1, <3>1, <3>2
  <2>5. CASE d \notin {"barrier", "data", "unpack"}
    <3>1. x = Collectives(p, b - 1)
      BY <1>5, <2>5 DEF PassedInCall
    <3>2. Collectives(p, b - 1) <= Collectives(p, a - 1)
      <4>1. b - 1 <= a - 1
        BY <1>1, <1>8
      <4> QED BY <1>1, <4>1, CountingCollectives
    <3> QED BY <1>2, <1>3, <1>5, <2>5, <3>1, <3>2
  <2> QED BY <2>3, <2>4, <2>5
<1> QED BY <1>1, <1>6, <1>7, <1>8

(* No rank gets ahead of a hardware call that another one has not reached. *)
LEMMA BarrierKept ==
  ASSUME NEW r \in Ranks, Step(r), SyncInv, PlacesInv'
  PROVE  BarrierInv'
<1> DEFINE H(s) == CallsOf(program, "hardware", at[s] - 1)
           N(s) == Reached(program, at[s], pc[s])
           H2(s) == CallsOf(program, "hardware", at'[s] - 1)
           N2(s) == Reached(program, at'[s], pc'[s])
<1>1. /\ program' = program
      /\ \A s \in Ranks \ {r} : at'[s] = at[s] /\ pc'[s] = pc[s] /\ passed'[s] = passed[s]
      /\ Moves(r, program, at[r], pc[r], passed[r], at'[r], pc'[r], passed'[r])
      /\ pc[r] = "barrier" => AllInBarrier(r) \/ at'[r] = at[r]
      /\ dispatched' = IF r = 0 /\ pc'[r] = "barrier" /\ pc[r] = "ready"
                       THEN dispatched + 1 ELSE dispatched
  BY PlacesOfStep
<1>2. /\ program \in Seq(ToSet(program))
      /\ \A s \in Ranks : IsAt(program, at[s], pc[s], passed[s])
  BY ProgramIsSeq DEF SyncInv, PlacesInv
<1>3. IsAt(program, at'[r], pc'[r], passed'[r])
  BY <1>1 DEF PlacesInv
<1>4. /\ H(r) \in Nat
      /\ N2(r) = N(r) + (IF pc[r] = "ready" /\ pc'[r] = "barrier" THEN 1 ELSE 0)
      /\ H2(r) = H(r) + (IF pc[r] = "barrier" /\ at'[r] # at[r] THEN 1 ELSE 0)
  BY <1>1, <1>2, <1>3, ReachedAfterMove
<1>5. \A s \in Ranks : H(s) \in Nat /\ N(s) \in Nat
  <2> TAKE s \in Ranks
  <2>1. at[s] - 1 \in Nat
    <3>1. at[s] \in Nat \ {0}
      BY DEF SyncInv, PlacesInv
    <3> QED BY <3>1
  <2>2. H(s) \in Nat
    BY <2>1, CountingCalls
  <2> QED BY <2>2 DEF Reached, InBarrier
<1>6. dispatched = N(0) /\ \A s, t \in Ranks : H(s) <= N(t)
  BY DEF SyncInv, BarrierInv
<1>7. \A s \in Ranks \ {r} : H2(s) = H(s) /\ N2(s) = N(s)
  BY <1>1
<1>8. ASSUME pc[r] = "barrier", at'[r] # at[r], NEW s \in Ranks
      PROVE  H(r) + 1 <= N(s)
  <2>1. passed[s] > passed[r] \/ (passed[s] = passed[r] /\ pc[s] = "barrier")
    BY <1>1, <1>8 DEF AllInBarrier
  <2>2. IsAt(program, at[r], "barrier", passed[r]) /\ IsAt(program, at[s], pc[s], passed[s])
    BY <1>2, <1>8
  <2> QED BY <1>2, <2>1, <2>2, BarrierIsShared
<1>9. dispatched' = N2(0)
  <2>1. CASE r = 0
    BY <1>1, <1>4, <1>5, <1>6, <2>1, RanksAssumption
  <2>2. CASE r # 0
    BY <1>1, <1>6, <1>7, <2>2, RanksAssumption
  <2> QED BY <2>1, <2>2
<1>10. ASSUME NEW s \in Ranks, NEW t \in Ranks
       PROVE  H2(s) <= N2(t)
  <2> HIDE DEF H, N, H2, N2
  <2>1. N(t) <= N2(t)
    BY <1>4, <1>5, <1>7
  <2>2. H2(s) <= N(t)
    <3>1. CASE s = r /\ pc[r] = "barrier" /\ at'[r] # at[r]
      BY <1>4, <1>8, <3>1
    <3>2. CASE ~(s = r /\ pc[r] = "barrier" /\ at'[r] # at[r])
      <4>1. H2(s) = H(s)
        BY <1>4, <1>5, <1>7, <3>2
      <4> QED BY <1>6, <4>1
    <3> QED BY <3>1, <3>2
  <2>3. H2(s) \in Nat /\ N2(t) \in Nat /\ N(t) \in Nat
    BY <1>4, <1>5, <1>7
  <2> QED BY <2>1, <2>2, <2>3
<1> QED BY <1>1, <1>9, <1>10 DEF BarrierInv

(***************************************************************************)
(* Where the ranks are, and that none is ahead of a barrier, holds         *)
(* throughout.                                                             *)
(***************************************************************************)
THEOREM RanksAreCounted == Runtime => []SyncInv
<1>1. Init => SyncInv
  <2> SUFFICES ASSUME Init PROVE SyncInv
    OBVIOUS
  <2>1. program \in Seq(ToSet(program)) /\ Len(program) \in Nat
    BY ProgramsAssumption, LenProperties DEF Init
  <2>2. Collectives(program, 0) = 0 /\ CallsOf(program, "hardware", 0) = 0
    BY CountingCollectives, CountingCalls
  <2>3. 1 - 1 = 0 /\ 1 \in 1 .. Len(program) + 1
    BY <2>1
  <2>4. IsAt(program, 1, "ready", 0)
    BY <2>2, <2>3 DEF IsAt, Labels, PassedInCall
  <2>5. Reached(program, 1, "ready") = 0
    BY <2>2, <2>3 DEF Reached, InBarrier
  <2>6. PlacesInv
    BY <2>4, RanksAssumption DEF Init, PlacesInv, Labels
  <2>7. BarrierInv
    BY <2>2, <2>3, <2>5, RanksAssumption DEF Init, BarrierInv
  <2> QED BY <2>6, <2>7 DEF SyncInv
<1>2. SyncInv /\ [Next]_vars => SyncInv'
  <2> SUFFICES ASSUME SyncInv, [Next]_vars PROVE SyncInv'
    OBVIOUS
  <2>1. ASSUME NEW r \in Ranks, Step(r) PROVE SyncInv'
    BY <2>1, PlacesKept, BarrierKept DEF SyncInv
  <2>2. CASE UNCHANGED vars
    BY <2>2 DEF vars, SyncInv, PlacesInv, BarrierInv
  <2> QED BY <2>1, <2>2 DEF Next
<1> QED BY <1>1, <1>2, PTL DEF Runtime

(***************************************************************************)
(* No rank returns from a hardware call before the root has dispatched it  *)
(* and every rank has reached it, whatever the ranks and their programs.   *)
(***************************************************************************)
THEOREM NoReturnBeforeDispatch == Runtime => []DispatchedBeforeReturn
<1>1. SyncInv => DispatchedBeforeReturn
  <2> SUFFICES ASSUME SyncInv PROVE DispatchedBeforeReturn
    OBVIOUS
  <2>1. \A n : HardwareCalls(n) = CallsOf(program, "hardware", n)
    BY DEF HardwareCalls, CallsOf
  <2>2. 0 \in Ranks
    BY RanksAssumption
  <2>3. ASSUME NEW r \in Ranks, NEW s \in Ranks
        PROVE  HardwareCalls(at[r] - 1) <= HardwareCalls(at[s] - 1) + (IF pc[s] = "barrier" THEN 1 ELSE 0)
    BY <2>1 DEF SyncInv, BarrierInv, Reached, InBarrier
  <2>4. ASSUME NEW r \in Ranks
        PROVE  HardwareCalls(at[r] - 1) <= dispatched
    BY <2>1, <2>2 DEF SyncInv, BarrierInv
  <2> QED BY <2>3, <2>4 DEF DispatchedBeforeReturn
<1> QED BY <1>1, RanksAreCounted, PTL

----------------------------------------------------------------------------

Byte == 0 .. 255

(* The bytes an entry is sent as.                                          *)
Packed(e) == IntBytes(Len(e.bits)) \o IntBytes(e.count) \o e.bits \o <<0>>

(* An int that is not negative is a natural number.                        *)
LEMMA CountsAreNatural == MaxInt \in Nat /\ Count \subseteq Nat
<1>1. MaxInt \in Nat
  BY SMT DEF MaxInt
<1> QED BY <1>1, SMT DEF Count

(* An int goes through its four bytes unchanged.                           *)
LEMMA IntRoundTrip ==
  ASSUME NEW buf \in Seq(Byte), NEW off \in Nat, NEW v \in Count, off + 4 <= Len(buf),
         \A k \in 1 .. 4 : buf[off + k] = IntBytes(v)[k]
  PROVE  HasInt(buf, off) /\ IntAt(buf, off) = v
<1>1. HasInt(buf, off)
  BY DEF HasInt
<1> DEFINE b1 == v % 256
           b2 == (v \div 256) % 256
           b3 == (v \div 65536) % 256
           b4 == (v \div 16777216) % 256
<1>2. IntBytes(v)[1] = b1 /\ IntBytes(v)[2] = b2 /\ IntBytes(v)[3] = b3 /\ IntBytes(v)[4] = b4
  BY SMT DEF IntBytes
<1>3. buf[off + 1] = b1 /\ buf[off + 2] = b2 /\ buf[off + 3] = b3 /\ buf[off + 4] = b4
  <2> HIDE DEF b1, b2, b3, b4
  <2> QED BY <1>2
<1>4. b4 < 128 /\ b1 + 256 * b2 + 65536 * b3 + 16777216 * b4 = v
  <2>1. MaxInt \in Int /\ v \in Int /\ 0 <= v /\ v <= MaxInt
    BY CountsAreNatural, SMT DEF Count
  <2>2. v <= 2147483647
    BY <2>1, SMT DEF MaxInt
  <2> QED BY <2>1, <2>2, SMT
<1> HIDE DEF b1, b2, b3, b4
<1> QED BY <1>1, <1>3, <1>4, SMT DEF IntAt

LEMMA IntBytesAreFour ==
  ASSUME NEW v \in Count
  PROVE  IntBytes(v) \in Seq(Byte) /\ Len(IntBytes(v)) = 4
<1>1. /\ v % 256 \in Byte /\ (v \div 256) % 256 \in Byte
      /\ (v \div 65536) % 256 \in Byte /\ (v \div 16777216) % 256 \in Byte
  <2>1. v \in Int
    BY DEF Count
  <2>2. v \div 256 \in Int /\ v \div 65536 \in Int /\ v \div 16777216 \in Int
    BY <2>1, SMT
  <2>3. \A w \in Int : w % 256 \in Byte
    BY SMT DEF Byte
  <2> QED BY <2>1, <2>2, <2>3
<1> QED BY <1>1, SMT DEF IntBytes

(* The layout of the bytes of an entry.                                    *)
LEMMA PackedEntry ==
  ASSUME NEW e \in Entries
  PROVE  /\ e.bits \in Seq(1 .. 255) /\ Len(e.bits) \in Count /\ e.count \in Count
         /\ Len(e.bits) <= MaxBits - 1
         /\ Packed(e) \in Seq(Byte) /\ Len(Packed(e)) = Len(e.bits) + 9
         /\ \A k \in 1 .. 4 : Packed(e)[k] = IntBytes(Len(e.bits))[k]
         /\ \A k \in 1 .. 4 : Packed(e)[4 + k] = IntBytes(e.count)[k]
         /\ \A k \in 1 .. Len(e.bits) : Packed(e)[8 + k] = e.bits[k]
         /\ Packed(e)[9 + Len(e.bits)] = 0
<1> DEFINE n == Len(e.bits)
           A == IntBytes(n)
           B == IntBytes(e.count)
           AB == A \o B
           ABC == AB \o e.bits
<1>1. /\ e.bits \in Seq(1 .. 255) /\ n \in Count /\ e.count \in Count /\ n <= MaxBits - 1
  <2>1. e.bits \in Seq(1 .. 255) /\ e.count \in Count /\ n + 1 <= MaxBits /\ n \in Nat
    BY LenProperties DEF Entries, Fits
  <2>2. n <= MaxInt /\ n <= MaxBits - 1 /\ MaxInt \in Nat
    BY <2>1, MaxBitsAssumption, SMT DEF MaxInt
  <2> QED BY <2>1, <2>2, SMT DEF Count
<1>2. /\ A \in Seq(Byte) /\ Len(A) = 4 /\ B \in Seq(Byte) /\ Len(B) = 4
  <2> HIDE DEF n
  <2> QED BY <1>1, IntBytesAreFour
<1>3. e.bits \in Seq(Byte) /\ n \in Nat
  <2>1. 1 .. 255 \subseteq Byte
    BY DEF Byte
  <2> QED BY <1>1, <2>1, SeqMonotonic, CountsAreNatural
<1>4. <<0>> \in Seq(Byte) /\ Len(<<0>>) = 1 /\ <<0>>[1] = 0
  BY DEF Byte
<1>5. /\ AB \in Seq(Byte) /\ Len(AB) = 8
      /\ \A i \in 1 .. 8 : AB[i] = IF i <= 4 THEN A[i] ELSE B[i - 4]
  <2> HIDE DEF A, B
  <2>1. A \o B \in Seq(Byte) /\ Len(A \o B) = Len(A) + Len(B)
        /\ \A i \in 1 .. Len(A) + Len(B) : (A \o B)[i] = IF i <= Len(A) THEN A[i] ELSE B[i - Len(A)]
    BY <1>2, ConcatProperties
  <2> QED BY <1>2, <2>1
<1>6. /\ ABC \in Seq(Byte) /\ Len(ABC) = 8 + n
      /\ \A i \in 1 .. 8 + n : ABC[i] = IF i <= 8 THEN AB[i] ELSE e.bits[i - 8]
  <2> HIDE DEF AB
  <2>1. AB \o e.bits \in Seq(Byte) /\ Len(AB \o e.bits) = Len(AB) + Len(e.bits)
        /\ \A i \in 1 .. Len(AB) + Len(e.bits) :
             (AB \o e.bits)[i] = IF i <= Len(AB) THEN AB[i] ELSE e.bits[i - Len(AB)]
    BY <1>3, <1>5, ConcatProperties
  <2> QED BY <1>5, <2>1
<1>7. /\ Packed(e) \in Seq(Byte) /\ Len(Packed(e)) = n + 9
      /\ \A i \in 1 .. 9 + n : Packed(e)[i] = IF i <= 8 + n THEN ABC[i] ELSE 0
  <2>1. Packed(e) = ABC \o <<0>>
    BY DEF Packed
  <2> HIDE DEF ABC
  <2>2. ABC \o <<0>> \in Seq(Byte) /\ Len(ABC \o <<0>>) = Len(ABC) + Len(<<0>>)
        /\ \A i \in 1 .. Len(ABC) + Len(<<0>>) :
             (ABC \o <<0>>)[i] = IF i <= Len(ABC) THEN ABC[i] ELSE <<0>>[i - Len(ABC)]
    BY <1>4, <1>6, ConcatProperties
  <2>3. ASSUME NEW i \in 1 .. 9 + n PROVE Packed(e)[i] = IF i <= 8 + n THEN ABC[i] ELSE 0
    <3>1. CASE i <= 8 + n
      BY <1>3, <1>4, <1>6, <2>1, <2>2, <3>1
    <3>2. CASE ~(i <= 8 + n)
      <4>1. i = 9 + n /\ i - Len(ABC) = 1 /\ i \in 1 .. Len(ABC) + Len(<<0>>) /\ ~(i <= Len(ABC))
        BY <1>3, <1>4, <1>6, <3>2
      <4> QED BY <1>4, <2>1, <2>2, <3>2, <4>1
    <3> QED BY <3>1, <3>2
  <2> QED BY <1>3, <1>4, <1>6, <2>1, <2>2, <2>3
<1> HIDE DEF n, A, B, AB, ABC
<1>8. \A k \in 1 .. 4 : Packed(e)[k] = A[k]
  BY <1>3, <1>5, <1>6, <1>7
<1>9. ASSUME NEW k \in 1 .. 4 PROVE Packed(e)[4 + k] = B[k]
  <2>1. 4 + k \in 1 .. 8 /\ ~(4 + k <= 4) /\ (4 + k) - 4 = k /\ 4 + k \in 1 .. 8 + n /\ 4 + k \in 1 .. 9 + n
    BY <1>3
  <2> QED BY <1>3, <1>5, <1>6, <1>7, <2>1
<1>10. ASSUME NEW k \in 1 .. n PROVE Packed(e)[8 + k] = e.bits[k]
  <2>1. 8 + k \in 1 .. 8 + n /\ ~(8 + k <= 8) /\ (8 + k) - 8 = k /\ 8 + k \in 1 .. 9 + n
    BY <1>3
  <2> QED BY <1>3, <1>6, <1>7, <2>1
<1>11. Packed(e)[9 + n] = 0
  BY <1>3, <1>7
<1> QED BY <1>1, <1>7, <1>8, <1>9, <1>10, <1>11 DEF n, A, B

(* Where the bytes of an entry lie in a buffer, that entry is read.        *)
LEMMA EntryRoundTrip ==
  ASSUME NEW buf \in Seq(Byte), NEW off \in Nat, NEW e \in Entries,
         off + Len(e.bits) + 9 <= Len(buf),
         \A k \in 1 .. Len(e.bits) + 9 : buf[off + k] = Packed(e)[k]
  PROVE  EntryAt(buf, off) = <<e>> /\ IntAt(buf, off) = Len(e.bits)
<1> DEFINE n == Len(e.bits)
<1>1. /\ e.bits \in Seq(1 .. 255) /\ n \in Count /\ e.count \in Count /\ n <= MaxBits - 1
      /\ \A k \in 1 .. 4 : Packed(e)[k] = IntBytes(n)[k]
      /\ \A k \in 1 .. 4 : Packed(e)[4 + k] = IntBytes(e.count)[k]
      /\ \A k \in 1 .. n : Packed(e)[8 + k] = e.bits[k]
  BY PackedEntry
<1>2. /\ n \in Nat /\ Len(buf) \in Nat
      /\ off + n + 9 <= Len(buf) /\ \A k \in 1 .. n + 9 : buf[off + k] = Packed(e)[k]
  BY <1>1, LenProperties, CountsAreNatural
<1> HIDE DEF n
<1>3. HasInt(buf, off) /\ IntAt(buf, off) = n
  <2>1. \A k \in 1 .. 4 : buf[off + k] = IntBytes(n)[k]
    BY <1>1, <1>2
  <2>2. off + 4 <= Len(buf)
    BY <1>2
  <2> QED BY <1>1, <2>1, <2>2, IntRoundTrip
<1>4. HasInt(buf, off + 4) /\ IntAt(buf, off + 4) = e.count
  <2>1. ASSUME NEW k \in 1 .. 4 PROVE buf[(off + 4) + k] = IntBytes(e.count)[k]
    <3>1. (off + 4) + k = off + (4 + k) /\ 4 + k \in 1 .. n + 9
      BY <1>2
    <3> QED BY <1>1, <1>2, <3>1
  <2>2. (off + 4) + 4 <= Len(buf) /\ off + 4 \in Nat
    BY <1>2
  <2> QED BY <1>1, <2>1, <2>2, IntRoundTrip
<1>5. n \in 0 .. (MaxBits - 1) /\ off + 8 + n + 1 <= Len(buf)
  <2>1. MaxBits \in Nat \ {0}
    BY MaxBitsAssumption, SMT
  <2> QED BY <1>1, <1>2, <2>1
<1> DEFINE bits == SubSeq(buf, off + 9, off + 8 + n)
<1>6. bits = e.bits
  <2>1. /\ bits \in Seq(Byte)
        /\ Len(bits) = IF off + 9 <= off + 8 + n THEN (off + 8 + n) - (off + 9) + 1 ELSE 0
        /\ \A k \in 1 .. (off + 8 + n) - (off + 9) + 1 : bits[k] = buf[(off + 9) + k - 1]
    <3>1. off + 9 \in 1 .. Len(buf) + 1 /\ off + 8 + n \in 0 .. Len(buf)
      BY <1>2, <1>5
    <3> QED BY <3>1, SubSeqProperties
  <2>2. Len(bits) = n
    BY <1>2, <2>1
  <2>3. ASSUME NEW k \in 1 .. n PROVE bits[k] = e.bits[k]
    <3>1. /\ k \in 1 .. (off + 8 + n) - (off + 9) + 1 /\ (off + 9) + k - 1 = off + (8 + k)
          /\ 8 + k \in 1 .. n + 9
      BY <1>2, SMT
    <3>2. bits[k] = buf[off + (8 + k)]
      BY <2>1, <3>1
    <3> QED BY <1>1, <1>2, <3>1, <3>2
  <2>4. e.bits \in Seq(Byte)
    <3>1. 1 .. 255 \subseteq Byte
      BY DEF Byte
    <3> QED BY <1>1, <3>1, SeqMonotonic
  <2> HIDE DEF bits
  <2> QED BY <2>1, <2>2, <2>3, <2>4, SeqEqual DEF n
<1>7. CString(e.bits) = e.bits
  <2>1. { k \in DOMAIN e.bits : e.bits[k] = 0 } = {}
    <3>1. DOMAIN e.bits = 1 .. Len(e.bits)
      BY <1>1, LenProperties
    <3>2. ASSUME NEW k \in 1 .. Len(e.bits) PROVE e.bits[k] \in 1 .. 255
      BY <1>1, ElementOfSeq
    <3>3. \A z \in 1 .. 255 : z # 0
      OBVIOUS
    <3>4. \A k \in DOMAIN e.bits : e.bits[k] # 0
      <4> HIDE DEF n
      <4> QED BY <3>1, <3>2, <3>3, Zenon
    <3> QED BY <3>4
  <2> QED BY <2>1 DEF CString
<1>8. [bits |-> e.bits, count |-> e.count] = e
  BY DEF Entries
<1>9. EntryAt(buf, off) = << [bits |-> CString(bits), count |-> e.count] >>
  BY <1>3, <1>4, <1>5 DEF EntryAt
<1> QED BY <1>3, <1>6, <1>7, <1>8, <1>9 DEF n

(* FlattenSeq(s), and what it is after each element of s.                  *)
IsFlattening(s, g) ==
  /\ g \in [0 .. Len(s) -> Seq(Byte)] /\ g[0] = <<>>
  /\ \A k \in 1 .. Len(s) : g[k] = g[k - 1] \o s[k]

LEMMA FlatteningExists ==
  ASSUME NEW s \in Seq(Seq(Byte))
  PROVE  \E g : IsFlattening(s, g) /\ FlattenSeq(s) = g[Len(s)]
<1> DEFINE n == Len(s)
           S == Seq(Byte)
           step == [k \in 1 .. n |-> [x \in S |-> x \o s[k]]]
<1>1. n \in Nat /\ DOMAIN s = 1 .. n /\ \A k \in 1 .. n : s[k] \in S
  BY LenProperties, ElementOfSeq
<1>2. <<>> \in S
  OBVIOUS
<1>3. \A k \in 1 .. n : \A x \in S : x \o s[k] \in S
  <2> TAKE k \in 1 .. n
  <2> TAKE x \in S
  <2> QED BY <1>1, ConcatProperties
<1>4. step \in [1 .. n -> [S -> S]]
  <2> HIDE DEF n, S
  <2> QED BY <1>3
<1>5. PICK g \in [0 .. n -> S] : g[0] = <<>> /\ \A k \in 1 .. n : g[k] = step[k][g[k - 1]]
  <2>1. \E g \in [0 .. n -> S] : Iterates(n, <<>>, step, g)
    <3> HIDE DEF n, S, step
    <3> QED BY <1>1, <1>2, <1>4, IterationExists, Zenon
  <2> HIDE DEF n, S, step
  <2> QED BY <2>1 DEF Iterates
<1>6. \A k \in 1 .. n : g[k] = g[k - 1] \o s[k]
  <2> TAKE k \in 1 .. n
  <2>1. k - 1 \in 0 .. n /\ g[k - 1] \in S
    <3> HIDE DEF n, S
    <3> QED BY <1>1
  <2>2. step[k][g[k - 1]] = g[k - 1] \o s[k]
    <3> HIDE DEF n, S
    <3> QED BY <2>1
  <2> QED BY <1>5, <2>2
<1>7. IsFlattening(s, g)
  BY <1>5, <1>6 DEF IsFlattening
<1>8. FlattenSeq(s) = g[n]
  <2>1. CASE n = 0
    <3>1. s = <<>>
      BY <1>1, <2>1, EmptySeq
    <3> QED BY <1>5, <2>1, <3>1 DEF FlattenSeq
  <2>2. CASE n # 0
    <3> DEFINE IsF(f) == f = [i \in 1 .. n |-> IF i = 1 THEN s[i] ELSE f[i - 1] \o s[i]]
               h == [i \in 1 .. n |-> g[i]]
               F == CHOOSE f : IsF(f)
               T == { i \in 0 .. n : i = 0 \/ F[i] = g[i] }
    <3>1. g[1] = s[1]
      <4>1. 1 \in 1 .. n /\ 1 - 1 = 0
        BY <1>1, <2>2
      <4>2. g[1] = g[0] \o s[1]
        BY <1>6, <4>1
      <4> QED BY <1>1, <1>5, <4>1, <4>2, ConcatEmptySeq
    <3>2. IsF(h)
      <4>1. ASSUME NEW i \in 1 .. n
            PROVE  h[i] = IF i = 1 THEN s[i] ELSE h[i - 1] \o s[i]
        <5>1. CASE i = 1
          BY <3>1, <5>1
        <5>2. CASE i # 1
          <6>1. i - 1 \in 1 .. n
            BY <1>1, <5>2
          <6> QED BY <1>6, <5>2, <6>1
        <5> QED BY <5>1, <5>2
      <4>2. h = [i \in 1 .. n |-> h[i]]
        OBVIOUS
      <4> HIDE DEF h
      <4>3. \A x, y, z \in Nat : x <= y => x <= y + z
        OBVIOUS
      <4> QED BY <4>1, <4>2, <4>3
    <3>3. IsF(F)
      <4> HIDE DEF IsF
      <4> QED BY <3>2, Zenon
    <3>4. \A k \in 1 .. n : k - 1 \in T => k \in T
      <4> TAKE k \in 1 .. n
      <4> HAVE k - 1 \in T
      <4>1. F[k] = IF k = 1 THEN s[k] ELSE F[k - 1] \o s[k]
        <5> HIDE DEF F
        <5> QED BY <3>3
      <4>2. k \in 0 .. n
        BY <1>1
      <4>3. CASE k = 1
        BY <3>1, <4>1, <4>2, <4>3
      <4>4. CASE k # 1
        <5>1. F[k - 1] = g[k - 1]
          BY <1>1, <4>4
        <5> QED BY <1>6, <4>1, <4>2, <4>4, <5>1
      <4> QED BY <4>3, <4>4
    <3>5. 0 \in T
      BY <1>1
    <3>6. \A k \in 0 .. n : k \in T
      <4> HIDE DEF T, n
      <4> QED BY <1>1, <3>4, <3>5, CountingUp, Zenon
    <3>7. F[n] = g[n]
      <4> HIDE DEF F, n
      <4>1. n \in 0 .. n
        BY <1>1
      <4> QED BY <2>2, <3>6, <4>1
    <3>8. FlattenSeq(s) = F[n]
      BY <2>2, Zenon DEF FlattenSeq
    <3> QED BY <3>7, <3>8
  <2> QED BY <2>1, <2>2
<1> QED BY <1>7, <1>8

(* The bytes of each element lie behind those of the elements before it,   *)
(* and stay there.                                                         *)
LEMMA FlatteningKeepsElements ==
  ASSUME NEW s \in Seq(Seq(Byte)), NEW g, IsFlattening(s, g), NEW i \in 1 .. Len(s)
  PROVE  /\ g[i - 1] \in Seq(Byte) /\ Len(g[i]) = Len(g[i - 1]) + Len(s[i])
         /\ Len(g[i - 1]) + Len(s[i]) <= Len(g[Len(s)])
         /\ \A k \in 1 .. Len(s[i]) : g[Len(s)][Len(g[i - 1]) + k] = s[i][k]
<1> DEFINE n == Len(s)
           Keeps(j) == /\ Len(g[i]) <= Len(g[j])
                       /\ \A k \in 1 .. Len(g[i]) : g[j][k] = g[i][k]
           T == { j \in 0 .. n : j < i \/ Keeps(j) }
<1>1. /\ n \in Nat /\ i - 1 \in 0 .. n /\ i \in 0 .. n
      /\ \A j \in 1 .. n : s[j] \in Seq(Byte) /\ Len(s[j]) \in Nat
      /\ \A j \in 0 .. n : g[j] \in Seq(Byte) /\ Len(g[j]) \in Nat
  <2>1. n \in Nat
    BY LenProperties
  <2>2. \A j \in 1 .. n : s[j] \in Seq(Byte)
    BY ElementOfSeq
  <2>3. \A j \in 0 .. n : g[j] \in Seq(Byte)
    BY DEF IsFlattening
  <2>4. \A t \in Seq(Byte) : Len(t) \in Nat
    BY LenProperties
  <2>5. i \in 1 .. n
    OBVIOUS
  <2> HIDE DEF n
  <2> QED BY <2>1, <2>2, <2>3, <2>4, <2>5
<1>2. ASSUME NEW j \in 1 .. n
      PROVE  /\ Len(g[j]) = Len(g[j - 1]) + Len(s[j])
             /\ \A k \in 1 .. Len(g[j - 1]) : g[j][k] = g[j - 1][k]
             /\ \A k \in 1 .. Len(s[j]) : g[j][Len(g[j - 1]) + k] = s[j][k]
  <2>1. j - 1 \in 0 .. n
    BY <1>1
  <2>2. g[j - 1] \in Seq(Byte) /\ s[j] \in Seq(Byte) /\ Len(g[j - 1]) \in Nat /\ Len(s[j]) \in Nat
    BY <1>1, <2>1
  <2>3. g[j] = g[j - 1] \o s[j]
    BY DEF IsFlattening
  <2> DEFINE a == g[j - 1]
             b == s[j]
             c == g[j]
  <2>4. /\ Len(c) = Len(a) + Len(b)
        /\ \A k \in 1 .. Len(a) + Len(b) : c[k] = IF k <= Len(a) THEN a[k] ELSE b[k - Len(a)]
    <3>1. a \in Seq(Byte) /\ b \in Seq(Byte) /\ c = a \o b
      BY <2>2, <2>3
    <3> HIDE DEF a, b, c
    <3> QED BY <3>1, ConcatProperties
  <2>5. ASSUME NEW k \in 1 .. Len(b) PROVE c[Len(a) + k] = b[k]
    <3> HIDE DEF a, b, c
    <3>1. Len(a) \in Nat /\ Len(b) \in Nat
      BY <2>2 DEF a, b
    <3>2. Len(a) + k \in 1 .. Len(a) + Len(b) /\ ~(Len(a) + k <= Len(a)) /\ (Len(a) + k) - Len(a) = k
      BY <3>1
    <3> QED BY <2>4, <3>2
  <2>6. ASSUME NEW k \in 1 .. Len(a) PROVE c[k] = a[k]
    <3> HIDE DEF a, b, c
    <3>1. Len(a) \in Nat /\ Len(b) \in Nat
      BY <2>2 DEF a, b
    <3>2. k \in 1 .. Len(a) + Len(b) /\ k <= Len(a)
      BY <3>1
    <3> QED BY <2>4, <3>2
  <2> QED BY <2>4, <2>5, <2>6
<1>3. \A j \in 1 .. n : j - 1 \in T => j \in T
  <2> TAKE j \in 1 .. n
  <2> HAVE j - 1 \in T
  <2>1. j \in 0 .. n /\ j - 1 \in 0 .. n
    BY <1>1
  <2>2. CASE j < i
    BY <2>1, <2>2
  <2>3. CASE j = i
    BY <1>1, <2>1, <2>3
  <2>4. CASE j > i
    <3>1. Keeps(j - 1)
      BY <1>1, <2>1, <2>4
    <3>2. Len(g[j]) = Len(g[j - 1]) + Len(s[j]) /\ \A k \in 1 .. Len(g[j - 1]) : g[j][k] = g[j - 1][k]
      BY <1>2
    <3>3. Len(g[i]) <= Len(g[j])
      <4>1. Len(g[i]) \in Nat /\ Len(g[j]) \in Nat /\ Len(g[j - 1]) \in Nat /\ Len(s[j]) \in Nat
        BY <1>1, <2>1
      <4>2. Len(g[i]) <= Len(g[j - 1]) /\ Len(g[j]) = Len(g[j - 1]) + Len(s[j])
        BY <3>1, <3>2
      <4>3. \A x, y, z \in Nat : x <= y => x <= y + z
        OBVIOUS
      <4> QED BY <4>1, <4>2, <4>3
    <3>4. ASSUME NEW k \in 1 .. Len(g[i]) PROVE g[j][k] = g[i][k]
      <4>1. k \in 1 .. Len(g[j - 1])
        BY <1>1, <2>1, <3>1
      <4> QED BY <3>1, <3>2, <4>1
    <3> QED BY <2>1, <3>3, <3>4
  <2> QED BY <1>1, <2>2, <2>3, <2>4
<1>4. 0 \in T
  BY <1>1
<1>5. \A j \in 0 .. n : j \in T
  <2> HIDE DEF T, n
  <2> QED BY <1>1, <1>3, <1>4, CountingUp, Zenon
<1>6. Keeps(n)
  <2>1. n \in T /\ ~(n < i)
    BY <1>1, <1>5
  <2> QED BY <2>1
<1>7. /\ Len(g[i]) = Len(g[i - 1]) + Len(s[i])
      /\ \A k \in 1 .. Len(s[i]) : g[i][Len(g[i - 1]) + k] = s[i][k]
  BY <1>2
<1>8. ASSUME NEW k \in 1 .. Len(s[i]) PROVE g[n][Len(g[i - 1]) + k] = s[i][k]
  <2>1. Len(g[i - 1]) \in Nat /\ Len(s[i]) \in Nat
    BY <1>1
  <2>2. Len(g[i - 1]) + k \in 1 .. Len(g[i])
    <3>1. \A x, y \in Nat : \A z \in 1 .. y : x + z \in 1 .. x + y
      OBVIOUS
    <3>2. Len(g[i - 1]) + k \in 1 .. Len(g[i - 1]) + Len(s[i])
      BY <2>1, <3>1
    <3> QED BY <1>7, <3>2
  <2> QED BY <1>6, <1>7, <2>2
<1> QED BY <1>1, <1>6, <1>7, <1>8

(* A buffer begins with the number of entries, and holds entry after entry.*)
LEMMA PackedHistogram ==
  ASSUME NEW h \in Histograms
  PROVE  /\ Pack(h) \in Seq(Byte)
         /\ IntAt(Pack(h), 0) = Len(h)
         /\ \E off \in [0 .. Len(h) -> Nat] :
              /\ off[0] = 4
              /\ \A i \in 1 .. Len(h) :
                   /\ off[i] = off[i - 1] + Len(h[i].bits) + 9
                   /\ EntryAt(Pack(h), off[i - 1]) = <<h[i]>>
                   /\ IntAt(Pack(h), off[i - 1]) = Len(h[i].bits)
<1> DEFINE n == Len(h)
           s == [i \in DOMAIN h |-> Packed(h[i])]
           A == IntBytes(n)
<1>1. /\ n \in Nat /\ n \in Count /\ DOMAIN h = 1 .. n
      /\ \A i \in 1 .. n : h[i] \in Entries
  BY LenProperties, ElementOfSeq, SMT DEF Histograms
<1>2. s \in Seq(Seq(Byte)) /\ Len(s) = n /\ \A i \in 1 .. n : s[i] = Packed(h[i])
  <2>1. \A i \in 1 .. n : Packed(h[i]) \in Seq(Byte)
    BY <1>1, PackedEntry
  <2>2. s = [i \in 1 .. n |-> Packed(h[i])]
    BY <1>1
  <2> HIDE DEF n
  <2> QED BY <1>1, <2>1, <2>2, IsASeq
<1>3. Pack(h) = A \o FlattenSeq(s)
  <2>1. s = [i \in DOMAIN h |->
              IF Fits(h[i])
              THEN IntBytes(Len(h[i].bits)) \o IntBytes(h[i].count) \o h[i].bits \o <<0>>
              ELSE IntBytes(0) \o IntBytes(0)]
    <3>1. \A i \in DOMAIN h : Fits(h[i])
      BY <1>1 DEF Entries
    <3> QED BY <3>1, Zenon DEF Packed
  <2> HIDE DEF s
  <2> QED BY <2>1, Zenon DEF Pack
<1> HIDE DEF s
<1>4. PICK g : IsFlattening(s, g) /\ FlattenSeq(s) = g[n]
  BY <1>2, FlatteningExists
<1>5. \A j \in 0 .. n : g[j] \in Seq(Byte) /\ Len(g[j]) \in Nat
  BY <1>2, <1>4, LenProperties DEF IsFlattening
<1>6. A \in Seq(Byte) /\ Len(A) = 4
  BY <1>1, IntBytesAreFour
<1> DEFINE buf == Pack(h)
           F == g[n]
<1>7. /\ buf \in Seq(Byte) /\ Len(buf) = 4 + Len(F) /\ Len(F) \in Nat
      /\ \A k \in 1 .. 4 : buf[k] = A[k]
      /\ \A k \in 1 .. Len(F) : buf[4 + k] = F[k]
  <2>1. F \in Seq(Byte) /\ Len(F) \in Nat /\ buf = A \o F
    BY <1>1, <1>3, <1>4, <1>5
  <2> HIDE DEF A, F, buf
  <2>2. /\ buf \in Seq(Byte) /\ Len(buf) = Len(A) + Len(F)
        /\ \A k \in 1 .. Len(A) + Len(F) : buf[k] = IF k <= Len(A) THEN A[k] ELSE F[k - Len(A)]
    BY <1>6, <2>1, ConcatProperties
  <2>3. ASSUME NEW k \in 1 .. Len(F) PROVE buf[4 + k] = F[k]
    <3>1. 4 + k \in 1 .. Len(A) + Len(F) /\ ~(4 + k <= Len(A)) /\ (4 + k) - Len(A) = k
      BY <1>6, <2>1
    <3> QED BY <2>2, <3>1
  <2>4. \A k \in 1 .. 4 : buf[k] = A[k]
    BY <1>6, <2>1, <2>2
  <2> QED BY <1>6, <2>1, <2>2, <2>3, <2>4
<1> HIDE DEF buf, F, A
<1>8. IntAt(buf, 0) = n
  <2>1. \A k \in 1 .. 4 : buf[0 + k] = IntBytes(n)[k]
    BY <1>7 DEF A
  <2> QED BY <1>1, <1>7, <2>1, IntRoundTrip
<1> DEFINE off == [i \in 0 .. n |-> 4 + Len(g[i])]
<1>9. off \in [0 .. n -> Nat] /\ off[0] = 4
  <2>1. Len(g[0]) = 0 /\ 0 \in 0 .. n
    BY <1>1, <1>4, EmptySeq DEF IsFlattening
  <2> QED BY <1>5, <2>1
<1>10. ASSUME NEW i \in 1 .. n
       PROVE  /\ off[i] = off[i - 1] + Len(h[i].bits) + 9
              /\ EntryAt(buf, off[i - 1]) = <<h[i]>>
              /\ IntAt(buf, off[i - 1]) = Len(h[i].bits)
  <2> DEFINE m == Len(h[i].bits)
             l == Len(g[i - 1])
  <2>1. /\ i - 1 \in 0 .. n /\ i \in 0 .. n /\ h[i] \in Entries /\ s[i] = Packed(h[i])
        /\ off[i - 1] = 4 + l /\ off[i] = 4 + Len(g[i]) /\ l \in Nat
    BY <1>1, <1>2, <1>5
  <2>2. Len(s[i]) = m + 9 /\ m \in Nat
    BY <2>1, PackedEntry, SMT DEF Count
  <2>3. /\ Len(g[i]) = l + Len(s[i])
        /\ l + Len(s[i]) <= Len(F)
        /\ \A k \in 1 .. Len(s[i]) : F[l + k] = s[i][k]
    <3>1. i \in 1 .. Len(s) /\ F = g[Len(s)]
      BY <1>2 DEF F
    <3> QED BY <1>2, <1>4, <3>1, FlatteningKeepsElements
  <2> HIDE DEF m, l, off
  <2>4. off[i] = off[i - 1] + m + 9
    BY <2>1, <2>2, <2>3
  <2>5. (4 + l) + m + 9 <= Len(buf)
    BY <1>7, <2>1, <2>2, <2>3
  <2>6. ASSUME NEW k \in 1 .. m + 9 PROVE buf[(4 + l) + k] = Packed(h[i])[k]
    <3>1. /\ l \in Nat /\ m \in Nat /\ Len(F) \in Nat /\ l + (m + 9) <= Len(F)
          /\ k \in Nat /\ 1 <= k /\ k <= m + 9
      BY <1>7, <2>1, <2>2, <2>3
    <3>3. (4 + l) + k = 4 + (l + k) /\ l + k \in 1 .. Len(F)
      BY <3>1
    <3>2. buf[4 + (l + k)] = F[l + k]
      BY <1>7, <3>3
    <3> QED BY <2>1, <2>2, <2>3, <3>2, <3>3
  <2>7. EntryAt(buf, 4 + l) = <<h[i]>> /\ IntAt(buf, 4 + l) = m
    <3>1. 4 + l \in Nat
      BY <2>1
    <3> QED BY <1>7, <2>1, <2>5, <2>6, <3>1, EntryRoundTrip DEF m
  <2> QED BY <2>1, <2>4, <2>7 DEF m
<1>11. /\ Pack(h) \in Seq(Byte) /\ IntAt(Pack(h), 0) = Len(h)
       /\ \A i \in 1 .. Len(h) :
            /\ off[i] = off[i - 1] + Len(h[i].bits) + 9
            /\ EntryAt(Pack(h), off[i - 1]) = <<h[i]>>
            /\ IntAt(Pack(h), off[i - 1]) = Len(h[i].bits)
  BY <1>7, <1>8, <1>10 DEF buf
<1> QED BY <1>9, <1>11

(* What is unpacked is what was packed.                                    *)
LEMMA HistogramRoundTrip ==
  ASSUME NEW h \in Histograms
  PROVE  Unpack(Pack(h)) = h
<1> DEFINE n == Len(h)
           buf == Pack(h)
           Reading(r, i) ==
             LET e == EntryAt(buf, r.off)
             IN  IF r.ok /\ e # <<>>
                 THEN [ok |-> TRUE, off |-> r.off + 9 + IntAt(buf, r.off), entries |-> r.entries \o e]
                 ELSE [r EXCEPT !.ok = FALSE]
           IsRead(f) ==
             f = [i \in 0 .. n |->
                    IF i = 0 THEN [ok |-> TRUE, off |-> 4, entries |-> <<>>]
                    ELSE Reading(f[i - 1], i)]
           R == CHOOSE f : IsRead(f)
<1>1. IntAt(buf, 0) = n
  BY PackedHistogram
<1>2. PICK off \in [0 .. n -> Nat] :
        /\ off[0] = 4
        /\ \A i \in 1 .. n : /\ off[i] = off[i - 1] + Len(h[i].bits) + 9
                             /\ EntryAt(buf, off[i - 1]) = <<h[i]>>
                             /\ IntAt(buf, off[i - 1]) = Len(h[i].bits)
  BY PackedHistogram
<1>3. /\ n \in Nat /\ h \in Seq(Entries) /\ DOMAIN h = 1 .. n
      /\ \A i \in 1 .. n : h[i] \in Entries /\ Len(h[i].bits) \in Nat
  BY LenProperties, ElementOfSeq, SMT DEF Histograms, Entries
<1>4. Unpack(buf) = IF R[n].ok THEN R[n].entries ELSE <<>>
  <2> HIDE DEF buf, n
  <2>1. Unpack(buf) = LET read == CHOOSE f :
                            f = [i \in 0 .. IntAt(buf, 0) |->
                                   IF i = 0 THEN [ok |-> TRUE, off |-> 4, entries |-> <<>>]
                                   ELSE LET r == f[i - 1]
                                            e == EntryAt(buf, r.off)
                                        IN  IF r.ok /\ e # <<>>
                                            THEN [ok |-> TRUE, off |-> r.off + 9 + IntAt(buf, r.off),
                                                  entries |-> r.entries \o e]
                                            ELSE [r EXCEPT !.ok = FALSE]]
                      IN  IF read[IntAt(buf, 0)].ok THEN read[IntAt(buf, 0)].entries ELSE <<>>
    BY DEF Unpack
  <2> QED BY <1>1, <2>1, Zenon
<1> HIDE DEF buf, n
<1> DEFINE W == [i \in 0 .. n |-> [ok |-> TRUE, off |-> off[i], entries |-> SubSeq(h, 1, i)]]
<1>5. ASSUME NEW i \in 1 .. n, NEW r, r = [ok |-> TRUE, off |-> off[i - 1], entries |-> SubSeq(h, 1, i - 1)]
      PROVE  Reading(r, i) = [ok |-> TRUE, off |-> off[i], entries |-> SubSeq(h, 1, i)]
  <2>1. r.ok /\ r.off = off[i - 1] /\ r.entries = SubSeq(h, 1, i - 1)
    BY <1>5
  <2>2. EntryAt(buf, r.off) = <<h[i]>> /\ EntryAt(buf, r.off) # <<>> /\ IntAt(buf, r.off) = Len(h[i].bits)
    <3>1. EntryAt(buf, off[i - 1]) = <<h[i]>> /\ IntAt(buf, off[i - 1]) = Len(h[i].bits)
      BY <1>2
    <3>2. <<h[i]>> # <<>>
      OBVIOUS
    <3> QED BY <2>1, <3>1, <3>2, Zenon
  <2>3. r.off + 9 + IntAt(buf, r.off) = off[i]
    <3>1. i - 1 \in 0 .. n /\ off[i - 1] \in Nat /\ Len(h[i].bits) \in Nat
      BY <1>2, <1>3
    <3>2. off[i] = off[i - 1] + Len(h[i].bits) + 9
      BY <1>2
    <3>3. \A x, y \in Nat : x + 9 + y = x + y + 9
      OBVIOUS
    <3> QED BY <2>1, <2>2, <3>1, <3>2, <3>3
  <2>4. SubSeq(h, 1, i - 1) \o <<h[i]>> = SubSeq(h, 1, i)
    <3>1. 1 \in Int /\ i \in Int /\ 1 <= i /\ i \in 1 .. Len(h)
      BY <1>3 DEF n
    <3>2. \A k \in 1 .. i : h[k] \in Entries
      BY <1>3
    <3> DEFINE a == SubSeq(h, 1, i - 1)
               b == <<h[i]>>
               c == SubSeq(h, 1, i)
    <3>3. a \in Seq(Entries) /\ Len(a) = i - 1 /\ \A k \in 1 .. i - 1 : a[k] = h[k]
      <4>1. /\ SubSeq(h, 1, i - 1) \in Seq(Entries)
            /\ Len(SubSeq(h, 1, i - 1)) = IF 1 <= i - 1 THEN (i - 1) - 1 + 1 ELSE 0
            /\ \A k \in 1 .. (i - 1) - 1 + 1 : SubSeq(h, 1, i - 1)[k] = h[1 + k - 1]
        BY <1>3, SubSeqProperties
      <4> QED BY <4>1
    <3>4. c \in Seq(Entries) /\ Len(c) = i /\ \A k \in 1 .. i : c[k] = h[k]
      <4>1. /\ SubSeq(h, 1, i) \in Seq(Entries)
            /\ Len(SubSeq(h, 1, i)) = IF 1 <= i THEN i - 1 + 1 ELSE 0
            /\ \A k \in 1 .. i - 1 + 1 : SubSeq(h, 1, i)[k] = h[1 + k - 1]
        BY <1>3, SubSeqProperties
      <4> QED BY <4>1
    <3>5. b \in Seq(Entries) /\ Len(b) = 1 /\ b[1] = h[i]
      BY <1>3
    <3> HIDE DEF a, b, c
    <3>6. /\ a \o b \in Seq(Entries) /\ Len(a \o b) = Len(a) + Len(b)
          /\ \A k \in 1 .. Len(a) + Len(b) : (a \o b)[k] = IF k <= Len(a) THEN a[k] ELSE b[k - Len(a)]
      BY <3>3, <3>5, ConcatProperties
    <3>7. Len(a \o b) = Len(c)
      BY <3>3, <3>4, <3>5, <3>6
    <3>8. ASSUME NEW k \in 1 .. Len(a \o b) PROVE (a \o b)[k] = c[k]
      <4>1. CASE k <= i - 1
        <5>1. k \in 1 .. i - 1 /\ k \in 1 .. i /\ k <= Len(a) /\ k \in 1 .. Len(a) + Len(b)
          BY <3>3, <3>5, <3>6, <4>1
        <5> QED BY <3>3, <3>4, <3>6, <5>1
      <4>2. CASE ~(k <= i - 1)
        <5>1. k = i /\ k - Len(a) = 1 /\ ~(k <= Len(a)) /\ k \in 1 .. Len(a) + Len(b)
          BY <3>3, <3>5, <3>6, <4>2
        <5> QED BY <3>4, <3>5, <3>6, <5>1
      <4>3. \A x, y, z \in Nat : x <= y => x <= y + z
        OBVIOUS
      <4> QED BY <4>1, <4>2, <4>3
    <3>9. a \o b = c
      BY <3>4, <3>6, <3>7, <3>8, SeqEqual
    <3> QED BY <3>9 DEF a, b, c
  <2>5. r.entries \o EntryAt(buf, r.off) = SubSeq(h, 1, i)
    BY <2>1, <2>2, <2>4
  <2>6. Reading(r, i) = [ok |-> TRUE, off |-> r.off + 9 + IntAt(buf, r.off),
                         entries |-> r.entries \o EntryAt(buf, r.off)]
    BY <2>1, <2>2
  <2> QED BY <2>3, <2>5, <2>6, Zenon
<1> HIDE DEF Reading
<1>6. SubSeq(h, 1, 0) = <<>>
  BY SubSeqEmpty
<1>7. IsRead(W)
  <2>1. ASSUME NEW i \in 0 .. n
        PROVE  W[i] = IF i = 0 THEN [ok |-> TRUE, off |-> 4, entries |-> <<>>] ELSE Reading(W[i - 1], i)
    <3>1. CASE i = 0
      BY <1>2, <1>6, <3>1
    <3>2. CASE i # 0
      <4>1. i \in 1 .. n /\ i - 1 \in 0 .. n
        BY <1>3, <3>2
      <4>2. W[i - 1] = [ok |-> TRUE, off |-> off[i - 1], entries |-> SubSeq(h, 1, i - 1)]
        BY <4>1
      <4>3. Reading(W[i - 1], i) = [ok |-> TRUE, off |-> off[i], entries |-> SubSeq(h, 1, i)]
        BY <1>5, <4>1, <4>2, Zenon
      <4> QED BY <3>2, <4>3
    <3> QED BY <3>1, <3>2
  <2>2. W = [i \in 0 .. n |-> W[i]]
    OBVIOUS
  <2> HIDE DEF W
  <2> QED BY <2>1, <2>2
<1>8. IsRead(R)
  <2> HIDE DEF IsRead
  <2> QED BY <1>7, Zenon
<1> DEFINE T == { i \in 0 .. n : R[i] = W[i] }
<1>9. \A k \in 1 .. n : k - 1 \in T => k \in T
  <2> TAKE k \in 1 .. n
  <2> HAVE k - 1 \in T
  <2>1. k \in 0 .. n /\ k # 0 /\ R[k - 1] = W[k - 1]
    BY <1>3
  <2> HIDE DEF R, W
  <2>2. R[k] = Reading(R[k - 1], k)
    BY <1>8, <2>1
  <2>3. W[k] = Reading(W[k - 1], k)
    BY <1>7, <2>1
  <2> QED BY <2>1, <2>2, <2>3
<1>10. 0 \in T
  <2>1. 0 \in 0 .. n
    BY <1>3
  <2> HIDE DEF R, W
  <2>2. R[0] = W[0]
    BY <1>7, <1>8, <2>1
  <2> QED BY <2>1, <2>2
<1>11. R[n] = W[n]
  <2>1. \A k \in 0 .. n : k \in T
    <3> HIDE DEF T
    <3> QED BY <1>3, <1>9, <1>10, CountingUp, Zenon
  <2>2. n \in 0 .. n
    BY <1>3
  <2> QED BY <2>1, <2>2
<1>12. R[n].ok /\ R[n].entries = SubSeq(h, 1, n)
  <2>1. n \in 0 .. n
    BY <1>3
  <2> HIDE DEF R
  <2> QED BY <1>11, <2>1
<1>13. SubSeq(h, 1, n) = h
  BY <1>3, SubSeqFull DEF n
<1> QED BY <1>4, <1>12, <1>13 DEF buf

----------------------------------------------------------------------------

Logged(c) == IF c \in {"size", "data"} THEN 1 ELSE 0

(* Of each finished call the root has posted the histogram it has logged,  *)
(* of the call it is in it has packed it.                                  *)
RootInv ==
  /\ posted \in Seq(ToSet(posted)) /\ Len(posted) = passed[0]
  /\ Len(log[0]) = CallsOf(program, "kernel", at[0] - 1) + Logged(pc[0])
  /\ pc[0] = "pack" => hist[0] \in Histograms
  /\ pc[0] \in {"size", "data"} => packed[0] = Pack(log[0][Len(log[0])])
  /\ \A i \in 1 .. at[0] - 1 :
       program[i].op = "kernel" =>
         posted[Collectives(program, i - 1) + 2].value = Pack(log[0][CallsOf(program, "kernel", i)])

(* Another rank has logged the same of the calls it has finished, and what *)
(* it has received is the histogram of its own call.                       *)
OtherInv(r) ==
  /\ Len(log[r]) = CallsOf(program, "kernel", at[r] - 1) /\ Len(log[r]) <= Len(log[0])
  /\ \A k \in 1 .. Len(log[r]) : log[r][k] = log[0][k]
  /\ pc[r] = "unpack" => /\ at[r] < at[0]
                         /\ packed[r] = Pack(log[0][CallsOf(program, "kernel", at[r])])

LogsInv ==
  /\ log \in [Ranks -> Seq(Histograms)]
  /\ hist = [r \in Ranks |-> hist[r]] /\ packed = [r \in Ranks |-> packed[r]]
  /\ RootInv
  /\ \A r \in Ranks \ {0} : OtherInv(r)

(* Appending to a sequence of anything.                                    *)
LEMMA AppendToAny ==
  ASSUME NEW s, s \in Seq(ToSet(s)), NEW x
  PROVE  /\ Append(s, x) \in Seq(ToSet(Append(s, x)))
         /\ Len(s) \in Nat /\ Len(Append(s, x)) = Len(s) + 1
         /\ \A i \in 1 .. Len(s) : Append(s, x)[i] = s[i]
         /\ Append(s, x)[Len(s) + 1] = x
<1> DEFINE S == ToSet(s) \cup {x}
           t == Append(s, x)
<1>1. s \in Seq(S) /\ x \in S
  BY SeqMonotonic
<1>2. /\ t \in Seq(S) /\ Len(t) = Len(s) + 1
      /\ \A i \in 1 .. Len(s) : t[i] = s[i]
      /\ t[Len(s) + 1] = x
  <2> HIDE DEF S
  <2> QED BY <1>1, AppendProperties
<1>3. t \in Seq(ToSet(t))
  <2> HIDE DEF t, S
  <2>1. Len(t) \in Nat /\ t = [i \in 1 .. Len(t) |-> t[i]] /\ DOMAIN t = 1 .. Len(t)
    BY <1>2, LenProperties
  <2>2. \A i \in 1 .. Len(t) : t[i] \in ToSet(t)
    BY <2>1 DEF ToSet
  <2> QED BY <2>1, <2>2, IsASeq
<1> QED BY <1>1, <1>2, <1>3, LenProperties

(* What a finished kernel call has left: a place among the collectives and *)
(* a place in the log.                                                     *)
LEMMA FinishedCalls ==
  ASSUME SyncInv, RootInv, NEW i \in 1 .. at[0] - 1, program[i].op = "kernel"
  PROVE  /\ CallsOf(program, "kernel", i) \in 1 .. Len(log[0])
         /\ Collectives(program, i - 1) + 2 \in 1 .. Len(posted)
<1>1. i \in Nat \ {0} /\ at[0] - 1 \in Nat /\ i <= at[0] - 1 /\ i - 1 \in Nat
  <2>1. at[0] \in Nat \ {0}
    BY RanksAssumption DEF SyncInv, PlacesInv
  <2> QED BY <2>1
<1>2. /\ CallsOf(program, "kernel", i) = CallsOf(program, "kernel", i - 1) + 1
      /\ CallsOf(program, "kernel", i - 1) \in Nat
      /\ CallsOf(program, "kernel", i) <= CallsOf(program, "kernel", at[0] - 1)
      /\ CallsOf(program, "kernel", at[0] - 1) \in Nat
  BY <1>1, CountingCalls
<1>3. /\ Collectives(program, i) = Collectives(program, i - 1) + 2
      /\ Collectives(program, i - 1) \in Nat
      /\ Collectives(program, i) <= Collectives(program, at[0] - 1)
      /\ Collectives(program, at[0] - 1) \in Nat
  BY <1>1, CountingCollectives
<1>4. Len(posted) = Collectives(program, at[0] - 1) + PassedInCall(pc[0])
  BY RanksAssumption DEF SyncInv, PlacesInv, IsAt, RootInv
<1>5. CallsOf(program, "kernel", i) \in 1 .. Len(log[0])
  BY <1>2 DEF RootInv, Logged
<1>6. Collectives(program, i - 1) + 2 \in 1 .. Len(posted)
  BY <1>3, <1>4 DEF PassedInCall
<1> QED BY <1>5, <1>6

(* What a step of the root may do to the others: their logs stay behind    *)
(* it, whether it goes on or adds to its own.                              *)
LEMMA OthersStay ==
  ASSUME SyncInv, LogsInv, program' = program,
         NEW s \in Ranks \ {0}, at'[s] = at[s], pc'[s] = pc[s], packed'[s] = packed[s], log'[s] = log[s],
         at[0] <= at'[0], Len(log[0]) <= Len(log'[0]),
         \A k \in 1 .. Len(log[0]) : log'[0][k] = log[0][k], at'[0] \in Nat, Len(log'[0]) \in Nat
  PROVE  OtherInv(s)'
<1>1. /\ at[s] \in Nat \ {0} /\ at[0] \in Nat \ {0} /\ 0 \in Ranks /\ s \in Ranks
  BY RanksAssumption DEF SyncInv, PlacesInv
<1>2. Len(log[s]) \in Nat /\ Len(log[0]) \in Nat
  BY <1>1, LenProperties DEF LogsInv
<1>3. OtherInv(s)
  BY DEF LogsInv
<1>4. Len(log[s]) = CallsOf(program, "kernel", at[s] - 1) /\ Len(log[s]) <= Len(log[0])
  BY <1>3 DEF OtherInv
<1>5. Len(log[s]) <= Len(log'[0])
  BY <1>2, <1>4
<1>6. ASSUME NEW k \in 1 .. Len(log[s]) PROVE log'[s][k] = log'[0][k]
  <2>1. k \in 1 .. Len(log[0])
    BY <1>2, <1>4
  <2> QED BY <1>3, <2>1 DEF OtherInv
<1>7. ASSUME pc[s] = "unpack"
      PROVE  /\ at[s] < at'[0]
             /\ packed'[s] = Pack(log'[0][CallsOf(program, "kernel", at[s])])
  <2>1. at[s] < at[0] /\ packed[s] = Pack(log[0][CallsOf(program, "kernel", at[s])])
    BY <1>3, <1>7 DEF OtherInv
  <2>2. at[s] < at'[0]
    BY <1>1, <2>1
  <2>3. at[s] \in 1 .. at[0] - 1 /\ program[at[s]].op = "kernel"
    <3>1. program[at[s]].op = "kernel"
      BY <1>1, <1>7 DEF SyncInv, PlacesInv, IsAt, OpOf
    <3> QED BY <1>1, <2>1, <3>1
  <2>4. CallsOf(program, "kernel", at[s]) \in 1 .. Len(log[0])
    BY <2>3, FinishedCalls DEF LogsInv
  <2> QED BY <2>1, <2>2, <2>4
<1>8. Len(log'[s]) = CallsOf(program', "kernel", at'[s] - 1) /\ Len(log'[s]) <= Len(log'[0])
  BY <1>4, <1>5
<1>9. \A k \in 1 .. Len(log'[s]) : log'[s][k] = log'[0][k]
  BY <1>6
<1>10. pc'[s] = "unpack" => /\ at'[s] < at'[0]
                            /\ packed'[s] = Pack(log'[0][CallsOf(program', "kernel", at'[s])])
  BY <1>7
<1> QED BY <1>8, <1>9, <1>10 DEF OtherInv

(* When the root goes on to its next call, or posts and stays, what it has *)
(* posted and logged of finished calls remains, and a kernel call it has   *)
(* just finished has left the histogram it logged.                         *)
LEMMA RootMoves ==
  ASSUME SyncInv, SyncInv', LogsInv, Moves(0, program, at[0], pc[0], passed[0], at'[0], pc'[0], passed'[0]),
         program' = program, posted' \in Seq(ToSet(posted')),
         \/ posted' = posted /\ passed'[0] = passed[0]
         \/ \E x : posted' = Append(posted, x) /\ passed'[0] = passed[0] + 1
                   /\ (pc[0] = "data" => x.value = packed[0]),
         log' = log, packed' = packed,
         pc'[0] = "pack" => hist'[0] \in Histograms,
         pc[0] # "pack"
  PROVE  RootInv'
<1>1. at[0] \in Nat \ {0} /\ at[0] - 1 \in Nat /\ Len(log[0]) \in Nat
  <2>1. at[0] \in Nat \ {0} /\ log[0] \in Seq(Histograms)
    BY RanksAssumption DEF SyncInv, PlacesInv, LogsInv
  <2> QED BY <2>1, LenProperties
<1>2. /\ Len(posted) \in Nat
      /\ \A i \in 1 .. Len(posted) : posted'[i] = posted[i]
  BY AppendToAny, LenProperties DEF LogsInv, RootInv
<1>3. Len(posted') = passed'[0]
  BY AppendToAny DEF LogsInv, RootInv
<1>4. /\ CallsOf(program, "kernel", at[0] - 1) \in Nat
      /\ CallsOf(program, "kernel", at[0]) = CallsOf(program, "kernel", at[0] - 1)
           + (IF program[at[0]].op = "kernel" THEN 1 ELSE 0)
  <2>1. \A n \in Nat \ {0} : CallsOf(program, "kernel", n) = CallsOf(program, "kernel", n - 1)
           + (IF program[n].op = "kernel" THEN 1 ELSE 0)
    BY CountingCalls
  <2>2. CallsOf(program, "kernel", at[0] - 1) \in Nat
    BY <1>1, CountingCalls
  <2> QED BY <1>1, <2>1, <2>2
<1>5. /\ Len(log[0]) = CallsOf(program, "kernel", at[0] - 1) + Logged(pc[0])
      /\ pc[0] \in {"size", "data"} => packed[0] = Pack(log[0][Len(log[0])])
      /\ pc[0] # "ready" => program[at[0]].op = OpOf(pc[0])
  BY RanksAssumption DEF LogsInv, RootInv, SyncInv, PlacesInv, IsAt
<1>6. ASSUME NEW i \in 1 .. at[0] - 1, program[i].op = "kernel"
      PROVE  posted'[Collectives(program, i - 1) + 2].value = Pack(log[0][CallsOf(program, "kernel", i)])
  <2>1. Collectives(program, i - 1) + 2 \in 1 .. Len(posted)
    BY <1>6, FinishedCalls DEF LogsInv
  <2> QED BY <1>2, <1>6, <2>1 DEF LogsInv, RootInv
<1>7. CASE at'[0] = at[0]
  <2>1. /\ Logged(pc'[0]) = Logged(pc[0])
        /\ pc'[0] \in {"size", "data"} => pc[0] \in {"size", "data"}
    BY <1>1, <1>7 DEF Moves, Logged
  <2>2. \A i \in 1 .. at'[0] - 1 : program'[i].op = "kernel" =>
          posted'[Collectives(program', i - 1) + 2].value = Pack(log'[0][CallsOf(program', "kernel", i)])
    BY <1>6, <1>7
  <2>3. Len(log'[0]) = CallsOf(program', "kernel", at'[0] - 1) + Logged(pc'[0])
    BY <1>5, <1>7, <2>1
  <2>4. pc'[0] \in {"size", "data"} => packed'[0] = Pack(log'[0][Len(log'[0])])
    BY <1>5, <2>1
  <2> QED BY <1>3, <2>2, <2>3, <2>4 DEF RootInv
<1>8. CASE at'[0] # at[0]
  <2>1. at'[0] = at[0] + 1 /\ pc'[0] = "ready" /\ at'[0] - 1 = at[0]
        /\ (pc[0] = "data" \/ pc[0] = "unpack" \/ pc[0] = "barrier" \/ pc[0] = "ready")
    BY <1>1, <1>8 DEF Moves
  <2>2. pc[0] # "unpack"
    BY DEF SyncInv, PlacesInv
  <2>3. CASE pc[0] = "data"
    <3>1. program[at[0]].op = "kernel"
      BY <1>5, <2>3 DEF OpOf
    <3>2. Len(log[0]) = CallsOf(program, "kernel", at[0])
      BY <1>4, <1>5, <2>3, <3>1 DEF Logged
    <3>3. posted'[Collectives(program, at[0] - 1) + 2].value = packed[0]
      <4>1. passed[0] = Collectives(program, at[0] - 1) + 1 /\ Len(posted) = passed[0]
        BY <2>3, RanksAssumption DEF SyncInv, PlacesInv, IsAt, PassedInCall, LogsInv, RootInv
      <4>2. PICK x : posted' = Append(posted, x) /\ x.value = packed[0]
        BY <2>1, <2>3, <1>1, <1>2, <4>1 DEF Moves
      <4>3. posted'[Len(posted) + 1] = x
        BY <4>2, AppendToAny DEF LogsInv, RootInv
      <4>4. Collectives(program, at[0] - 1) + 2 = Len(posted) + 1
        <5>1. Collectives(program, at[0] - 1) \in Nat
          BY <1>1, CountingCollectives
        <5> QED BY <4>1, <5>1
      <4> QED BY <4>2, <4>3, <4>4
    <3>4. ASSUME NEW i \in 1 .. at'[0] - 1, program[i].op = "kernel"
          PROVE  posted'[Collectives(program, i - 1) + 2].value = Pack(log[0][CallsOf(program, "kernel", i)])
      <4>1. CASE i = at[0]
        BY <1>5, <2>3, <3>2, <3>3, <4>1
      <4>2. CASE i # at[0]
        <5>1. i \in 1 .. at[0] - 1
          BY <1>1, <2>1, <4>2
        <5> QED BY <1>6, <3>4, <5>1
      <4> QED BY <4>1, <4>2
    <3>5. Logged(pc'[0]) = 0 /\ pc'[0] \notin {"size", "data"}
      BY <2>1 DEF Logged
    <3>6. Len(log'[0]) = CallsOf(program', "kernel", at'[0] - 1) + Logged(pc'[0])
      BY <1>1, <2>1, <3>2, <3>5
    <3> QED BY <1>3, <3>4, <3>5, <3>6 DEF RootInv
  <2>4. CASE pc[0] # "data"
    <3>1. program[at[0]].op # "kernel"
      BY <1>1, <1>5, <1>8, <2>1, <2>2, <2>4 DEF OpOf, Moves
    <3>2. Logged(pc'[0]) = 0 /\ Logged(pc[0]) = 0 /\ pc'[0] \notin {"size", "data"}
      BY <2>1, <2>2, <2>4 DEF Logged
    <3>3. Len(log'[0]) = CallsOf(program', "kernel", at'[0] - 1) + Logged(pc'[0])
      BY <1>4, <1>5, <2>1, <3>1, <3>2
    <3>4. ASSUME NEW i \in 1 .. at'[0] - 1, program[i].op = "kernel"
          PROVE  posted'[Collectives(program, i - 1) + 2].value = Pack(log[0][CallsOf(program, "kernel", i)])
      <4>1. i # at[0]
        BY <3>1, <3>4
      <4>2. i \in 1 .. at[0] - 1
        BY <1>1, <2>1, <4>1
      <4> QED BY <1>6, <3>4, <4>2
    <3> QED BY <1>3, <3>2, <3>3, <3>4 DEF RootInv
  <2> QED BY <2>3, <2>4
<1> QED BY <1>7, <1>8

(* What a kernel named so may print can be sent.                           *)
CanBeSent(name) ==
  \A shots \in {<<>>} \cup (IF name \in DOMAIN bitcode THEN Runs[bitcode[name]] ELSE {}) :
    Tally(shots) \in Histograms

(* A step of the root keeps what is said of the logs.                      *)
LEMMA RootStepKeepsLogs ==
  ASSUME Step(0), SyncInv, SyncInv', LogsInv,
         Calling(0, "kernel") => CanBeSent(program[at[0]].name)
  PROVE  LogsInv'
<1> USE RanksAssumption
<1>1. /\ program' = program
      /\ \A s \in Ranks \ {0} : at'[s] = at[s] /\ pc'[s] = pc[s] /\ passed'[s] = passed[s]
      /\ Moves(0, program, at[0], pc[0], passed[0], at'[0], pc'[0], passed'[0])
  BY PlacesOfStep
<1>2. at[0] \in Nat /\ at'[0] \in Nat /\ at[0] <= at'[0]
  <2>1. at[0] \in Nat \ {0} /\ at'[0] \in Nat \ {0}
    BY DEF SyncInv, PlacesInv
  <2>2. at'[0] = at[0] \/ at'[0] = at[0] + 1
    BY <1>1 DEF Moves
  <2> QED BY <2>1, <2>2
<1>3. log[0] \in Seq(Histograms) /\ Len(log[0]) \in Nat
  BY LenProperties DEF LogsInv
<1>4. CASE PackHistogram
  <2>1. /\ pc[0] = "pack" /\ pc'[0] = "size" /\ at' = at /\ passed' = passed /\ posted' = posted
        /\ hist' = hist /\ packed' = [packed EXCEPT ![0] = Pack(hist[0])]
        /\ log' = [log EXCEPT ![0] = Append(log[0], hist[0])]
    BY <1>4 DEF PackHistogram, Goto, SyncInv, PlacesInv
  <2>2. hist[0] \in Histograms
    BY <2>1 DEF LogsInv, RootInv
  <2>3. /\ log'[0] = Append(log[0], hist[0]) /\ packed'[0] = Pack(hist[0])
        /\ \A s \in Ranks \ {0} : log'[s] = log[s] /\ packed'[s] = packed[s]
    BY <2>1 DEF LogsInv
  <2>4. /\ log'[0] \in Seq(Histograms) /\ Len(log'[0]) = Len(log[0]) + 1
        /\ \A k \in 1 .. Len(log[0]) : log'[0][k] = log[0][k]
        /\ log'[0][Len(log[0]) + 1] = hist[0]
    BY <1>3, <2>2, <2>3, AppendProperties
  <2>5. /\ log' \in [Ranks -> Seq(Histograms)]
        /\ hist' = [r \in Ranks |-> hist'[r]] /\ packed' = [r \in Ranks |-> packed'[r]]
    <3>1. log' \in [Ranks -> Seq(Histograms)]
      BY <2>1, <2>3, <2>4 DEF LogsInv
    <3>2. hist' = [r \in Ranks |-> hist'[r]]
      BY <2>1 DEF LogsInv
    <3>3. packed' = [r \in Ranks |-> packed'[r]]
      <4>1. packed = [r \in Ranks |-> packed[r]]
        BY DEF LogsInv
      <4> QED BY <2>1, <4>1
    <3> QED BY <3>1, <3>2, <3>3
  <2>6. RootInv'
    <3>1. Len(log'[0]) = CallsOf(program', "kernel", at'[0] - 1) + Logged(pc'[0])
      <4>1. Len(log[0]) = CallsOf(program, "kernel", at[0] - 1)
        <5>1. at[0] - 1 \in Nat
          <6>1. at[0] \in Nat \ {0}
            BY DEF SyncInv, PlacesInv
          <6> QED BY <6>1
        <5>2. CallsOf(program, "kernel", at[0] - 1) \in Nat
          BY <5>1, CountingCalls
        <5> QED BY <2>1, <5>2 DEF LogsInv, RootInv, Logged
      <4> QED BY <1>1, <2>1, <2>4, <4>1 DEF Logged
    <3>2. packed'[0] = Pack(log'[0][Len(log'[0])])
      BY <2>3, <2>4
    <3>3. ASSUME NEW i \in 1 .. at[0] - 1, program[i].op = "kernel"
          PROVE  posted[Collectives(program, i - 1) + 2].value = Pack(log'[0][CallsOf(program, "kernel", i)])
      <4>1. CallsOf(program, "kernel", i) \in 1 .. Len(log[0])
        BY <3>3, FinishedCalls DEF LogsInv
      <4> QED BY <2>4, <3>3, <4>1 DEF LogsInv, RootInv
    <3>4. posted' \in Seq(ToSet(posted')) /\ Len(posted') = passed'[0]
      BY <2>1 DEF LogsInv, RootInv
    <3> QED BY <1>1, <2>1, <3>1, <3>2, <3>3, <3>4 DEF RootInv
  <2>7. \A s \in Ranks \ {0} : OtherInv(s)'
    <3> TAKE s \in Ranks \ {0}
    <3>1. at'[s] = at[s] /\ pc'[s] = pc[s] /\ packed'[s] = packed[s] /\ log'[s] = log[s]
      BY <1>1, <2>3
    <3>2. Len(log[0]) <= Len(log'[0]) /\ Len(log'[0]) \in Nat
      BY <1>3, <2>4
    <3> QED BY <1>1, <1>2, <2>4, <3>1, <3>2, OthersStay
  <2> QED BY <2>5, <2>6, <2>7 DEF LogsInv
<1>5. CASE ~PackHistogram
  <2>1. log' = log
    BY <1>5 DEF Step, RootExecutes, RootDispatches, RootAborts, SkipExecute, BcastSize, BcastData,
                UnpackHistogram, DispatchByRank, EnterBarrier, LeaveBarrier, SyncInv, PlacesInv
  <2>2. packed' = packed
    BY <1>5 DEF Step, RootExecutes, RootDispatches, RootAborts, SkipExecute, BcastSize, BcastData,
                UnpackHistogram, DispatchByRank, EnterBarrier, LeaveBarrier, SyncInv, PlacesInv
  <2>3. hist' = [r \in Ranks |-> hist'[r]]
    <3>1. hist = [r \in Ranks |-> hist[r]]
      BY DEF LogsInv
    <3>2. hist' = hist \/ \E h : hist' = [hist EXCEPT ![0] = h]
      BY <1>5 DEF Step, RootExecutes, RootDispatches, RootAborts, SkipExecute, BcastSize, BcastData,
                  UnpackHistogram, DispatchByRank, EnterBarrier, LeaveBarrier, Execute
    <3> QED BY <3>1, <3>2
  <2>4. \/ posted' = posted /\ passed'[0] = passed[0]
        \/ \E x : posted' = Append(posted, x) /\ passed'[0] = passed[0] + 1
                  /\ (pc[0] = "data" => x.value = packed[0])
    <3>1. CASE BcastSize(0)
      BY <3>1 DEF BcastSize, RootPosts, SyncInv, PlacesInv
    <3>2. CASE BcastData(0)
      BY <3>2 DEF BcastData, RootPosts, SyncInv, PlacesInv
    <3>3. CASE LeaveBarrier(0)
      BY <3>3 DEF LeaveBarrier, RootPosts, SyncInv, PlacesInv
    <3>4. CASE RootExecutes \/ RootDispatches \/ RootAborts \/ DispatchByRank(0) \/ UnpackHistogram(0)
      BY <3>4 DEF RootExecutes, RootDispatches, RootAborts, DispatchByRank, UnpackHistogram
    <3>5. ~SkipExecute(0) /\ ~EnterBarrier(0)
      BY DEF SkipExecute, EnterBarrier
    <3> QED BY <1>5, <3>1, <3>2, <3>3, <3>4, <3>5 DEF Step
  <2>5. posted' \in Seq(ToSet(posted'))
    <3>1. posted \in Seq(ToSet(posted))
      BY DEF LogsInv, RootInv
    <3>2. \A x : Append(posted, x) \in Seq(ToSet(Append(posted, x)))
      BY <3>1, AppendToAny
    <3>3. CASE posted' = posted
      BY <3>1, <3>3
    <3>4. CASE posted' # posted
      <4>1. PICK x : posted' = Append(posted, x)
        BY <2>4, <3>4
      <4> HIDE <2>4
      <4> QED BY <3>2, <4>1
    <3> QED BY <3>3, <3>4
  <2>6. pc[0] = "pack" => pc'[0] = "pack"
    BY <1>5 DEF Step, RootExecutes, RootDispatches, RootAborts, SkipExecute, BcastSize, BcastData,
                UnpackHistogram, DispatchByRank, EnterBarrier, LeaveBarrier, Calling
  <2>7. pc'[0] = "pack" => hist'[0] \in Histograms
    <3>1. CASE RootExecutes
      <4>1. PICK shots \in {<<>>} \cup (IF program[at[0]].name \in DOMAIN bitcode
                                        THEN Runs[bitcode[program[at[0]].name]] ELSE {}) :
              hist' = [hist EXCEPT ![0] = Tally(shots)]
        BY <3>1 DEF RootExecutes, Execute
      <4>2. Tally(shots) \in Histograms
        BY <3>1, <4>1 DEF RootExecutes, CanBeSent
      <4>3. hist'[0] = Tally(shots)
        BY <4>1 DEF LogsInv
      <4> QED BY <4>2, <4>3
    <3>2. CASE ~RootExecutes
      <4>1. pc'[0] = "pack" => pc[0] = "pack" /\ hist' = hist
        BY <1>5, <3>2 DEF Step, RootDispatches, RootAborts, SkipExecute, BcastSize, BcastData,
                UnpackHistogram, DispatchByRank, EnterBarrier, LeaveBarrier, Goto, Return, SyncInv, PlacesInv
      <4> QED BY <4>1 DEF LogsInv, RootInv
    <3> QED BY <3>1, <3>2
  <2>8. RootInv'
    <3>1. CASE pc[0] # "pack"
      BY <1>1, <2>1, <2>2, <2>4, <2>5, <2>7, <3>1, RootMoves
    <3>2. CASE pc[0] = "pack"
      <4>1. at'[0] = at[0] /\ pc'[0] = pc[0] /\ passed'[0] = passed[0]
        BY <1>1, <2>6, <3>2 DEF Moves
      <4>2. posted' = posted
        BY <2>4, <4>1 DEF SyncInv, PlacesInv
      <4> QED BY <1>1, <2>1, <2>2, <2>7, <4>1, <4>2 DEF LogsInv, RootInv
    <3> QED BY <3>1, <3>2
  <2>9. \A s \in Ranks \ {0} : OtherInv(s)'
    BY <1>1, <1>2, <1>3, <2>1, <2>2, OthersStay
  <2>10. log' \in [Ranks -> Seq(Histograms)] /\ packed' = [r \in Ranks |-> packed'[r]]
    BY <2>1, <2>2 DEF LogsInv
  <2> QED BY <2>3, <2>8, <2>9, <2>10 DEF LogsInv
<1> QED BY <1>4, <1>5

(* What a rank receives next, when it waits for the bytes of a histogram,  *)
(* is the histogram of the call it is in, and the root has finished it.    *)
LEMMA ReceivesItsCall ==
  ASSUME SyncInv, LogsInv, NEW r \in Ranks \ {0}, pc[r] = "data", passed[r] < Len(posted)
  PROVE  /\ at[r] < at[0]
         /\ Received(r) = Pack(log[0][CallsOf(program, "kernel", at[r])])
<1>1. /\ at[r] \in Nat \ {0} /\ at[0] \in Nat \ {0} /\ 0 \in Ranks /\ r \in Ranks
      /\ program[at[r]].op = "kernel" /\ pc[0] \in Labels \ {"unpack"}
  BY RanksAssumption DEF SyncInv, PlacesInv, IsAt, OpOf
<1>2. /\ passed[r] = Collectives(program, at[r] - 1) + 1
      /\ passed[0] = Collectives(program, at[0] - 1) + PassedInCall(pc[0])
      /\ Len(posted) = passed[0]
  BY <1>1 DEF SyncInv, PlacesInv, IsAt, PassedInCall, LogsInv, RootInv
<1>3. at[r] - 1 \in Nat /\ at[0] - 1 \in Nat
  BY <1>1
<1>4. Collectives(program, at[r] - 1) \in Nat /\ Collectives(program, at[0] - 1) \in Nat
  BY <1>3, CountingCollectives
<1>5. PassedInCall(pc[0]) \in {0, 1}
  BY <1>1 DEF PassedInCall
<1>6. at[r] < at[0]
  <2> SUFFICES ASSUME ~(at[r] < at[0]) PROVE FALSE
    OBVIOUS
  <2>1. at[0] - 1 <= at[r] - 1
    BY <1>1
  <2>2. Collectives(program, at[0] - 1) <= Collectives(program, at[r] - 1)
    BY <1>3, <2>1, CountingCollectives
  <2> QED BY <1>2, <1>4, <1>5, <2>2
<1>7. at[r] \in 1 .. at[0] - 1
  BY <1>1, <1>6
<1>8. posted[Collectives(program, at[r] - 1) + 2].value = Pack(log[0][CallsOf(program, "kernel", at[r])])
  BY <1>1, <1>7 DEF LogsInv, RootInv
<1>9. Received(r) = posted[Collectives(program, at[r] - 1) + 2].value
  <2>1. passed[r] + 1 = Collectives(program, at[r] - 1) + 2
    BY <1>2, <1>4
  <2> QED BY <2>1 DEF Received
<1> QED BY <1>6, <1>8, <1>9

(* A step of another rank keeps what is said of the logs.                  *)
LEMMA OtherStepKeepsLogs ==
  ASSUME NEW r \in Ranks \ {0}, Step(r), SyncInv, SyncInv', LogsInv
  PROVE  LogsInv'
<1>1. /\ program' = program
      /\ \A s \in Ranks \ {r} : at'[s] = at[s] /\ pc'[s] = pc[s] /\ passed'[s] = passed[s]
      /\ Moves(r, program, at[r], pc[r], passed[r], at'[r], pc'[r], passed'[r])
  BY PlacesOfStep
<1>2. 0 \in Ranks \ {r} /\ r \in Ranks /\ r # 0 /\ at[r] \in Nat \ {0} /\ at[0] \in Nat \ {0}
  BY RanksAssumption DEF SyncInv, PlacesInv
<1>3. log[0] \in Seq(Histograms) /\ Len(log[0]) \in Nat /\ log[r] \in Seq(Histograms) /\ Len(log[r]) \in Nat
  BY <1>2, LenProperties DEF LogsInv
<1>4. posted' = posted
  BY <1>2 DEF Step, SkipExecute, BcastSize, BcastData, UnpackHistogram, DispatchByRank,
              EnterBarrier, LeaveBarrier, Receives
<1>5. /\ packed' = [s \in Ranks |-> packed'[s]]
      /\ \A s \in Ranks \ {r} : packed'[s] = packed[s]
  <2>1. packed = [s \in Ranks |-> packed[s]]
    BY DEF LogsInv
  <2>2. packed' = packed \/ \E x : packed' = [packed EXCEPT ![r] = x]
    BY <1>2 DEF Step, SkipExecute, BcastSize, BcastData, UnpackHistogram, DispatchByRank,
                EnterBarrier, LeaveBarrier
  <2> QED BY <2>1, <2>2
<1>6. /\ hist' = [s \in Ranks |-> hist'[s]]
      /\ \A s \in Ranks \ {r} : hist'[s] = hist[s]
  <2>1. hist = [s \in Ranks |-> hist[s]]
    BY DEF LogsInv
  <2>2. hist' = hist \/ \E x : hist' = [hist EXCEPT ![r] = x]
    BY <1>2 DEF Step, SkipExecute, BcastSize, BcastData, UnpackHistogram, DispatchByRank,
                EnterBarrier, LeaveBarrier, Execute
  <2> QED BY <2>1, <2>2
<1>7. /\ log' \in [Ranks -> Seq(Histograms)]
      /\ \A s \in Ranks \ {r} : log'[s] = log[s]
      /\ OtherInv(r)'
  <2>1. CASE UnpackHistogram(r)
    <3> DEFINE k == CallsOf(program, "kernel", at[r])
    <3>1. /\ pc[r] = "unpack" /\ pc'[r] = "ready" /\ at'[r] = at[r] + 1
          /\ hist' = [hist EXCEPT ![r] = Unpack(packed[r])]
          /\ log' = [log EXCEPT ![r] = Append(log[r], hist'[r])]
      BY <1>2, <2>1 DEF UnpackHistogram, Return, Goto, SyncInv, PlacesInv
    <3>2. /\ at[r] < at[0] /\ packed[r] = Pack(log[0][k])
          /\ Len(log[r]) = CallsOf(program, "kernel", at[r] - 1)
          /\ \A i \in 1 .. Len(log[r]) : log[r][i] = log[0][i]
      BY <3>1 DEF LogsInv, OtherInv
    <3>3. program[at[r]].op = "kernel" /\ at[r] \in 1 .. at[0] - 1
      <4>1. program[at[r]].op = "kernel"
        BY <1>2, <3>1 DEF SyncInv, PlacesInv, IsAt, OpOf
      <4> QED BY <1>2, <3>2, <4>1
    <3>4. k \in 1 .. Len(log[0])
      BY <3>3, FinishedCalls DEF LogsInv
    <3>5. log[0][k] \in Histograms
      BY <1>3, <3>4, ElementOfSeq
    <3>6. hist'[r] = log[0][k]
      <4>1. hist'[r] = Unpack(packed[r])
        <5>1. hist = [s \in Ranks |-> hist[s]]
          BY DEF LogsInv
        <5> QED BY <1>2, <3>1, <5>1
      <4> QED BY <3>2, <3>5, <4>1, HistogramRoundTrip
    <3>7. k = Len(log[r]) + 1
      <4>1. \A n \in Nat \ {0} : CallsOf(program, "kernel", n) = CallsOf(program, "kernel", n - 1)
              + (IF program[n].op = "kernel" THEN 1 ELSE 0)
        BY CountingCalls
      <4> QED BY <1>2, <3>2, <3>3, <4>1
    <3> HIDE DEF k
    <3>8. log'[r] = Append(log[r], log[0][k]) /\ \A s \in Ranks \ {r} : log'[s] = log[s]
      BY <1>2, <3>1, <3>6 DEF LogsInv
    <3>9. /\ log'[r] \in Seq(Histograms) /\ Len(log'[r]) = Len(log[r]) + 1
          /\ \A i \in 1 .. Len(log[r]) : log'[r][i] = log[r][i]
          /\ log'[r][Len(log[r]) + 1] = log[0][k]
      BY <1>3, <3>5, <3>8, AppendProperties
    <3>10. log' \in [Ranks -> Seq(Histograms)]
      <4>1. log' = [log EXCEPT ![r] = log'[r]]
        BY <1>2, <3>1 DEF LogsInv
      <4> QED BY <1>2, <3>9, <4>1 DEF LogsInv
    <3>11. Len(log'[r]) = CallsOf(program', "kernel", at'[r] - 1) /\ Len(log'[r]) <= Len(log'[0])
      <4>1. at'[r] - 1 = at[r]
        BY <1>2, <3>1
      <4>2. Len(log'[r]) = k
        BY <3>7, <3>9
      <4>3. log'[0] = log[0]
        BY <1>2, <3>8
      <4>4. k <= Len(log[0])
        BY <3>4
      <4> QED BY <1>1, <4>1, <4>2, <4>3, <4>4 DEF k
    <3>12. ASSUME NEW i \in 1 .. Len(log'[r]) PROVE log'[r][i] = log'[0][i]
      <4>1. log'[0] = log[0]
        BY <1>2, <3>8
      <4>2. CASE i = k
        BY <3>7, <3>9, <4>1, <4>2
      <4>3. CASE i # k
        <5>1. i \in 1 .. Len(log[r])
          BY <1>3, <3>7, <3>9, <4>3
        <5> QED BY <3>2, <3>9, <4>1, <5>1
      <4> QED BY <4>2, <4>3
    <3> QED BY <3>1, <3>8, <3>10, <3>11, <3>12 DEF OtherInv
  <2>2. CASE ~UnpackHistogram(r)
    <3>1. log' = log
      BY <1>2, <2>2 DEF Step, SkipExecute, BcastSize, BcastData, DispatchByRank, EnterBarrier, LeaveBarrier
    <3>2. /\ Len(log[r]) = CallsOf(program, "kernel", at[r] - 1) /\ Len(log[r]) <= Len(log[0])
          /\ \A i \in 1 .. Len(log[r]) : log[r][i] = log[0][i]
      BY DEF LogsInv, OtherInv
    <3>3. CASE BcastData(r)
      <4>1. /\ pc[r] = "data" /\ at' = at /\ passed[r] < Len(posted)
            /\ packed' = [packed EXCEPT ![r] = Received(r)]
        BY <1>2, <3>3 DEF BcastData, Receives, Posted
      <4>2. at[r] < at[0] /\ Received(r) = Pack(log[0][CallsOf(program, "kernel", at[r])])
        BY <4>1, ReceivesItsCall
      <4>3. packed'[r] = Received(r)
        <5>1. packed = [s \in Ranks |-> packed[s]]
          BY DEF LogsInv
        <5> QED BY <1>2, <4>1, <5>1
      <4>4. /\ at'[r] < at'[0]
            /\ packed'[r] = Pack(log'[0][CallsOf(program', "kernel", at'[r])])
        BY <1>1, <3>1, <4>1, <4>2, <4>3
      <4>5. /\ Len(log'[r]) = CallsOf(program', "kernel", at'[r] - 1) /\ Len(log'[r]) <= Len(log'[0])
            /\ \A i \in 1 .. Len(log'[r]) : log'[r][i] = log'[0][i]
        BY <1>1, <3>1, <3>2, <4>1
      <4> QED BY <3>1, <4>4, <4>5 DEF OtherInv, LogsInv
    <3>4. CASE ~BcastData(r)
      <4>1. pc'[r] # "unpack" /\ (at'[r] # at[r] => pc[r] = "barrier" \/ program[at[r]].op = "dispatch")
        BY <1>2, <2>2, <3>4 DEF Step, SkipExecute, BcastSize, DispatchByRank, EnterBarrier, LeaveBarrier,
              Goto, Return, Calling, SyncInv, PlacesInv
      <4>2. CallsOf(program, "kernel", at'[r] - 1) = CallsOf(program, "kernel", at[r] - 1)
        <5>1. CASE at'[r] = at[r]
          BY <5>1
        <5>2. CASE at'[r] # at[r]
          <6>1. program[at[r]].op # "kernel"
            BY <1>2, <4>1, <5>2 DEF SyncInv, PlacesInv, IsAt, OpOf
          <6>2. at'[r] - 1 = at[r] /\ at[r] - 1 \in Nat
            <7>1. at'[r] = at[r] + 1
              BY <1>1, <5>2 DEF Moves
            <7> QED BY <1>2, <7>1
          <6>3. \A n \in Nat \ {0} : CallsOf(program, "kernel", n) = CallsOf(program, "kernel", n - 1)
                  + (IF program[n].op = "kernel" THEN 1 ELSE 0)
            BY CountingCalls
          <6>4. CallsOf(program, "kernel", at[r] - 1) \in Nat
            BY <6>2, CountingCalls
          <6> QED BY <1>2, <6>1, <6>2, <6>3, <6>4
        <5> QED BY <5>1, <5>2
      <4>3. /\ Len(log'[r]) = CallsOf(program', "kernel", at'[r] - 1) /\ Len(log'[r]) <= Len(log'[0])
            /\ \A i \in 1 .. Len(log'[r]) : log'[r][i] = log'[0][i]
        BY <1>1, <3>1, <3>2, <4>2
      <4> QED BY <3>1, <4>1, <4>3 DEF OtherInv, LogsInv
    <3> QED BY <3>3, <3>4
  <2> QED BY <2>1, <2>2
<1>8. RootInv'
  <2>1. /\ log'[0] = log[0] /\ packed'[0] = packed[0] /\ hist'[0] = hist[0] /\ at'[0] = at[0]
        /\ pc'[0] = pc[0] /\ passed'[0] = passed[0]
    BY <1>1, <1>2, <1>5, <1>6, <1>7
  <2> QED BY <1>1, <1>4, <2>1 DEF LogsInv, RootInv
<1>9. ASSUME NEW s \in Ranks \ {0} PROVE OtherInv(s)'
  <2>1. CASE s = r
    BY <1>7, <2>1
  <2>2. CASE s # r
    <3>1. /\ at'[s] = at[s] /\ pc'[s] = pc[s] /\ packed'[s] = packed[s] /\ log'[s] = log[s]
          /\ at'[0] = at[0] /\ log'[0] = log[0]
      BY <1>1, <1>2, <1>5, <1>7, <2>2
    <3>2. at[0] <= at'[0] /\ at'[0] \in Nat /\ Len(log[0]) <= Len(log'[0]) /\ Len(log'[0]) \in Nat
      BY <1>2, <1>3, <3>1
    <3> QED BY <1>1, <3>1, <3>2, OthersStay
  <2> QED BY <2>1, <2>2
<1> QED BY <1>5, <1>6, <1>7, <1>8, <1>9 DEF LogsInv

----------------------------------------------------------------------------

(* Before the first call nothing is logged.                                *)
LEMMA NothingIsLogged ==
  ASSUME Init
  PROVE  LogsInv
<1>1. 0 \in Ranks /\ 1 - 1 = 0 /\ Len(<<>>) = 0 /\ <<>> \in Seq(Histograms)
  BY RanksAssumption
<1>2. CallsOf(program, "kernel", 0) = 0
  BY CountingCalls
<1>3. RootInv
  <2>1. posted \in Seq(ToSet(posted)) /\ Len(posted) = passed[0]
    BY <1>1 DEF Init
  <2>2. Len(log[0]) = CallsOf(program, "kernel", at[0] - 1) + Logged(pc[0])
    BY <1>1, <1>2 DEF Init, Logged
  <2> QED BY <1>1, <2>1, <2>2 DEF Init, RootInv
<1>4. \A r \in Ranks \ {0} : OtherInv(r)
  BY <1>1, <1>2 DEF Init, OtherInv
<1> QED BY <1>1, <1>3, <1>4 DEF Init, LogsInv

(* The logs after any step, when what the root calls can be sent.          *)
LEMMA StepKeepsLogs ==
  ASSUME [Next]_vars, SyncInv, SyncInv', LogsInv,
         Calling(0, "kernel") => CanBeSent(program[at[0]].name)
  PROVE  LogsInv'
<1>1. ASSUME NEW r \in Ranks, Step(r) PROVE LogsInv'
  BY <1>1, RootStepKeepsLogs, OtherStepKeepsLogs
<1>2. CASE UNCHANGED vars
  BY <1>2 DEF vars, LogsInv, RootInv, OtherInv
<1> QED BY <1>1, <1>2 DEF Next

(* Then every rank has logged what the root has, as far as it has come.    *)
LEMMA LogsAgree ==
  ASSUME LogsInv
  PROVE  RanksAgree
<1> SUFFICES ASSUME NEW r \in Ranks
             PROVE  Len(log[r]) <= Len(log[0]) /\ log[r] = SubSeq(log[0], 1, Len(log[r]))
  BY DEF RanksAgree
<1>1. /\ log[0] \in Seq(Histograms) /\ Len(log[0]) \in Nat
      /\ log[r] \in Seq(Histograms) /\ Len(log[r]) \in Nat
  BY RanksAssumption, LenProperties DEF LogsInv
<1>2. Len(log[r]) <= Len(log[0]) /\ \A k \in 1 .. Len(log[r]) : log[r][k] = log[0][k]
  BY <1>1 DEF LogsInv, OtherInv
<1> DEFINE n == Len(log[r])
           s == SubSeq(log[0], 1, n)
<1>3. s \in Seq(Histograms) /\ Len(s) = n /\ \A k \in 1 .. n : s[k] = log[0][k]
  <2>1. \A k \in 1 .. n : k \in 1 .. Len(log[0])
    BY <1>1, <1>2
  <2>2. \A k \in 1 .. n : log[0][k] \in Histograms
    BY <1>1, <2>1, ElementOfSeq
  <2> HIDE DEF n
  <2>3. /\ SubSeq(log[0], 1, n) \in Seq(Histograms)
        /\ Len(SubSeq(log[0], 1, n)) = IF 1 <= n THEN n - 1 + 1 ELSE 0
        /\ \A k \in 1 .. n - 1 + 1 : SubSeq(log[0], 1, n)[k] = log[0][1 + k - 1]
    BY <1>1, <2>2, SubSeqProperties DEF n
  <2> QED BY <1>1, <2>3 DEF n
<1> HIDE DEF s
<1>4. log[r] = s
  BY <1>1, <1>2, <1>3, SeqEqual DEF n
<1> QED BY <1>2, <1>4 DEF s, n

(***************************************************************************)
(* After each broadcast every rank holds what the root measured, whatever  *)
(* the ranks, their programs and the histograms, as long as every one fits *)
(* the buffer: a histogram is packed, posted, received and unpacked as it  *)
(* was, and no rank takes the bytes of another call for its own.           *)
(***************************************************************************)
THEOREM RanksHoldWhatWasMeasured ==
  ASSUME RunsFit
  PROVE  Spec => []RanksAgree
<1> DEFINE Compiled == bitcode = [k \in DOMAIN Runs |-> k]
<1>1. Init /\ Compiled => LogsInv /\ Compiled
  BY NothingIsLogged
<1>2. SyncInv /\ SyncInv' /\ LogsInv /\ Compiled /\ [Next /\ UNCHANGED bitcode]_<<vars, bitcode>>
      => LogsInv' /\ Compiled'
  <2> SUFFICES ASSUME SyncInv, SyncInv', LogsInv, Compiled, [Next /\ UNCHANGED bitcode]_<<vars, bitcode>>
               PROVE  LogsInv' /\ Compiled'
    OBVIOUS
  <2>1. CanBeSent(program[at[0]].name)
    BY DEF RunsFit, CanBeSent
  <2>2. [Next]_vars /\ Compiled'
    OBVIOUS
  <2> QED BY <2>1, <2>2, StepKeepsLogs
<1>3. Spec => Runtime
  <2>1. [Next /\ UNCHANGED bitcode]_<<vars, bitcode>> => [Next]_vars
    OBVIOUS
  <2> QED BY <2>1, PTL DEF Spec, Runtime
<1> HIDE DEF Compiled
<1>4. Spec => Init /\ Compiled /\ [][Next /\ UNCHANGED bitcode]_<<vars, bitcode>>
  BY PTL DEF Spec, Compiled
<1> QED BY <1>1, <1>2, <1>3, <1>4, RanksAreCounted, LogsAgree, PTL

-----------------------------------------------------------------------------
(* What compiling a kernel gives, and the files only its thread writes. *)
Result(d, i) == Contents(Text(d, i), job[d].options)

Own(d, i) == {Input(d, i), Output(d, i), Tmp(d, i)}

Shapes ==
  /\ job \in [Drivers -> UNION { Jobs[d] : d \in Drivers }]
  /\ \A d \in Drivers : job[d] \in Jobs[d]
  /\ starts \in [Drivers -> Nat]
  /\ state \in [Drivers -> {"building", "built", "error", "killed"}]
  /\ doing = [d \in Drivers |-> [i \in Kernels(d) |-> doing[d][i]]]
  /\ held = [d \in Drivers |-> [i \in Kernels(d) |-> held[d][i]]]

Holds(path, c) == path \in DOMAIN disk /\ disk[path] = c

(* What thread i of driver d relies on where it is. *)
Relies(d, i) ==
  /\ doing[d][i] \in {"copying", "emitting", "storing"} => held[d][i] = Result(d, i)
  /\ doing[d][i] = "hit" => Entry(d, i) \in DOMAIN disk
  /\ doing[d][i] = "compiling" => Holds(Input(d, i), Contents(Text(d, i), ""))
  /\ doing[d][i] \in {"store", "storing", "publish", "done"} => Holds(Output(d, i), Result(d, i))
  /\ doing[d][i] = "publish" => Holds(Tmp(d, i), Result(d, i))

ThreadsRely ==
  \A d \in Drivers : state[d] \in {"building", "built"} =>
    \A i \in Kernels(d) : Relies(d, i)

BuiltIsDone ==
  \A d \in Drivers : state[d] = "built" => \A i \in Kernels(d) : doing[d][i] = "done"

Inv == Shapes /\ EntriesAreWhole /\ ThreadsRely /\ BuiltIsDone

----------------------------------------------------------------------------

(* Kernels of one job have different names and texts. *)
LEMMA JobsAreInjective ==
  ASSUME Shapes, NEW d \in Drivers, NEW i \in Kernels(d), NEW k \in Kernels(d), i # k
  PROVE  Base(d, i) # Base(d, k) /\ Text(d, i) # Text(d, k)
<1> DEFINE j == job[d]
<1>1. j \in Jobs[d]
  BY DEF Shapes
<1>2. j.kernels \in Seq(DOMAIN j.text) /\ IsInjective(j.kernels) /\ IsInjective(j.text)
  BY <1>1, JobsAssumption
<1>3. j.kernels[i] \in DOMAIN j.text /\ j.kernels[k] \in DOMAIN j.text
  BY <1>2 DEF Kernels
<1>4. j.kernels[i] # j.kernels[k]
  BY <1>2 DEF Kernels, IsInjective
<1>5. j.text[j.kernels[i]] # j.text[j.kernels[k]]
  BY <1>2, <1>3, <1>4 DEF IsInjective
<1> QED BY <1>4, <1>5 DEF Base, Text

(* The files of a thread are told apart by their first component. *)
LEMMA Tags ==
  ASSUME Shapes, NEW d \in Drivers, NEW i \in Kernels(d)
  PROVE  /\ Input(d, i)[1] = "input" /\ Tmp(d, i)[1] = "tmp" /\ Entry(d, i)[1] = "entry"
         /\ Output(d, i)[1] \in {"qir-runner", "qasm-backend"}
<1>1. job[d].backend \in {"qir-runner", "qasm-backend"}
  BY JobsAssumption DEF Shapes
<1> QED BY <1>1 DEF Input, Output, Tmp, Entry

(* No thread writes the files of another one. *)
LEMMA OwnIsDisjoint ==
  ASSUME Shapes, NEW d \in Drivers, NEW i \in Kernels(d),
         NEW e \in Drivers, NEW k \in Kernels(e), d # e \/ i # k
  PROVE  Own(d, i) \cap Own(e, k) = {}
<1>1. d = e => Base(d, i) # Base(e, k) /\ Text(d, i) # Text(e, k)
  BY JobsAreInjective
<1>2. Input(d, i) # Input(e, k)
  BY <1>1 DEF Input
<1>3. Output(d, i) # Output(e, k)
  BY <1>1 DEF Output
<1>4. Tmp(d, i) # Tmp(e, k)
  BY <1>1 DEF Tmp, Key
<1> QED BY <1>2, <1>3, <1>4, Tags DEF Own

----------------------------------------------------------------------------

(* A thread's step keeps what the others rely on. *)
LEMMA OthersAreLeftAlone ==
  ASSUME Inv, Shapes', NEW d \in Drivers, NEW i \in Kernels(d), SameRun,
         state[d] = "building",
         \A e \in Drivers : \A k \in Kernels(e) : (e # d \/ k # i) =>
           doing'[e][k] = doing[e][k] /\ held'[e][k] = held[e][k],
         \A p \in DOMAIN disk \ Own(d, i) : p # Entry(d, i) =>
           p \in DOMAIN disk' /\ disk'[p] = disk[p],
         Entry(d, i) \in DOMAIN disk => Entry(d, i) \in DOMAIN disk',
         EntriesAreWhole', Relies(d, i)'
  PROVE  Inv'
<1> USE DEF SameRun
<1>1. \A e \in Drivers : Kernels(e)' = Kernels(e)
  BY DEF Kernels
<1>2. ASSUME NEW e \in Drivers, NEW k \in Kernels(e), e # d \/ k # i, Relies(e, k)
      PROVE  Relies(e, k)'
  <2>1. Own(e, k) \cap Own(d, i) = {} /\ Shapes
    BY <1>2, OwnIsDisjoint DEF Inv
  <2>2. \A p \in Own(e, k) : p # Entry(d, i)
    BY <2>1, Tags DEF Own
  <2>3. \A p \in Own(e, k) : \A c : Holds(p, c) => Holds(p, c)'
    BY <2>1, <2>2 DEF Holds
  <2>4. Entry(e, k) \in DOMAIN disk => Entry(e, k) \in DOMAIN disk'
    BY <2>1, Tags DEF Own
  <2>5. /\ Input(e, k)' = Input(e, k) /\ Output(e, k)' = Output(e, k)
        /\ Tmp(e, k)' = Tmp(e, k) /\ Entry(e, k)' = Entry(e, k)
        /\ Text(e, k)' = Text(e, k) /\ Result(e, k)' = Result(e, k)
    BY DEF Input, Output, Tmp, Entry, Key, Base, Text, Result, Contents
  <2>6. doing'[e][k] = doing[e][k] /\ held'[e][k] = held[e][k]
    BY <1>2
  <2>7. /\ Holds(Input(e, k), Contents(Text(e, k), "")) => Holds(Input(e, k), Contents(Text(e, k), ""))'
        /\ Holds(Output(e, k), Result(e, k)) => Holds(Output(e, k), Result(e, k))'
        /\ Holds(Tmp(e, k), Result(e, k)) => Holds(Tmp(e, k), Result(e, k))'
    BY <2>3, <2>5 DEF Own, Holds, Contents
  <2> QED BY <1>2, <2>4, <2>5, <2>6, <2>7 DEF Relies
<1>3. ThreadsRely'
  BY <1>1, <1>2 DEF Inv, ThreadsRely
<1>4. BuiltIsDone'
  BY <1>1 DEF Inv, BuiltIsDone
<1> QED BY <1>3, <1>4 DEF Inv

(* The bookkeeping of a thread's step: its place, and what it holds. *)
LEMMA BecomesIsLocal ==
  ASSUME Shapes, NEW d \in Drivers, NEW i \in Kernels(d), NEW what, Becomes(d, i, what)
  PROVE  /\ doing' = [e \in Drivers |-> [k \in Kernels(e) |-> doing'[e][k]]]
         /\ doing'[d][i] = what
         /\ \A e \in Drivers : \A k \in Kernels(e) :
              (e # d \/ k # i) => doing'[e][k] = doing[e][k]
  BY DEF Becomes, Shapes

LEMMA HoldIsLocal ==
  ASSUME Shapes, NEW d \in Drivers, NEW i \in Kernels(d), NEW c, Hold(d, i, c)
  PROVE  /\ held' = [e \in Drivers |-> [k \in Kernels(e) |-> held'[e][k]]]
         /\ held'[d][i] = c
         /\ \A e \in Drivers : \A k \in Kernels(e) :
              (e # d \/ k # i) => held'[e][k] = held[e][k]
  BY DEF Hold, Shapes

(* Writing a file leaves every other file alone. *)
LEMMA WriteIsLocal ==
  ASSUME NEW path, NEW c, Write(path, c)
  PROVE  /\ DOMAIN disk' = DOMAIN disk \cup {path}
         /\ disk'[path] = c
         /\ \A p \in DOMAIN disk : p # path => disk'[p] = disk[p]
  BY DEF Write

(***************************************************************************)
(* A step of a thread that writes at most its own files keeps the          *)
(* invariant if it leaves the thread what it then relies on.               *)
(***************************************************************************)
LEMMA OwnStep ==
  ASSUME Inv, NEW d \in Drivers, NEW i \in Kernels(d), state[d] = "building", SameRun,
         NEW what, Becomes(d, i, what),
         (\E c : Hold(d, i, c)) \/ UNCHANGED held,
         NEW path \in Own(d, i),
         (\E c : Write(path, c)) \/ UNCHANGED disk,
         Relies(d, i)'
  PROVE  Inv'
<1>1. Shapes
  BY DEF Inv
<1>2. /\ doing' = [e \in Drivers |-> [k \in Kernels(e) |-> doing'[e][k]]]
      /\ \A e \in Drivers : \A k \in Kernels(e) :
           (e # d \/ k # i) => doing'[e][k] = doing[e][k]
  BY <1>1, BecomesIsLocal
<1>3. /\ held' = [e \in Drivers |-> [k \in Kernels(e) |-> held'[e][k]]]
      /\ \A e \in Drivers : \A k \in Kernels(e) :
           (e # d \/ k # i) => held'[e][k] = held[e][k]
  BY <1>1, HoldIsLocal DEF Shapes
<1>4. Shapes'
  BY <1>1, <1>2, <1>3 DEF Shapes, SameRun, Kernels
<1>5. /\ DOMAIN disk' \subseteq DOMAIN disk \cup {path} /\ DOMAIN disk \subseteq DOMAIN disk'
      /\ \A p \in DOMAIN disk : p # path => disk'[p] = disk[p]
  BY WriteIsLocal
<1>6. path[1] # "entry"
  BY <1>1, Tags DEF Own
<1>7. EntriesAreWhole'
  BY <1>5, <1>6 DEF Inv, EntriesAreWhole
<1> QED BY <1>2, <1>3, <1>4, <1>5, <1>7, OthersAreLeftAlone

----------------------------------------------------------------------------

(* Compiling reads back the text that was written. *)
LEMMA ContentsHaveText ==
  ASSUME NEW text, NEW options, NEW c, c = Contents(text, options)
  PROVE  c.text = text
BY DEF Contents

(* Every statement of a thread keeps the invariant. *)
LEMMA KernelStepKeepsInv ==
  ASSUME Inv, NEW d \in Drivers, NEW i \in Kernels(d), KernelStep(d, i)
  PROVE  Inv'
<1>1. Shapes /\ state[d] = "building" /\ SameRun
  BY DEF Inv, KernelStep, TakeCached, TakeMissing, Takes, OpenHit, CloseHit, CompilerEmits,
         CompilerExits, OpenTmp, CloseTmp, Publish, ThreadFails, At
<1>2. Relies(d, i)
  BY <1>1 DEF Inv, ThreadsRely
<1>3. /\ Input(d, i)' = Input(d, i) /\ Output(d, i)' = Output(d, i)
      /\ Tmp(d, i)' = Tmp(d, i) /\ Entry(d, i)' = Entry(d, i)
      /\ Text(d, i)' = Text(d, i) /\ Result(d, i)' = Result(d, i)
  BY <1>1 DEF SameRun, Input, Output, Tmp, Entry, Key, Base, Text, Result, Contents
<1>4. Input(d, i) \in Own(d, i) /\ Output(d, i) \in Own(d, i) /\ Tmp(d, i) \in Own(d, i)
  BY DEF Own
<1>5. CASE TakeCached(d, i)
  <2>1. Becomes(d, i, "hit") /\ UNCHANGED <<held, disk>> /\ Entry(d, i) \in DOMAIN disk
    BY <1>5 DEF TakeCached, Takes, IsHit
  <2>2. doing'[d][i] = "hit"
    BY <1>1, <2>1, BecomesIsLocal
  <2>3. Relies(d, i)'
    BY <1>3, <2>1, <2>2 DEF Relies
  <2> QED BY <1>1, <1>4, <2>1, <2>3, OwnStep
<1>6. CASE TakeMissing(d, i)
  <2>1. /\ Becomes(d, i, "compiling") /\ UNCHANGED held
        /\ Write(Input(d, i), Contents(Text(d, i), ""))
    BY <1>6 DEF TakeMissing, Takes
  <2>2. doing'[d][i] = "compiling"
    BY <1>1, <2>1, BecomesIsLocal
  <2>3. Holds(Input(d, i), Contents(Text(d, i), ""))'
    BY <1>3, <2>1, WriteIsLocal DEF Holds, Contents
  <2>4. Relies(d, i)'
    BY <1>3, <2>2, <2>3 DEF Relies
  <2> QED BY <1>1, <1>4, <2>1, <2>4, OwnStep
<1>7. CASE OpenHit(d, i)
  <2>1. /\ Becomes(d, i, "copying") /\ Hold(d, i, disk[Entry(d, i)])
        /\ Write(Output(d, i), Part(disk[Entry(d, i)])) /\ doing[d][i] = "hit"
    BY <1>7 DEF OpenHit, Open, At
  <2>2. disk[Entry(d, i)] = Result(d, i)
    BY <1>2, <2>1 DEF Inv, EntriesAreWhole, Relies, Entry, Key, Result
  <2>3. doing'[d][i] = "copying" /\ held'[d][i] = Result(d, i)
    BY <1>1, <2>1, <2>2, BecomesIsLocal, HoldIsLocal
  <2>4. Relies(d, i)'
    BY <1>3, <2>3 DEF Relies
  <2> QED BY <1>1, <1>4, <2>1, <2>4, OwnStep
<1>8. CASE CloseHit(d, i)
  <2>1. /\ Becomes(d, i, "done") /\ Hold(d, i, Nothing)
        /\ Write(Output(d, i), held[d][i]) /\ doing[d][i] = "copying"
    BY <1>8 DEF CloseHit, Close, At
  <2>2. doing'[d][i] = "done"
    BY <1>1, <2>1, BecomesIsLocal
  <2>3. Holds(Output(d, i), Result(d, i))'
    BY <1>2, <1>3, <2>1, WriteIsLocal DEF Holds, Relies
  <2>4. Relies(d, i)'
    BY <1>3, <2>2, <2>3 DEF Relies
  <2> QED BY <1>1, <1>4, <2>1, <2>4, OwnStep
<1>9. CASE CompilerEmits(d, i)
  <2> DEFINE c == Contents(disk[Input(d, i)].text, job[d].options)
  <2>1. /\ Becomes(d, i, "emitting") /\ Hold(d, i, c)
        /\ Write(Output(d, i), Part(c)) /\ doing[d][i] = "compiling"
    BY <1>9 DEF CompilerEmits, Open, At
  <2>2. c = Result(d, i)
    <3>1. disk[Input(d, i)] = Contents(Text(d, i), "")
      BY <1>2, <2>1 DEF Relies, Holds
    <3>2. disk[Input(d, i)].text = Text(d, i)
      BY <3>1, ContentsHaveText
    <3> QED BY <3>2 DEF Result
  <2>3. doing'[d][i] = "emitting" /\ held'[d][i] = Result(d, i)
    BY <1>1, <2>1, <2>2, BecomesIsLocal, HoldIsLocal
  <2>4. Relies(d, i)'
    BY <1>3, <2>3 DEF Relies
  <2> QED BY <1>1, <1>4, <2>1, <2>4, OwnStep
<1>10. CASE CompilerExits(d, i)
  <2> DEFINE next == IF job[d].backend = "qir-runner" THEN "store" ELSE "done"
  <2>1. /\ Becomes(d, i, next) /\ Hold(d, i, Nothing) /\ doing[d][i] = "emitting"
        /\ disk' = [p \in (DOMAIN disk \cup {Output(d, i)}) \ {Input(d, i)} |->
                     IF p = Output(d, i) THEN held[d][i] ELSE disk[p]]
    BY <1>10 DEF CompilerExits, At
  <2>2. doing'[d][i] \in {"store", "done"}
    BY <1>1, <2>1, BecomesIsLocal
  <2>3. Output(d, i) # Input(d, i) /\ Entry(d, i) # Input(d, i) /\ Entry(d, i) # Output(d, i)
    BY <1>1, Tags
  <2>4. Holds(Output(d, i), Result(d, i))'
    BY <1>2, <1>3, <2>1, <2>3 DEF Holds, Relies
  <2>5. Relies(d, i)'
    BY <1>3, <2>2, <2>4 DEF Relies
  <2>6. EntriesAreWhole'
    BY <1>1, <2>1, Tags DEF Inv, EntriesAreWhole
  <2>7. Shapes'
    BY <1>1, <2>1, BecomesIsLocal, HoldIsLocal DEF Shapes, SameRun, Kernels
  <2>8. \A p \in DOMAIN disk \ Own(d, i) : p \in DOMAIN disk' /\ disk'[p] = disk[p]
    BY <1>4, <2>1
  <2>9. Entry(d, i) \in DOMAIN disk => Entry(d, i) \in DOMAIN disk'
    BY <2>1, <2>3
  <2>10. \A e \in Drivers : \A k \in Kernels(e) : (e # d \/ k # i) =>
           doing'[e][k] = doing[e][k] /\ held'[e][k] = held[e][k]
    BY <1>1, <2>1, BecomesIsLocal, HoldIsLocal
  <2> QED BY <1>1, <2>5, <2>6, <2>7, <2>8, <2>9, <2>10, OthersAreLeftAlone
<1>11. CASE OpenTmp(d, i)
  <2>1. /\ Becomes(d, i, "storing") /\ Hold(d, i, disk[Output(d, i)])
        /\ Write(Tmp(d, i), Part(disk[Output(d, i)])) /\ doing[d][i] = "store"
    BY <1>11 DEF OpenTmp, Open, At
  <2>2. Holds(Output(d, i), Result(d, i))
    BY <1>2, <2>1 DEF Relies
  <2>3. doing'[d][i] = "storing" /\ held'[d][i] = Result(d, i)
    BY <1>1, <2>1, <2>2, BecomesIsLocal, HoldIsLocal DEF Holds
  <2>4. Holds(Output(d, i), Result(d, i))'
    BY <1>1, <1>3, <2>1, <2>2, WriteIsLocal, Tags DEF Holds
  <2>5. Relies(d, i)'
    BY <1>3, <2>3, <2>4 DEF Relies
  <2> QED BY <1>1, <1>4, <2>1, <2>5, OwnStep
<1>12. CASE CloseTmp(d, i)
  <2>1. /\ Becomes(d, i, "publish") /\ Hold(d, i, Nothing)
        /\ Write(Tmp(d, i), held[d][i]) /\ doing[d][i] = "storing"
    BY <1>12 DEF CloseTmp, Close, At
  <2>2. Holds(Output(d, i), Result(d, i)) /\ held[d][i] = Result(d, i)
    BY <1>2, <2>1 DEF Relies
  <2>3. doing'[d][i] = "publish"
    BY <1>1, <2>1, BecomesIsLocal
  <2>4. Holds(Output(d, i), Result(d, i))' /\ Holds(Tmp(d, i), Result(d, i))'
    <3>1. /\ DOMAIN disk' = DOMAIN disk \cup {Tmp(d, i)}
          /\ disk'[Tmp(d, i)] = held[d][i]
          /\ \A p \in DOMAIN disk : p # Tmp(d, i) => disk'[p] = disk[p]
      BY <2>1, WriteIsLocal
    <3>2. Output(d, i) # Tmp(d, i)
      BY <1>1, Tags
    <3> QED BY <1>3, <2>2, <3>1, <3>2 DEF Holds
  <2>5. Relies(d, i)'
    BY <1>3, <2>3, <2>4 DEF Relies
  <2> QED BY <1>1, <1>4, <2>1, <2>5, OwnStep
<1>13. CASE Publish(d, i)
  <2>1. /\ Becomes(d, i, "done") /\ UNCHANGED held /\ doing[d][i] = "publish"
        /\ disk' = [p \in (DOMAIN disk \cup {Entry(d, i)}) \ {Tmp(d, i)} |->
                     IF p = Entry(d, i) THEN disk[Tmp(d, i)] ELSE disk[p]]
    BY <1>13 DEF Publish, At
  <2>2. Holds(Output(d, i), Result(d, i)) /\ Holds(Tmp(d, i), Result(d, i))
    BY <1>2, <2>1 DEF Relies
  <2>3. doing'[d][i] = "done"
    BY <1>1, <2>1, BecomesIsLocal
  <2>4. Entry(d, i) # Tmp(d, i) /\ Output(d, i) # Tmp(d, i) /\ Output(d, i) # Entry(d, i)
    BY <1>1, Tags
  <2>5. Holds(Output(d, i), Result(d, i))'
    BY <1>3, <2>1, <2>2, <2>4 DEF Holds
  <2>6. Relies(d, i)'
    BY <1>3, <2>3, <2>5 DEF Relies
  <2>7. EntriesAreWhole'
    <3>1. disk[Tmp(d, i)] = Contents(Key(d, i).text, Key(d, i).options)
      BY <2>2 DEF Holds, Result, Key
    <3> QED BY <2>1, <3>1 DEF Inv, EntriesAreWhole, Entry
  <2>8. Shapes'
    BY <1>1, <2>1, BecomesIsLocal DEF Shapes, SameRun, Kernels
  <2>9. \A p \in DOMAIN disk \ Own(d, i) : p # Entry(d, i) =>
          p \in DOMAIN disk' /\ disk'[p] = disk[p]
    BY <1>4, <2>1
  <2>10. Entry(d, i) \in DOMAIN disk'
    BY <2>1, <2>4
  <2>11. \A e \in Drivers : \A k \in Kernels(e) : (e # d \/ k # i) =>
           doing'[e][k] = doing[e][k] /\ held'[e][k] = held[e][k]
    BY <1>1, <2>1, BecomesIsLocal
  <2> QED BY <1>1, <2>6, <2>7, <2>9, <2>8, <2>10, <2>11, OthersAreLeftAlone
<1>14. CASE ThreadFails(d, i)
  <2>1. Becomes(d, i, "failed") /\ Hold(d, i, Nothing) /\ UNCHANGED disk
    BY <1>14 DEF ThreadFails
  <2>2. doing'[d][i] = "failed"
    BY <1>1, <2>1, BecomesIsLocal
  <2>3. Relies(d, i)'
    BY <2>2 DEF Relies
  <2> QED BY <1>1, <1>4, <2>1, <2>3, OwnStep
<1> QED BY <1>5, <1>6, <1>7, <1>8, <1>9, <1>10, <1>11, <1>12, <1>13, <1>14 DEF KernelStep

----------------------------------------------------------------------------

(* A thread whose driver, statement and files stay relies on what it did. *)
LEMMA LeftAlone ==
  ASSUME NEW e \in Drivers, NEW i \in Kernels(e), Relies(e, i),
         job'[e] = job[e], starts'[e] = starts[e], disk' = disk,
         doing'[e][i] = doing[e][i], held'[e][i] = held[e][i]
  PROVE  Relies(e, i)'
<1>1. Base(e, i)' = Base(e, i) /\ Text(e, i)' = Text(e, i)
  BY DEF Base, Text
<1>2. /\ Input(e, i)' = Input(e, i) /\ Output(e, i)' = Output(e, i)
      /\ Tmp(e, i)' = Tmp(e, i) /\ Entry(e, i)' = Entry(e, i)
  BY <1>1 DEF Input, Output, Tmp, Entry, Key
<1>3. Result(e, i)' = Result(e, i) /\ Contents(Text(e, i), "")' = Contents(Text(e, i), "")
  BY <1>1 DEF Result, Contents
<1> QED BY <1>2, <1>3 DEF Relies, Holds

(* A build that ends, is killed or starts again. *)
LEMMA DriverStepKeepsInv ==
  ASSUME Inv, NEW d \in Drivers, Link(d) \/ GiveUp(d) \/ Kill(d) \/ StartAgain(d)
  PROVE  Inv'
<1>1. Shapes /\ UNCHANGED <<cpus, disk>>
  BY DEF Inv, Link, GiveUp, Kill, StartAgain
<1>2. EntriesAreWhole'
  BY <1>1 DEF Inv, EntriesAreWhole
<1>3. CASE Link(d) \/ GiveUp(d)
  <2>1. PICK end \in {"built", "error"} :
          /\ UNCHANGED <<job, starts, doing, held, disk>> /\ state[d] = "building"
          /\ state' = [state EXCEPT ![d] = end]
          /\ end = "built" => \A i \in Kernels(d) : doing[d][i] = "done"
    BY <1>3 DEF Link, GiveUp
  <2>2. Shapes'
    BY <1>1, <2>1 DEF Shapes, Kernels
  <2>3. \A e \in Drivers : Kernels(e)' = Kernels(e)
    BY <2>1 DEF Kernels
  <2>4. \A e \in Drivers : \A i \in Kernels(e) : Relies(e, i)' = Relies(e, i)
    BY <2>1 DEF Relies, Holds, Result, Contents, Input, Output, Tmp, Entry, Key, Base, Text
  <2>5. \A e \in Drivers : state'[e] = IF e = d THEN end ELSE state[e]
    BY <1>1, <2>1 DEF Shapes
  <2>6. ThreadsRely'
    BY <2>1, <2>3, <2>4, <2>5 DEF Inv, ThreadsRely
  <2>7. BuiltIsDone'
    BY <2>1, <2>3, <2>5 DEF Inv, BuiltIsDone
  <2> QED BY <1>2, <2>2, <2>6, <2>7 DEF Inv
<1>4. CASE Kill(d) \/ StartAgain(d)
  <2>1. PICK j \in Jobs[d], what \in {"failed", "queued"} :
          /\ job' = [job EXCEPT ![d] = j]
          /\ doing' = [doing EXCEPT ![d] = All(j, what)]
          /\ held' = [held EXCEPT ![d] = All(j, Nothing)]
    <3>1. CASE Kill(d)
      <4>1. job' = [job EXCEPT ![d] = job[d]] /\ job[d] \in Jobs[d]
        BY <1>1, <3>1 DEF Kill, Shapes
      <4> QED BY <3>1, <4>1 DEF Kill
    <3>2. CASE StartAgain(d)
      BY <3>2 DEF StartAgain
    <3> QED BY <1>4, <3>1, <3>2
  <2>2. /\ \A e \in Drivers : e # d =>
             state'[e] = state[e] /\ starts'[e] = starts[e] /\ job'[e] = job[e]
             /\ doing'[e] = doing[e] /\ held'[e] = held[e]
        /\ state'[d] \in {"killed", "building"}
        /\ state' \in [Drivers -> {"building", "built", "error", "killed"}]
        /\ starts' \in [Drivers -> Nat]
    <3>1. /\ \A e \in Drivers : e # d => job'[e] = job[e] /\ doing'[e] = doing[e]
          /\ \A e \in Drivers : e # d => held'[e] = held[e]
      BY <1>1, <2>1 DEF Shapes
    <3>2. /\ \A e \in Drivers : e # d => state'[e] = state[e]
          /\ state'[d] \in {"killed", "building"}
          /\ state' \in [Drivers -> {"building", "built", "error", "killed"}]
      <4>1. PICK s \in {"killed", "building"} : state' = [state EXCEPT ![d] = s]
        BY <1>4 DEF Kill, StartAgain
      <4> QED BY <1>1, <4>1 DEF Shapes
    <3>3. /\ \A e \in Drivers : e # d => starts'[e] = starts[e]
          /\ starts' \in [Drivers -> Nat]
      <4>1. starts' = starts \/ starts' = [starts EXCEPT ![d] = @ + 1]
        BY <1>4 DEF Kill, StartAgain
      <4>2. starts \in [Drivers -> Nat] /\ starts[d] + 1 \in Nat
        BY <1>1 DEF Shapes
      <4>3. CASE starts' = starts
        BY <4>2, <4>3
      <4>4. CASE starts' = [starts EXCEPT ![d] = @ + 1]
        BY <4>2, <4>4
      <4> QED BY <4>1, <4>3, <4>4
    <3> QED BY <3>1, <3>2, <3>3
  <2>3. /\ job' \in [Drivers -> UNION { Jobs[e] : e \in Drivers }]
        /\ \A e \in Drivers : job'[e] \in Jobs[e]
    BY <1>1, <2>1 DEF Shapes
  <2>4. Kernels(d)' = DOMAIN j.kernels /\ doing'[d] = All(j, what) /\ held'[d] = All(j, Nothing)
    BY <1>1, <2>1 DEF Shapes, Kernels
  <2>5. \A e \in Drivers : e # d => Kernels(e)' = Kernels(e)
    BY <2>2 DEF Kernels
  <2>6. Shapes'
    <3>1. doing' = [e \in Drivers |-> [i \in Kernels(e)' |-> doing'[e][i]]]
      <4>1. doing' = [e \in Drivers |-> doing'[e]]
        BY <1>1, <2>1 DEF Shapes
      <4>2. doing'[d] = [i \in Kernels(d)' |-> doing'[d][i]]
        BY <2>4 DEF All
      <4>3. \A e \in Drivers : doing[e] = [i \in Kernels(e) |-> doing[e][i]]
        BY <1>1 DEF Shapes
      <4>4. \A e \in Drivers : e # d => doing'[e] = [i \in Kernels(e)' |-> doing'[e][i]]
        BY <2>2, <2>5, <4>3
      <4> QED BY <4>1, <4>2, <4>4
    <3>2. held' = [e \in Drivers |-> [i \in Kernels(e)' |-> held'[e][i]]]
      BY <1>1, <2>1, <2>4, <2>5 DEF Shapes, All
    <3> QED BY <2>2, <2>3, <3>1, <3>2 DEF Shapes
  <2>7. \A i \in Kernels(d)' : Relies(d, i)'
    BY <2>4 DEF Relies, All
  <2>8. ASSUME NEW e \in Drivers, e # d, NEW i \in Kernels(e), Relies(e, i)
        PROVE  Relies(e, i)'
    <3>1. /\ job'[e] = job[e] /\ starts'[e] = starts[e] /\ disk' = disk
          /\ doing'[e][i] = doing[e][i] /\ held'[e][i] = held[e][i]
      BY <1>1, <2>2, <2>8
    <3> QED BY <2>8, <3>1, LeftAlone
  <2>9. ThreadsRely'
    BY <2>2, <2>5, <2>7, <2>8 DEF Inv, ThreadsRely
  <2>10. BuiltIsDone'
    BY <2>2, <2>5 DEF Inv, BuiltIsDone
  <2> QED BY <1>2, <2>6, <2>9, <2>10 DEF Inv
<1> QED BY <1>3, <1>4

(* A step that changes nothing of the build keeps the invariant. *)
LEMMA StutterKeepsInv ==
  ASSUME Inv, UNCHANGED buildVars
  PROVE  Inv'
<1>1. /\ job' = job /\ starts' = starts /\ state' = state
      /\ doing' = doing /\ held' = held /\ disk' = disk
  BY DEF buildVars
<1>2. \A e \in Drivers : Kernels(e)' = Kernels(e)
  BY <1>1 DEF Kernels
<1>3. Shapes'
  BY <1>1, <1>2 DEF Inv, Shapes
<1>4. EntriesAreWhole'
  BY <1>1 DEF Inv, EntriesAreWhole
<1>5. ASSUME NEW e \in Drivers, NEW i \in Kernels(e), Relies(e, i)
      PROVE  Relies(e, i)'
  BY <1>1, <1>5, LeftAlone
<1>6. ThreadsRely'
  BY <1>1, <1>2, <1>5 DEF Inv, ThreadsRely
<1>7. BuiltIsDone'
  BY <1>1, <1>2 DEF Inv, BuiltIsDone
<1> QED BY <1>3, <1>4, <1>6, <1>7 DEF Inv

(* The invariant holds before anything is built, and after everything is. *)
LEMMA InitHasInv ==
  ASSUME BuildInit \/ BuiltBefore
  PROVE  Inv
<1>1. PICK how \in {"building", "built"}, what \in {"queued", "done"} :
        Begins(how, what) /\ (how = "built" => what = "done")
  BY DEF BuildInit, BuiltBefore
<1>2. Shapes
  BY <1>1 DEF Begins, Shapes, All, Kernels
<1>3. \A d \in Drivers : \A i \in Kernels(d) : doing[d][i] = what
  BY <1>1 DEF Begins, All, Kernels
<1>4. BuiltIsDone
  BY <1>1, <1>3 DEF BuiltIsDone, Begins
<1>5. CASE BuildInit
  <2>1. DOMAIN disk = {} /\ Begins("building", "queued")
    BY <1>5 DEF BuildInit
  <2>2. \A d \in Drivers : \A i \in Kernels(d) : doing[d][i] = "queued"
    BY <2>1 DEF Begins, All, Kernels
  <2>3. EntriesAreWhole
    BY <2>1 DEF EntriesAreWhole
  <2>4. ThreadsRely
    BY <2>2 DEF ThreadsRely, Relies
  <2> QED BY <1>2, <1>4, <2>3, <2>4 DEF Inv
<1>6. CASE BuiltBefore
  <2> DEFINE paths == UNION { { Output(d, i) : i \in Kernels(d) } : d \in Drivers }
  <2>1. /\ Begins("built", "done")
        /\ disk = [p \in paths |-> Contents(job[p[2]].text[p[3]], job[p[2]].options)]
    BY <1>6 DEF BuiltBefore
  <2>2. \A d \in Drivers : \A i \in Kernels(d) : doing[d][i] = "done"
    BY <2>1 DEF Begins, All, Kernels
  <2>3. EntriesAreWhole
    BY <1>2, <2>1, Tags DEF EntriesAreWhole
  <2>4. ASSUME NEW d \in Drivers, NEW i \in Kernels(d)
        PROVE  Holds(Output(d, i), Result(d, i))
    <3>1. Output(d, i) \in paths
      OBVIOUS
    <3>2. Output(d, i)[2] = d /\ Output(d, i)[3] = Base(d, i)
      BY DEF Output
    <3> QED BY <2>1, <3>1, <3>2 DEF Holds, Result, Text
  <2>5. ThreadsRely
    BY <2>2, <2>4 DEF ThreadsRely, Relies
  <2> QED BY <1>2, <1>4, <2>3, <2>5 DEF Inv
<1> QED BY <1>5, <1>6

(* The invariant says of every program what it promises. *)
LEMMA InvIsSound ==
  ASSUME Inv
  PROVE  BitcodeIsItsOwn
BY DEF Inv, ThreadsRely, BuiltIsDone, Relies, Holds, Result, BitcodeIsItsOwn, BuiltIsCurrent

(***************************************************************************)
(* Every entry of the cache is whole and is what its key says, and so is   *)
(* the bitcode beside every program that was built, for any number of      *)
(* drivers, kernels and workers and wherever drivers are killed.           *)
(***************************************************************************)
THEOREM CacheIsSound == BuildSpec => []BitcodeIsItsOwn
<1>1. BuildInit \/ BuiltBefore => Inv
  BY InitHasInv
<1>2. Inv /\ [BuildNext]_buildVars => Inv'
  <2> SUFFICES ASSUME Inv, [BuildNext]_buildVars
               PROVE  Inv'
    OBVIOUS
  <2>1. CASE UNCHANGED buildVars
    BY <2>1, StutterKeepsInv
  <2>2. ASSUME NEW d \in Drivers, BuildStep(d) \/ Kill(d) \/ StartAgain(d)
        PROVE  Inv'
    BY <2>2, KernelStepKeepsInv, DriverStepKeepsInv DEF BuildStep
  <2> QED BY <2>1, <2>2 DEF BuildNext
<1>3. Inv => BitcodeIsItsOwn
  BY InvIsSound
<1> QED BY <1>1, <1>2, <1>3, PTL DEF BuildSpec

----------------------------------------------------------------------------
(* Building and running. *)

allVars == <<buildVars, vars, bitcode>>

HybridInv ==
  /\ Inv /\ Links /\ bitcode = Loadable
  /\ program \in Programs /\ at \in [Ranks -> Nat \ {0}]

----------------------------------------------------------------------------

(* A step of a rank keeps the program, and the place of each rank in it. *)
LEMMA StepKeepsPlaces ==
  ASSUME NEW r \in Ranks, Step(r), at \in [Ranks -> Nat \ {0}]
  PROVE  program' = program /\ at' \in [Ranks -> Nat \ {0}]
<1>1. program' = program
  BY DEF Step, RootExecutes, PackHistogram, RootDispatches, RootAborts, SkipExecute, BcastSize,
         BcastData, UnpackHistogram, DispatchByRank, EnterBarrier, LeaveBarrier
<1>2. at' = at \/ \E s \in Ranks : at' = [at EXCEPT ![s] = @ + 1]
  BY RanksAssumption
     DEF Step, RootExecutes, PackHistogram, RootDispatches, RootAborts, SkipExecute, BcastSize,
         BcastData, UnpackHistogram, DispatchByRank, EnterBarrier, LeaveBarrier, Return
<1>3. CASE \E s \in Ranks : at' = [at EXCEPT ![s] = @ + 1]
  <2>1. PICK s \in Ranks : at' = [at EXCEPT ![s] = @ + 1]
    BY <1>3
  <2>2. at[s] + 1 \in Nat \ {0}
    <3>1. at[s] \in Nat \ {0}
      OBVIOUS
    <3> QED BY <3>1
  <2> QED BY <1>1, <2>1, <2>2
<1> QED BY <1>1, <1>2, <1>3

(* So does what leaves the build alone. *)
LEMMA RanksKeepInv ==
  ASSUME HybridInv, UNCHANGED <<buildVars, bitcode, program>>, at' \in [Ranks -> Nat \ {0}]
  PROVE  HybridInv'
<1>1. Inv'
  BY StutterKeepsInv DEF HybridInv
<1>2. job' = job /\ disk' = disk
  BY DEF buildVars
<1>3. Links'
  BY <1>2 DEF HybridInv, Links
<1>4. bitcode' = Loadable'
  BY <1>2 DEF HybridInv, Loadable
<1> QED BY <1>1, <1>3, <1>4 DEF HybridInv

LEMMA BuildingKeepsInv ==
  ASSUME HybridInv, Building
  PROVE  HybridInv'
<1>1. Inv'
  <2>1. PICK d \in Drivers : BuildStep(d) \/ Kill(d) \/ StartAgain(d)
    BY DEF Building, BuildNext
  <2> QED BY <2>1, KernelStepKeepsInv, DriverStepKeepsInv DEF BuildStep, HybridInv
<1>2. program' = program /\ at' = at
  BY DEF Building, vars
<1> QED BY <1>1, <1>2 DEF HybridInv, Building

LEMMA HybridInvHolds == HybridSpec => []HybridInv
<1>1. HybridInit => HybridInv
  BY InitHasInv DEF HybridInit, HybridInv, Init
<1>2. HybridInv /\ [HybridNext]_allVars => HybridInv'
  <2> SUFFICES ASSUME HybridInv, [HybridNext]_allVars
               PROVE  HybridInv'
    OBVIOUS
  <2>1. CASE Building
    BY <2>1, BuildingKeepsInv
  <2>2. ASSUME NEW r \in Ranks, Running(r)
        PROVE  HybridInv'
    BY <2>2, StepKeepsPlaces, RanksKeepInv DEF Running, HybridInv
  <2>3. CASE UNCHANGED allVars
    BY <2>3, RanksKeepInv DEF allVars, vars, HybridInv
  <2> QED BY <2>1, <2>2, <2>3 DEF HybridNext
<1> QED BY <1>1, <1>2, PTL DEF HybridSpec, allVars

(***************************************************************************)
(* Every entry of the cache is whole and is what its key says, and so is   *)
(* the bitcode beside every program that was built, while drivers build,   *)
(* are killed and start again and while the ranks run (BitcodeIsItsOwn).   *)
(***************************************************************************)
THEOREM ProgramsAreTheirOwn == HybridSpec => []BitcodeIsItsOwn
<1>1. HybridInv => BitcodeIsItsOwn
  BY InvIsSound DEF HybridInv
<1> QED BY <1>1, HybridInvHolds, PTL

----------------------------------------------------------------------------

(* What a rank may call is there, and is what was written. *)
LEMMA CalledIsWritten ==
  ASSUME HybridInv, Launched, job[Here].backend = "qir-runner",
         NEW name \in Range(job[Here].kernels)
  PROVE  /\ name \in DOMAIN bitcode
         /\ name \in DOMAIN job[Here].text
         /\ bitcode[name] = job[Here].text[name]
<1>1. Shapes /\ Here \in Drivers /\ state[Here] = "built"
  BY HereAssumption DEF HybridInv, Inv, Launched
<1>2. PICK i \in Kernels(Here) : name = Base(Here, i)
  BY DEF Range, Kernels, Base
<1>3. Holds(Output(Here, i), Result(Here, i))
  BY <1>1 DEF HybridInv, Inv, ThreadsRely, BuiltIsDone, Relies
<1>4. Output(Here, i) = <<"qir-runner", Here, name>>
  BY <1>2 DEF Output
<1> DEFINE path == <<"qir-runner", Here, name>>
<1>5. path \in DOMAIN disk /\ disk[path].whole /\ disk[path].text = job[Here].text[name]
  BY <1>2, <1>3, <1>4 DEF Holds, Result, Contents, Text
<1>6. /\ name \in DOMAIN Loadable
      /\ Loadable[name] = disk[path].text
  BY <1>5 DEF Loadable
<1>7. name \in DOMAIN job[Here].text
  BY <1>1, <1>2, JobsAssumption DEF Shapes, Kernels, Base
<1> QED BY <1>5, <1>6, <1>7 DEF HybridInv

----------------------------------------------------------------------------

(* The histogram operators read no bitcode: seen over the kernels as they  *)
(* are written, they are the same.                                         *)
LEMMA CardinalityIsWritten ==
  ASSUME NEW S
  PROVE  Written!Cardinality(S) = Cardinality(S)
BY DEF Cardinality, Written!Cardinality

LEMMA FlattenIsWritten ==
  ASSUME NEW S
  PROVE  Written!FlattenSeq(S) = FlattenSeq(S)
BY DEF FlattenSeq, Written!FlattenSeq

LEMMA SortingIsWritten ==
  ASSUME NEW S
  PROVE  Written!SetToSortSeq(S, Written!Before) = SetToSortSeq(S, Before)
<1>1. Written!SetToSeq(S) = SetToSeq(S)
  BY CardinalityIsWritten DEF SetToSeq, Written!SetToSeq, IsInjective, Written!IsInjective
<1> QED BY <1>1 DEF SetToSortSeq, Written!SetToSortSeq, Before, Written!Before,
         IsStrictPrefix, Written!IsStrictPrefix, IsPrefix, Written!IsPrefix

LEMMA IntBytesIsWritten ==
  ASSUME NEW v
  PROVE  Written!IntBytes(v) = IntBytes(v)
BY DEF IntBytes, Written!IntBytes

LEMMA TallyIsWritten ==
  ASSUME NEW shots
  PROVE  Written!Tally(shots) = Tally(shots)
<1> DEFINE S == ToSet(shots) \ {<<>>}
           keys == SetToSortSeq(S, Before)
           wkeys == Written!SetToSortSeq(S, Written!Before)
<1>1. keys = wkeys
  BY SortingIsWritten
<1>2. Written!ToSet(shots) = ToSet(shots)
  BY DEF ToSet, Written!ToSet
<1> HIDE DEF keys, wkeys
<1>3. Written!Tally(shots) = 
         [i \in DOMAIN wkeys |->
         [bits |-> [k \in DOMAIN wkeys[i] |-> Digit(wkeys[i][k])],
          count |-> Written!Cardinality({ j \in DOMAIN shots : shots[j] = wkeys[i] })]]
  BY <1>2 DEF wkeys, Written!Tally, Written!Digit, Digit
<1>4. Tally(shots) = 
         [i \in DOMAIN keys |->
         [bits |-> [k \in DOMAIN keys[i] |-> Digit(keys[i][k])],
          count |-> Cardinality({ j \in DOMAIN shots : shots[j] = keys[i] })]]
  BY DEF keys, Tally, Digit
<1> QED BY <1>1, <1>3, <1>4, CardinalityIsWritten

LEMMA PackIsWritten ==
  ASSUME NEW h
  PROVE  Written!Pack(h) = Pack(h)
<1> DEFINE sent == [i \in DOMAIN h |->
             IF Fits(h[i])
             THEN IntBytes(Len(h[i].bits)) \o IntBytes(h[i].count) \o h[i].bits \o <<0>>
             ELSE IntBytes(0) \o IntBytes(0)]
           wsent == [i \in DOMAIN h |->
             IF Written!Fits(h[i])
             THEN Written!IntBytes(Len(h[i].bits)) \o Written!IntBytes(h[i].count) \o h[i].bits \o <<0>>
             ELSE Written!IntBytes(0) \o Written!IntBytes(0)]
<1>1. \A i \in DOMAIN h : sent[i] = wsent[i]
  BY IntBytesIsWritten DEF Fits, Written!Fits
<1>2. sent = wsent
  BY <1>1
<1>3. Pack(h) = IntBytes(Len(h)) \o FlattenSeq(sent)
  BY DEF Pack
<1>4. Written!Pack(h) = Written!IntBytes(Len(h)) \o Written!FlattenSeq(wsent)
  BY DEF Written!Pack
<1>5. Written!IntBytes(Len(h)) = IntBytes(Len(h))
  BY IntBytesIsWritten
<1>6. Written!FlattenSeq(wsent) = FlattenSeq(wsent)
  BY FlattenIsWritten
<1> HIDE DEF sent, wsent
<1> QED BY <1>2, <1>3, <1>4, <1>5, <1>6

LEMMA UnpackIsWritten ==
  ASSUME NEW buf
  PROVE  Written!Unpack(buf) = Unpack(buf)
BY DEF Written!Unpack, Unpack, Written!EntryAt, EntryAt, Written!IntAt, IntAt,
       Written!HasInt, HasInt, Written!CString, CString, Written!Min, Min

----------------------------------------------------------------------------

(* Running a kernel that is there gives what the written kernel may give. *)
LEMMA ExecuteIsWritten ==
  ASSUME NEW r, NEW name, Execute(r, name),
         name \in DOMAIN bitcode =>
           name \in DOMAIN job[Here].text /\ bitcode[name] = job[Here].text[name]
  PROVE  Written!Execute(r, name)
<1>1. PICK shots \in {<<>>} \cup
                     (IF name \in DOMAIN bitcode THEN Runs[bitcode[name]] ELSE {}) :
        hist' = [hist EXCEPT ![r] = Tally(shots)]
  BY DEF Execute
<1>2. shots \in {<<>>} \cup (IF name \in DOMAIN job[Here].text
                             THEN Runs[job[Here].text[name]] ELSE {})
  BY <1>1
<1>3. hist' = [hist EXCEPT ![r] = Written!Tally(shots)]
  BY <1>1, TallyIsWritten
<1> QED BY <1>2, <1>3 DEF Written!Execute

(* A step of a rank is a step over the kernels as they are written. *)
LEMMA StepIsWritten ==
  ASSUME HybridInv, NEW r \in Ranks, Running(r)
  PROVE  Written!Step(r)
<1> USE DEF Calling, Written!Calling, Goto, Written!Goto, Return, Written!Return
<1>1. Launched /\ Step(r)
  BY DEF Running
<1>2. at[r] \in Nat \ {0} /\ program \in Seq(ToSet(program))
  BY ProgramsAssumption DEF HybridInv
<1>3. at[r] <= Len(program) => at[r] \in DOMAIN program
  BY <1>2
<1>4. CASE r = 0 /\ RootExecutes
  <2>1. program[at[0]].op = "kernel" /\ Execute(0, program[at[0]].name) /\ at[0] \in DOMAIN program
    BY <1>3, <1>4 DEF RootExecutes
  <2>2. job[Here].backend = "qir-runner" /\ program[at[0]].name \in Range(job[Here].kernels)
    BY <2>1 DEF HybridInv, Links
  <2>3. Written!Execute(0, program[at[0]].name)
    BY <1>1, <2>1, <2>2, CalledIsWritten, ExecuteIsWritten
  <2>4. Written!RootExecutes
    BY <1>4, <2>3 DEF RootExecutes, Written!RootExecutes
  <2> QED BY <1>4, <2>4 DEF Written!Step
<1>5. CASE r = 0 /\ PackHistogram
  <2>1. Written!PackHistogram
    BY <1>5, PackIsWritten DEF PackHistogram, Written!PackHistogram
  <2> QED BY <1>5, <2>1 DEF Written!Step
<1>6. CASE r = 0 /\ (RootDispatches \/ RootAborts)
  <2>1. Written!RootDispatches \/ Written!RootAborts
    BY <1>6 DEF RootDispatches, Written!RootDispatches, RootAborts, Written!RootAborts
  <2> QED BY <1>6, <2>1 DEF Written!Step
<1>7. CASE SkipExecute(r) \/ EnterBarrier(r)
  <2>1. Written!SkipExecute(r) \/ Written!EnterBarrier(r)
    BY <1>7 DEF SkipExecute, Written!SkipExecute, EnterBarrier, Written!EnterBarrier
  <2> QED BY <2>1 DEF Written!Step
<1>8. CASE BcastSize(r)
  <2>1. Written!BcastSize(r)
    BY <1>8 DEF BcastSize, Written!BcastSize, RootPosts, Written!RootPosts, Receives,
         Written!Receives, Posted, Written!Posted, Received, Written!Received
  <2> QED BY <2>1 DEF Written!Step
<1>9. CASE BcastData(r)
  <2>1. Written!BcastData(r)
    BY <1>9 DEF BcastData, Written!BcastData, RootPosts, Written!RootPosts, Receives,
         Written!Receives, Posted, Written!Posted, Received, Written!Received
  <2> QED BY <2>1 DEF Written!Step
<1>10. CASE UnpackHistogram(r)
  <2>1. Written!UnpackHistogram(r)
    BY <1>10, UnpackIsWritten DEF UnpackHistogram, Written!UnpackHistogram
  <2> QED BY <2>1 DEF Written!Step
<1>11. CASE DispatchByRank(r)
  <2>1. program[at[r]].op = "dispatch" /\ at[r] \in DOMAIN program
    BY <1>3, <1>11 DEF DispatchByRank
  <2>2. /\ job[Here].backend = "qir-runner"
        /\ Range(program[at[r]].map) \subseteq Range(job[Here].kernels)
    BY <2>1 DEF HybridInv, Links
  <2>3. ASSUME r \in DOMAIN program[at[r]].map
        PROVE  Written!DispatchByRank(r)
    <3>1. program[at[r]].map[r] \in Range(job[Here].kernels)
      BY <2>2, <2>3 DEF Range
    <3>2. Execute(r, program[at[r]].map[r])
      BY <1>11, <2>3 DEF DispatchByRank
    <3>3. Written!Execute(r, program[at[r]].map[r])
      BY <1>1, <2>2, <3>1, <3>2, CalledIsWritten, ExecuteIsWritten
    <3> QED BY <1>11, <2>3, <3>3 DEF DispatchByRank, Written!DispatchByRank
  <2>4. ASSUME r \notin DOMAIN program[at[r]].map
        PROVE  Written!DispatchByRank(r)
    BY <1>11, <2>4 DEF DispatchByRank, Written!DispatchByRank
  <2> QED BY <2>3, <2>4 DEF Written!Step
<1>12. CASE LeaveBarrier(r)
  <2>1. Written!LeaveBarrier(r)
    BY <1>12 DEF LeaveBarrier, Written!LeaveBarrier, AllInBarrier, Written!AllInBarrier,
         RootPosts, Written!RootPosts
  <2> QED BY <2>1 DEF Written!Step
<1> QED BY <1>1, <1>4, <1>5, <1>6, <1>7, <1>8, <1>9, <1>10, <1>11, <1>12 DEF Step

(***************************************************************************)
(* What the ranks do, through any builds, kills and edits, is what the     *)
(* runtime does over the kernels as they are written (RunsAsWritten).      *)
(***************************************************************************)
THEOREM ProgramsRunAsWritten == HybridSpec => RunsAsWritten
<1>1. HybridInit => Written!Init
  BY DEF HybridInit, Init, Written!Init
<1>2. HybridInv /\ [HybridNext]_allVars => [Written!Next]_Written!vars
  <2> SUFFICES ASSUME HybridInv, [HybridNext]_allVars
               PROVE  [Written!Next]_Written!vars
    OBVIOUS
  <2>1. CASE UNCHANGED allVars \/ Building
    BY <2>1 DEF allVars, Building, vars, Written!vars
  <2>2. ASSUME NEW r \in Ranks, Running(r)
        PROVE  Written!Next
    BY <2>2, StepIsWritten DEF Written!Next
  <2> QED BY <2>1, <2>2 DEF HybridNext
<1> QED BY <1>1, <1>2, HybridInvHolds, PTL DEF HybridSpec, allVars, RunsAsWritten, Written!Runtime

----------------------------------------------------------------------------

(* Whatever is built around them, the ranks take steps of the runtime.     *)
LEMMA RanksTakeTheirSteps == HybridSpec => Runtime
<1>1. [HybridNext]_allVars => [Next]_vars
  BY DEF allVars, HybridNext, Building, Running, Next
<1>2. HybridInit => Init
  BY DEF HybridInit
<1> QED BY <1>1, <1>2, PTL DEF HybridSpec, Runtime, allVars

(***************************************************************************)
(* No rank of a program returns from a hardware call before the root has   *)
(* dispatched it and every rank has reached it, whatever is built, killed  *)
(* and built again around it.                                              *)
(***************************************************************************)
THEOREM ProgramsDispatchBeforeReturn == HybridSpec => []DispatchedBeforeReturn
BY RanksTakeTheirSteps, NoReturnBeforeDispatch, PTL

(* A kernel the root calls is one of the kernels with a known text.        *)
LEMMA CalledCanBeSent ==
  ASSUME RunsFit, HybridInv, Launched, SyncInv, Calling(0, "kernel")
  PROVE  CanBeSent(program[at[0]].name)
<1> DEFINE name == program[at[0]].name
<1>1. at[0] \in DOMAIN program /\ program[at[0]].op = "kernel"
  <2>1. at[0] \in Nat \ {0} /\ program \in Seq(ToSet(program))
    BY RanksAssumption, ProgramsAssumption DEF HybridInv
  <2> QED BY <2>1 DEF Calling
<1>2. job[Here].backend = "qir-runner" /\ name \in Range(job[Here].kernels)
  BY <1>1 DEF HybridInv, Links
<1>3. bitcode[name] = job[Here].text[name]
  BY <1>2, CalledIsWritten
<1>4. job[Here].text[name] \in DOMAIN Runs
  <2>1. job[Here] \in Jobs[Here]
    BY HereAssumption DEF HybridInv, Inv, Shapes
  <2> QED BY <1>2, <2>1, TextsAssumption
<1> HIDE DEF name
<1>5. \A shots \in {<<>>} \cup Runs[bitcode[name]] : Tally(shots) \in Histograms
  BY <1>3, <1>4 DEF RunsFit
<1> QED BY <1>5 DEF CanBeSent, name

(***************************************************************************)
(* After each broadcast every rank holds what the root measured, of the    *)
(* kernels that were built last, whatever is built, killed and built again *)
(* around the program, as long as every histogram fits the buffer.         *)
(***************************************************************************)
THEOREM ProgramsAgree ==
  ASSUME RunsFit
  PROVE  HybridSpec => []RanksAgree
<1>1. HybridInit => LogsInv
  BY NothingIsLogged DEF HybridInit
<1>2. HybridInv /\ SyncInv /\ SyncInv' /\ LogsInv /\ [HybridNext]_allVars => LogsInv'
  <2> SUFFICES ASSUME HybridInv, SyncInv, SyncInv', LogsInv, [HybridNext]_allVars
               PROVE  LogsInv'
    OBVIOUS
  <2>1. ASSUME NEW r \in Ranks, Running(r) PROVE LogsInv'
    <3>1. Launched /\ [Next]_vars
      BY <2>1 DEF Running, Next
    <3> QED BY <3>1, CalledCanBeSent, StepKeepsLogs
  <2>2. CASE UNCHANGED vars
    BY <2>2 DEF vars, LogsInv, RootInv, OtherInv
  <2> QED BY <2>1, <2>2 DEF HybridNext, Building, allVars
<1>3. HybridSpec => HybridInit /\ [][HybridNext]_allVars
  BY PTL DEF HybridSpec, allVars
<1> QED BY <1>1, <1>2, <1>3, HybridInvHolds, RanksTakeTheirSteps, RanksAreCounted, LogsAgree, PTL
=============================================================================
