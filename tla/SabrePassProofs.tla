-------------------------- MODULE SabrePassProofs --------------------------
(***************************************************************************)
(* Proofs about SabrePass for every device, kernel, limit and number of    *)
(* trials.  First, that what the extraction hands to the router is a       *)
(* circuit, and that every call of SabreSwap::run keeps the invariants     *)
(* proved of it in SabreSwapProofs; then where the inserted swaps end up   *)
(* in the block; then that the walk over the block follows the simulation. *)
(***************************************************************************)
EXTENDS SabrePass, SabreSwapProofs

(* Offset sums the sizes of the arrays in front of one.                    *)
LEMMA OffsetsAdd ==
  ASSUME NEW regs \in Seq(Nat)
  PROVE  /\ Offset(regs, 1) = 0
         /\ \A r \in 1 .. (Len(regs) + 1) : Offset(regs, r) \in Nat
         /\ \A r \in 1 .. Len(regs) : Offset(regs, r + 1) = Offset(regs, r) + regs[r]
<1> DEFINE n == Len(regs)
           step == [k \in 1 .. n |-> [x \in Nat |-> x + regs[k]]]
           IsSum(S) == S = [k \in 0 .. n |-> IF k = 0 THEN 0 ELSE S[k - 1] + regs[k]]
<1>0. n \in Nat /\ \A k \in 1 .. n : regs[k] \in Nat
  BY LenProperties, ElementOfSeq
<1>1. step \in [1 .. n -> [Nat -> Nat]]
  BY <1>0
<1>2. PICK g \in [0 .. n -> Nat] : g[0] = 0 /\ \A k \in 1 .. n : g[k] = step[k][g[k - 1]]
  <2>1. \E g \in [0 .. n -> Nat] : Iterates(n, 0, step, g)
    <3> HIDE DEF step, n
    <3>1. 0 \in Nat
      OBVIOUS
    <3> QED BY <1>0, <1>1, <3>1, IterationExists, Zenon
  <2> HIDE DEF step, n
  <2> QED BY <2>1 DEF Iterates
<1> HIDE DEF n
<1>3. \A k \in 1 .. n : g[k] = g[k - 1] + regs[k]
  <2> TAKE k \in 1 .. n
  <2>1. k - 1 \in 0 .. n
    BY <1>0
  <2>2. g[k - 1] \in Nat
    BY <2>1
  <2>3. step[k][g[k - 1]] = g[k - 1] + regs[k]
    BY <2>2
  <2> QED BY <1>2, <2>3
<1>4. IsSum(g)
  <2>1. \A k \in 0 .. n : g[k] = IF k = 0 THEN 0 ELSE g[k - 1] + regs[k]
    BY <1>0, <1>2, <1>3
  <2> QED BY <2>1
<1> DEFINE S == CHOOSE s : IsSum(s)
<1>5. IsSum(S)
  <2> HIDE DEF IsSum
  <2> QED BY <1>4, Zenon
<1>6. \A r : Offset(regs, r) = S[r - 1]
  BY DEF Offset, n
<1>7. \A k \in 0 .. n : S[k] = IF k = 0 THEN 0 ELSE S[k - 1] + regs[k]
  <2> HIDE DEF S
  <2> QED BY <1>5
<1> HIDE DEF S
<1>8. S[0] = 0 /\ \A k \in 1 .. n : S[k] = S[k - 1] + regs[k]
  BY <1>0, <1>7
<1>9. \A k \in 0 .. n : S[k] \in Nat
  <2> DEFINE T == { k \in 0 .. n : S[k] \in Nat }
  <2>1. 0 \in T
    BY <1>0, <1>8
  <2>2. ASSUME NEW k \in 1 .. n, k - 1 \in T PROVE k \in T
    <3>1. S[k] = S[k - 1] + regs[k] /\ S[k - 1] \in Nat /\ regs[k] \in Nat
      BY <1>0, <1>8, <2>2 DEF n
    <3> QED BY <1>0, <3>1
  <2>3. \A k \in 0 .. n : k \in T
    <3> HIDE DEF T
    <3> QED BY <1>0, <2>1, <2>2, CountingUp
  <2> QED BY <2>3
<1>10. \A r \in 1 .. (n + 1) : r - 1 \in 0 .. n
  BY <1>0
<1>11. \A r \in 1 .. n : (r + 1) - 1 = r
  BY <1>0
<1>12. Offset(regs, 1) = 0
  BY <1>6, <1>8
<1>13. \A r \in 1 .. (n + 1) : Offset(regs, r) \in Nat
  BY <1>6, <1>9, <1>10
<1>14. \A r \in 1 .. n : Offset(regs, r + 1) = Offset(regs, r) + regs[r]
  BY <1>6, <1>8, <1>11
<1> QED BY <1>12, <1>13, <1>14 DEF n

(* The arrays lie one behind the other.                                    *)
LEMMA OffsetsAreOrdered ==
  ASSUME NEW regs \in Seq(Nat), NEW r \in 1 .. (Len(regs) + 1),
         NEW s \in 1 .. (Len(regs) + 1), r <= s
  PROVE  Offset(regs, r) <= Offset(regs, s)
<1> DEFINE T == { k \in 0 .. (s - r) : Offset(regs, r) <= Offset(regs, r + k) }
<1>0. Len(regs) \in Nat /\ \A k \in 1 .. Len(regs) : regs[k] \in Nat
  BY LenProperties, ElementOfSeq
<1>1. /\ \A i \in 1 .. (Len(regs) + 1) : Offset(regs, i) \in Nat
      /\ \A i \in 1 .. Len(regs) : Offset(regs, i + 1) = Offset(regs, i) + regs[i]
  BY OffsetsAdd
<1>2. s - r \in Nat
  BY <1>0
<1>3. 0 \in T
  BY <1>0, <1>1, <1>2
<1>4. ASSUME NEW k \in 1 .. (s - r), k - 1 \in T
      PROVE  k \in T
  <2>1. r + (k - 1) \in 1 .. Len(regs) /\ (r + (k - 1)) + 1 = r + k /\ r + k \in 1 .. (Len(regs) + 1)
    BY <1>0, <1>2
  <2>2. Offset(regs, r + k) = Offset(regs, r + (k - 1)) + regs[r + (k - 1)]
    BY <1>1, <2>1
  <2>3. Offset(regs, r) <= Offset(regs, r + (k - 1))
    BY <1>4
  <2>4. Offset(regs, r) \in Nat /\ Offset(regs, r + (k - 1)) \in Nat /\ regs[r + (k - 1)] \in Nat
    BY <1>0, <1>1, <2>1
  <2>5. Offset(regs, r) <= Offset(regs, r + k)
    BY <2>2, <2>3, <2>4
  <2> QED BY <2>5
<1>5. \A k \in 0 .. (s - r) : k \in T
  <2> HIDE DEF T
  <2> QED BY <1>2, <1>3, <1>4, CountingUp
<1>6. s - r \in T
  <2> HIDE DEF T
  <2> QED BY <1>2, <1>5
<1> QED BY <1>0, <1>6

(* What a kernel the pass accepts looks like: its arrays fit the device.   *)
LEMMA MappableKernel ==
  ASSUME NEW j \in Jobs, IsMappable(j)
  PROVE  /\ j.device \in Devices /\ j.device.size \in Nat
         /\ j.regs \in Seq(Nat) /\ Len(j.regs) \in Nat \ {0}
         /\ DOMAIN j.regs = 1 .. Len(j.regs)
         /\ TotalSize(j.regs) \in Nat /\ TotalSize(j.regs) <= j.device.size
         /\ j.regs[1] \in Nat /\ j.regs[1] <= TotalSize(j.regs)
<1>1. j.device \in Devices /\ j.regs \in Seq(Nat)
  BY JobsAssumption DEF IsKernel
<1>2. j.device.size \in Nat
  BY <1>1, DevicesAssumption DEF IsDevice
<1>3. j.regs # <<>> /\ TotalSize(j.regs) <= j.device.size
  BY DEF IsMappable
<1>4. Len(j.regs) \in Nat \ {0} /\ DOMAIN j.regs = 1 .. Len(j.regs)
  BY <1>1, <1>3, EmptySeq, LenProperties
<1>5. 1 \in 1 .. Len(j.regs) /\ 2 \in 1 .. (Len(j.regs) + 1) /\ Len(j.regs) + 1 \in 1 .. (Len(j.regs) + 1)
      /\ 2 <= Len(j.regs) + 1 /\ 1 + 1 = 2
  BY <1>4
<1>6. TotalSize(j.regs) \in Nat
  BY <1>1, <1>5, OffsetsAdd DEF TotalSize
<1>7. Offset(j.regs, 2) = 0 + j.regs[1]
  BY <1>1, <1>5, OffsetsAdd
<1>8. j.regs[1] \in Nat
  BY <1>1, <1>5, ElementOfSeq
<1>9. j.regs[1] <= TotalSize(j.regs)
  <2>1. Offset(j.regs, 2) <= TotalSize(j.regs)
    BY <1>1, <1>5, OffsetsAreOrdered DEF TotalSize
  <2>2. 0 + j.regs[1] = j.regs[1]
    BY <1>8
  <2> QED BY <1>7, <2>1, <2>2
<1> QED BY <1>1, <1>2, <1>3, <1>4, <1>6, <1>8, <1>9

(* Padding only makes the first array grow, and not beyond the device.     *)
LEMMA PaddedArrays ==
  ASSUME NEW j \in Jobs, IsMappable(j)
  PROVE  /\ Expanded(j) \in Seq(Nat) /\ Len(Expanded(j)) = Len(j.regs)
         /\ \A r \in 1 .. Len(j.regs) : j.regs[r] <= Expanded(j)[r]
         /\ Expanded(j)[1] \in 0 .. j.device.size
<1> DEFINE regs == j.regs
           more == j.device.size - TotalSize(regs)
<1>1. /\ regs \in Seq(Nat) /\ Len(regs) \in Nat \ {0} /\ j.device.size \in Nat
      /\ TotalSize(regs) \in Nat /\ TotalSize(regs) <= j.device.size
      /\ regs[1] \in Nat /\ regs[1] <= TotalSize(regs)
  BY MappableKernel
<1>2. Expanded(j) = [regs EXCEPT ![1] = regs[1] + j.device.size - TotalSize(regs)]
  BY DEF Expanded
<1> HIDE DEF regs
<1>3. /\ regs[1] + j.device.size - TotalSize(regs) \in Nat
      /\ regs[1] <= regs[1] + j.device.size - TotalSize(regs)
      /\ regs[1] + j.device.size - TotalSize(regs) <= j.device.size
  BY <1>1
<1>4. 1 \in 1 .. Len(regs)
  BY <1>1
<1>5. /\ Expanded(j) \in Seq(Nat) /\ Len(Expanded(j)) = Len(regs)
      /\ \A r \in 1 .. Len(regs) : Expanded(j)[r] = IF r = 1 THEN regs[1] + j.device.size - TotalSize(regs)
                                                          ELSE regs[r]
  BY <1>1, <1>2, <1>3, <1>4, ExceptSeq
<1>6. \A r \in 1 .. Len(regs) : regs[r] \in Nat
  BY <1>1, ElementOfSeq
<1>7. \A r \in 1 .. Len(regs) : regs[r] <= Expanded(j)[r]
  BY <1>3, <1>5, <1>6
<1>8. Expanded(j)[1] \in 0 .. j.device.size
  BY <1>1, <1>3, <1>4, <1>5
<1> QED BY <1>5, <1>7, <1>8 DEF regs

(* An argument of a call: an array of the kernel and an index into it.     *)
Argument(j) == { a \in (DOMAIN j.regs) \X Nat : a[2] < j.regs[a[1]] }

(* The flat index of an argument lies in the padded arrays, and tells      *)
(* arguments apart.                                                        *)
LEMMA FlatIndexInRange ==
  ASSUME NEW j \in Jobs, IsMappable(j), NEW a \in Argument(j)
  PROVE  /\ a[1] \in 1 .. Len(j.regs)
         /\ Offset(Expanded(j), a[1]) \in Nat
         /\ FlatIndex(j, a) \in Nat
         /\ FlatIndex(j, a) = Offset(Expanded(j), a[1]) + a[2]
         /\ FlatIndex(j, a) < Offset(Expanded(j), a[1] + 1)
<1> DEFINE e == Expanded(j)
           r == a[1]
<1>1. j.regs \in Seq(Nat) /\ DOMAIN j.regs = 1 .. Len(j.regs)
  BY MappableKernel
<1>2. e \in Seq(Nat) /\ Len(e) = Len(j.regs) /\ \A i \in 1 .. Len(j.regs) : j.regs[i] <= e[i]
  BY PaddedArrays
<1>3. r \in 1 .. Len(j.regs) /\ a[2] \in Nat /\ a[2] < j.regs[r]
  BY <1>1 DEF Argument
<1>4. FlatIndex(j, a) = Offset(e, r) + a[2]
  BY DEF FlatIndex
<1> HIDE DEF e, r
<1>5. Len(j.regs) \in Nat /\ j.regs[r] \in Nat /\ e[r] \in Nat /\ j.regs[r] <= e[r]
  BY <1>1, <1>2, <1>3, ElementOfSeq, LenProperties
<1>6. r \in 1 .. (Len(e) + 1) /\ r \in 1 .. Len(e)
  BY <1>2, <1>3, <1>5
<1>7. Offset(e, r) \in Nat /\ Offset(e, r + 1) = Offset(e, r) + e[r]
  BY <1>2, <1>6, OffsetsAdd
<1>8. Offset(e, r) + a[2] \in Nat /\ Offset(e, r) + a[2] < Offset(e, r) + e[r]
  BY <1>3, <1>5, <1>7
<1> QED BY <1>3, <1>4, <1>7, <1>8 DEF e, r

(* Two arguments with the same flat index are the same qubit.               *)
LEMMA FlatIndexIsInjective ==
  ASSUME NEW j \in Jobs, IsMappable(j), NEW a \in Argument(j), NEW b \in Argument(j),
         FlatIndex(j, a) = FlatIndex(j, b)
  PROVE  a = b
<1> DEFINE e == Expanded(j)
<1>1. e \in Seq(Nat) /\ Len(e) = Len(j.regs) /\ Len(j.regs) \in Nat
  BY PaddedArrays, MappableKernel
<1>2. ASSUME NEW x \in Argument(j), NEW y \in Argument(j), x[1] < y[1]
      PROVE  FlatIndex(j, x) < FlatIndex(j, y)
  <2>1. /\ x[1] \in 1 .. Len(j.regs) /\ y[1] \in 1 .. Len(j.regs)
        /\ FlatIndex(j, x) \in Nat /\ FlatIndex(j, x) < Offset(e, x[1] + 1)
        /\ FlatIndex(j, y) = Offset(e, y[1]) + y[2]
        /\ Offset(e, y[1]) \in Nat
    BY FlatIndexInRange
  <2>2. y[2] \in Nat
    BY DEF Argument
  <2> HIDE DEF e
  <2>3. x[1] + 1 \in 1 .. (Len(e) + 1) /\ y[1] \in 1 .. (Len(e) + 1) /\ x[1] + 1 <= y[1]
    BY <1>1, <1>2, <2>1
  <2>4. Offset(e, x[1] + 1) <= Offset(e, y[1]) /\ Offset(e, x[1] + 1) \in Nat
    BY <1>1, <2>3, OffsetsAreOrdered, OffsetsAdd
  <2> QED BY <2>1, <2>2, <2>4
<1>3. /\ a[1] \in 1 .. Len(j.regs) /\ b[1] \in 1 .. Len(j.regs)
      /\ FlatIndex(j, a) \in Nat /\ FlatIndex(j, b) \in Nat
      /\ FlatIndex(j, a) = Offset(e, a[1]) + a[2]
      /\ FlatIndex(j, b) = Offset(e, b[1]) + b[2]
      /\ Offset(e, a[1]) \in Nat
  BY FlatIndexInRange
<1>4. a[2] \in Nat /\ b[2] \in Nat /\ a = <<a[1], a[2]>> /\ b = <<b[1], b[2]>>
  BY DEF Argument
<1> HIDE DEF e
<1>5. ~(a[1] < b[1]) /\ ~(b[1] < a[1])
  <2>1. a[1] < b[1] => FlatIndex(j, a) < FlatIndex(j, b)
    BY <1>2
  <2>2. b[1] < a[1] => FlatIndex(j, b) < FlatIndex(j, a)
    BY <1>2
  <2> QED BY <1>3, <2>1, <2>2
<1>6. a[1] = b[1]
  BY <1>1, <1>3, <1>5
<1>7. a[2] = b[2]
  <2>1. \A x, y, z \in Nat : x + y = x + z => y = z
    OBVIOUS
  <2>2. Offset(e, a[1]) + a[2] = Offset(e, a[1]) + b[2]
    BY <1>3, <1>6
  <2>3. a[2] \in Nat /\ b[2] \in Nat
    BY <1>4
  <2> QED BY <1>3, <2>1, <2>2, <2>3
<1> QED BY <1>4, <1>6, <1>7

(* The extraction: a call of one or two arguments becomes a gate on one or *)
(* two different wires, below the width, which a device can hold.          *)
LEMMA ExtractedIsCircuit ==
  ASSUME NEW j \in Jobs, IsMappable(j)
  PROVE  /\ IsCircuit(Extracted(j))
         /\ Extracted(j).gates = FlatGates(j)
         /\ Len(FlatGates(j)) = Len(j.prog)
         /\ DOMAIN j.prog = 1 .. Len(j.prog)
         /\ Len(j.prog) = 0 => Extracted(j).numQubits <= j.device.size
         /\ Expanded(j)[1] <= Extracted(j).numQubits
         /\ Extracted(j).numQubits <= TotalSize(Expanded(j))
<1> DEFINE prog  == j.prog
           G     == FlatGates(j)
           used  == UNION { WiresOf(G[c]) : c \in DOMAIN prog }
           total == TotalSize(Expanded(j))
           n     == Len(prog)
<1>1. IsKernel(j.regs, prog)
  BY JobsAssumption
<1>2. DOMAIN prog = 1 .. n /\ n \in Nat
  <2>1. DOMAIN prog = 1 .. Len(prog)
    BY <1>1 DEF IsKernel
  <2> QED BY <2>1
<1>3. ASSUME NEW c \in 1 .. n
      PROVE  /\ prog[c].args \in Seq(Argument(j))
             /\ \/ Len(prog[c].args) = 1
                \/ Len(prog[c].args) = 2 /\ prog[c].args[1] # prog[c].args[2]
  <2>1. /\ prog[c].args \in Seq((DOMAIN j.regs) \X Nat)
        /\ Len(prog[c].args) \in {1, 2}
        /\ \A k \in DOMAIN prog[c].args : prog[c].args[k][2] < j.regs[prog[c].args[k][1]]
        /\ Len(prog[c].args) = 2 => prog[c].args[1] # prog[c].args[2]
    BY <1>1, <1>2 DEF IsKernel
  <2> HIDE DEF prog
  <2>2. DOMAIN prog[c].args = 1 .. Len(prog[c].args)
        /\ \A k \in 1 .. Len(prog[c].args) : prog[c].args[k] \in (DOMAIN j.regs) \X Nat
    BY <2>1, LenProperties, ElementOfSeq
  <2>3. \A k \in 1 .. Len(prog[c].args) : prog[c].args[k] \in Argument(j)
    BY <2>1, <2>2 DEF Argument
  <2>4. prog[c].args \in Seq(Argument(j))
    <3>1. prog[c].args = [k \in 1 .. Len(prog[c].args) |-> prog[c].args[k]] /\ Len(prog[c].args) \in Nat
      BY <2>1, LenProperties
    <3> QED BY <2>3, <3>1
  <2> QED BY <2>1, <2>4
<1>4. \A c \in 1 .. n : G[c] = [k \in DOMAIN prog[c].args |-> FlatIndex(j, prog[c].args[k])]
  BY <1>2 DEF FlatGates
<1>5. DOMAIN G = 1 .. n
  BY <1>2 DEF FlatGates
<1>6. \A a \in Argument(j) : FlatIndex(j, a) \in 0 .. (total - 1)
  <2> TAKE a \in Argument(j)
  <2> DEFINE e == Expanded(j)
  <2>1. e \in Seq(Nat) /\ Len(e) = Len(j.regs) /\ Len(j.regs) \in Nat
    BY PaddedArrays, MappableKernel
  <2>2. a[1] \in 1 .. Len(j.regs) /\ FlatIndex(j, a) \in Nat /\ FlatIndex(j, a) < Offset(e, a[1] + 1)
    BY FlatIndexInRange
  <2> HIDE DEF e
  <2>3. a[1] + 1 \in 1 .. (Len(e) + 1) /\ Len(e) + 1 \in 1 .. (Len(e) + 1) /\ a[1] + 1 <= Len(e) + 1
    BY <2>1, <2>2
  <2>4. Offset(e, a[1] + 1) <= Offset(e, Len(e) + 1)
        /\ Offset(e, a[1] + 1) \in Nat /\ Offset(e, Len(e) + 1) \in Nat
    BY <2>1, <2>3, OffsetsAreOrdered, OffsetsAdd
  <2>5. total = Offset(e, Len(e) + 1)
    BY DEF TotalSize, e
  <2> HIDE DEF total
  <2> QED BY <2>2, <2>4, <2>5
<1>7. total \in Nat /\ Expanded(j)[1] <= total
  <2> DEFINE e == Expanded(j)
  <2>1. e \in Seq(Nat) /\ Len(e) \in Nat \ {0} /\ e[1] \in Nat
    BY PaddedArrays, MappableKernel
  <2> HIDE DEF e
  <2>2. 1 \in 1 .. Len(e) /\ 2 \in 1 .. (Len(e) + 1) /\ Len(e) + 1 \in 1 .. (Len(e) + 1)
        /\ 2 <= Len(e) + 1 /\ 1 + 1 = 2
    BY <2>1
  <2>3. Offset(e, 2) = 0 + e[1] /\ Offset(e, Len(e) + 1) \in Nat
    BY <2>1, <2>2, OffsetsAdd
  <2>4. Offset(e, 2) <= Offset(e, Len(e) + 1)
    BY <2>1, <2>2, OffsetsAreOrdered
  <2>5. e[1] <= Offset(e, Len(e) + 1)
    BY <2>1, <2>3, <2>4
  <2> QED BY <2>3, <2>5 DEF TotalSize, e
<1> HIDE DEF total, n
<1>8. ASSUME NEW c \in 1 .. n
      PROVE  \/ \E a \in Argument(j) : G[c] = <<FlatIndex(j, a)>>
             \/ \E a, b \in Argument(j) : a # b /\ G[c] = <<FlatIndex(j, a), FlatIndex(j, b)>>
  <2> DEFINE args == prog[c].args
  <2>1. args \in Seq(Argument(j)) /\ (Len(args) = 1 \/ (Len(args) = 2 /\ args[1] # args[2]))
    <3> HIDE DEF prog
    <3> QED BY <1>3
  <2>2. G[c] = [k \in DOMAIN args |-> FlatIndex(j, args[k])]
    BY <1>4
  <2> HIDE DEF G, args
  <2>3. DOMAIN args = 1 .. Len(args) /\ \A k \in 1 .. Len(args) : args[k] \in Argument(j)
    BY <2>1, LenProperties, ElementOfSeq
  <2>4. CASE Len(args) = 1
    <3>1. G[c] = <<FlatIndex(j, args[1])>>
      BY <2>2, <2>3, <2>4
    <3>2. args[1] \in Argument(j)
      BY <2>3, <2>4
    <3> QED BY <3>1, <3>2
  <2>5. CASE Len(args) = 2 /\ args[1] # args[2]
    <3>1. G[c] = <<FlatIndex(j, args[1]), FlatIndex(j, args[2])>>
      BY <2>2, <2>3, <2>5
    <3>2. args[1] \in Argument(j) /\ args[2] \in Argument(j)
      BY <2>3, <2>5
    <3> QED BY <2>5, <3>1, <3>2
  <2> QED BY <2>1, <2>4, <2>5
<1>9. \A c \in 1 .. n : WiresOf(G[c]) \subseteq used
  BY <1>2 DEF n
<1>10. used \subseteq 0 .. (total - 1)
  <2> SUFFICES ASSUME NEW c \in 1 .. n, NEW q \in WiresOf(G[c]) PROVE q \in 0 .. (total - 1)
    BY <1>2 DEF n
  <2>1. \E a \in Argument(j) : q = FlatIndex(j, a)
    <3> HIDE DEF G
    <3> QED BY <1>8 DEF WiresOf
  <2> QED BY <1>6, <2>1
<1>11. ASSUME NEW c \in 1 .. n, NEW a \in Argument(j), \E k \in DOMAIN G[c] : G[c][k] = FlatIndex(j, a)
       PROVE  FlatIndex(j, a) \in used
  <2>1. FlatIndex(j, a) \in WiresOf(G[c])
    BY <1>11 DEF WiresOf
  <2> QED BY <1>9, <2>1
<1> HIDE DEF used, G
<1> DEFINE w == Width(j)
           active == IF used = {} THEN 0 ELSE 1 + Max(used)
<1>12. active \in Nat /\ active <= total /\ \A q \in used : q \in 0 .. (active - 1)
  <2>1. CASE used = {}
    BY <1>7, <2>1
  <2>2. CASE used # {}
    <3>1. used \in SUBSET Nat /\ \A q \in used : q <= total /\ q < total
      BY <1>7, <1>10
    <3>2. \E m \in used : \A q \in used : q <= m
      BY <1>7, <2>2, <3>1, GreatestNatural
    <3>4. \E m \in used : \A q \in used : m >= q
      BY <3>1, <3>2
    <3>5. Max(used) \in used /\ \A q \in used : Max(used) >= q
      BY <3>4 DEF Max
    <3>3. Max(used) \in used /\ \A q \in used : q <= Max(used)
      BY <3>1, <3>5
    <3> DEFINE top == Max(used)
    <3>6. active = 1 + top
      BY <2>2
    <3> HIDE DEF top, active
    <3>7. top \in Nat /\ top < total /\ \A q \in used : q \in Nat /\ q <= top
      BY <3>1, <3>3 DEF top
    <3> QED BY <1>7, <3>6, <3>7
  <2> QED BY <2>1, <2>2
<1>13. w = IF active >= Expanded(j)[1] THEN active ELSE Expanded(j)[1]
  BY DEF Width, used, G
<1> HIDE DEF active, w
<1>14. /\ w \in Nat /\ \A q \in used : q \in 0 .. (w - 1)
       /\ Expanded(j)[1] <= w /\ w <= total
  BY <1>7, <1>12, <1>13, PaddedArrays, MappableKernel
<1>15. Extracted(j) = [numQubits |-> w, gates |-> G, deps |-> Dependencies(G)]
  BY DEF Extracted, CircuitOf, w, G
<1>16. Wires(Extracted(j)) = 0 .. (w - 1)
  BY <1>15 DEF Wires
<1>17. ASSUME NEW c \in 1 .. n
       PROVE  \/ \E q \in 0 .. (w - 1) : G[c] = <<q>>
              \/ \E q, r \in 0 .. (w - 1) : q # r /\ G[c] = <<q, r>>
  <2>1. CASE \E a \in Argument(j) : G[c] = <<FlatIndex(j, a)>>
    <3>1. PICK a \in Argument(j) : G[c] = <<FlatIndex(j, a)>>
      BY <2>1
    <3>2. FlatIndex(j, a) \in used
      BY <1>11, <3>1
    <3> QED BY <1>14, <3>1, <3>2
  <2>2. CASE \E a, b \in Argument(j) : a # b /\ G[c] = <<FlatIndex(j, a), FlatIndex(j, b)>>
    <3>1. PICK a \in Argument(j), b \in Argument(j) :
            a # b /\ G[c] = <<FlatIndex(j, a), FlatIndex(j, b)>>
      BY <2>2
    <3>2. FlatIndex(j, a) \in used /\ FlatIndex(j, b) \in used
      BY <1>11, <3>1
    <3>3. FlatIndex(j, a) # FlatIndex(j, b)
      BY <3>1, FlatIndexIsInjective
    <3> QED BY <1>14, <3>1, <3>2, <3>3
  <2> QED BY <1>8, <2>1, <2>2
<1>18. G \in Seq(Seq(0 .. (w - 1))) /\ Len(G) = n
  <2>1. ASSUME NEW c \in 1 .. n PROVE G[c] \in Seq(0 .. (w - 1))
    <3>1. \A q \in 0 .. (w - 1) : <<q>> \in Seq(0 .. (w - 1))
      OBVIOUS
    <3>2. \A q, r \in 0 .. (w - 1) : <<q, r>> \in Seq(0 .. (w - 1))
      OBVIOUS
    <3> QED BY <1>17, <3>1, <3>2
  <2>2. G = [c \in 1 .. n |-> G[c]]
    BY <1>5 DEF G, FlatGates
  <2> QED BY <1>2, <2>1, <2>2 DEF n
<1>19. IsCircuit(Extracted(j))
  <2>1. GateIds(Extracted(j)) = 1 .. n /\ DOMAIN G = 1 .. n
    BY <1>5, <1>15, <1>18 DEF GateIds
  <2>2. Extracted(j).deps \subseteq { d \in (1 .. n) \X (1 .. n) : d[1] < d[2] }
    BY <1>15, <2>1 DEF Dependencies
  <2> DEFINE x == Extracted(j)
  <2>3. x.numQubits = w /\ x.gates = G /\ Wires(x) = 0 .. (w - 1) /\ GateIds(x) = 1 .. n
    BY <1>15, <1>16, <2>1
  <2>4. x.deps \subseteq { d \in GateIds(x) \X GateIds(x) : d[1] < d[2] }
    BY <2>2, <2>3
  <2>5. \A g \in GateIds(x) : \/ \E q \in Wires(x) : x.gates[g] = <<q>>
                              \/ \E q, r \in Wires(x) : q # r /\ x.gates[g] = <<q, r>>
    <3> HIDE DEF x
    <3> TAKE g \in GateIds(x)
    <3>1. g \in 1 .. n
      BY <2>3
    <3>2. \/ \E q \in 0 .. (w - 1) : G[g] = <<q>>
          \/ \E q, r \in 0 .. (w - 1) : q # r /\ G[g] = <<q, r>>
      BY <1>17, <3>1
    <3> QED BY <2>3, <3>2
  <2>6. x.numQubits \in Nat /\ x.gates \in Seq(Seq(Wires(x)))
    BY <1>14, <1>18, <2>3
  <2> HIDE DEF x
  <2>7. IsCircuit(x)
    BY <2>4, <2>5, <2>6 DEF IsCircuit
  <2> QED BY <2>7 DEF x
<1>20. n = 0 => Extracted(j).numQubits <= j.device.size
  <2> SUFFICES ASSUME n = 0 PROVE w <= j.device.size
    BY <1>15
  <2>1. used = {}
    BY <1>2 DEF used, n
  <2> QED BY <1>13, <2>1, PaddedArrays, MappableKernel DEF active
<1> QED BY <1>2, <1>14, <1>15, <1>18, <1>19, <1>20 DEF G, n, total

(* A kernel with one array gets as many wires as the device has qubits.    *)
LEMMA OneArrayFillsTheDevice ==
  ASSUME NEW j \in Jobs, IsMappable(j), Len(j.regs) = 1
  PROVE  Extracted(j).numQubits = j.device.size
<1> DEFINE regs == j.regs
           e    == Expanded(j)
           size == j.device.size
<1>1. regs \in Seq(Nat) /\ Len(regs) = 1 /\ size \in Nat /\ regs[1] \in Nat
  BY MappableKernel
<1>2. e \in Seq(Nat) /\ Len(e) = 1 /\ e[1] \in Nat
  BY PaddedArrays, MappableKernel
<1>3. e = [regs EXCEPT ![1] = regs[1] + size - TotalSize(regs)]
  BY DEF Expanded
<1> HIDE DEF regs, e, size
<1>4. TotalSize(regs) = regs[1] /\ TotalSize(e) = e[1]
  <2>1. 1 \in 1 .. 1 /\ 1 + 1 = 2
    OBVIOUS
  <2>2. Offset(regs, 2) = 0 + regs[1] /\ Offset(e, 2) = 0 + e[1]
    BY <1>1, <1>2, <2>1, OffsetsAdd
  <2> QED BY <1>1, <1>2, <2>2 DEF TotalSize
<1>5. e[1] = size
  <2>1. DOMAIN regs = 1 .. 1
    BY <1>1
  <2> QED BY <1>1, <1>3, <1>4, <2>1
<1>6. e[1] <= Extracted(j).numQubits /\ Extracted(j).numQubits <= e[1]
      /\ Extracted(j).numQubits \in Nat
  BY <1>4, ExtractedIsCircuit DEF e, IsCircuit
<1> QED BY <1>1, <1>5, <1>6 DEF size

(* The reversed circuit is one too, on the same wires.                     *)
LEMMA ReversedIsCircuit ==
  ASSUME NEW c, IsCircuit(c)
  PROVE  IsCircuit(ReverseCircuit(c)) /\ ReverseCircuit(c).numQubits = c.numQubits
<1> DEFINE n == Len(c.gates)
           Mirror(g) == n + 1 - g
           r == ReverseCircuit(c)
<1>1. /\ c.numQubits \in Nat /\ c.gates \in Seq(Seq(Wires(c))) /\ GateIds(c) = 1 .. n
      /\ c.deps \subseteq { d \in GateIds(c) \X GateIds(c) : d[1] < d[2] }
  BY DEF IsCircuit, GateIds
<1>2. n \in Nat /\ \A g \in 1 .. n : c.gates[g] \in Seq(Wires(c)) /\ Mirror(g) \in 1 .. n
  BY <1>1, LenProperties, ElementOfSeq
<1>3. /\ r.numQubits = c.numQubits /\ Wires(r) = Wires(c)
      /\ r.gates = [g \in 1 .. n |-> c.gates[Mirror(g)]]
      /\ r.deps = { <<Mirror(d[2]), Mirror(d[1])>> : d \in c.deps }
  BY <1>1 DEF ReverseCircuit, Wires
<1> HIDE DEF r
<1>4. r.gates \in Seq(Seq(Wires(r))) /\ GateIds(r) = 1 .. n
  <2>1. r.gates \in Seq(Seq(Wires(c))) /\ Len(r.gates) = n
    <3> HIDE DEF n
    <3> QED BY <1>2, <1>3
  <2> QED BY <1>3, <2>1 DEF GateIds
<1>5. \A g \in GateIds(r) : \/ \E q \in Wires(r) : r.gates[g] = <<q>>
                            \/ \E p, q \in Wires(r) : p # q /\ r.gates[g] = <<p, q>>
  <2> TAKE g \in GateIds(r)
  <2>1. Mirror(g) \in GateIds(c) /\ r.gates[g] = c.gates[Mirror(g)]
    BY <1>1, <1>2, <1>3, <1>4
  <2> HIDE DEF Mirror
  <2>2. \/ \E q \in Wires(c) : c.gates[Mirror(g)] = <<q>>
        \/ \E p, q \in Wires(c) : p # q /\ c.gates[Mirror(g)] = <<p, q>>
    BY <2>1 DEF IsCircuit
  <2> QED BY <1>3, <2>1, <2>2
<1>6. r.deps \subseteq { d \in GateIds(r) \X GateIds(r) : d[1] < d[2] }
  <2> SUFFICES ASSUME NEW d \in c.deps
               PROVE  /\ Mirror(d[2]) \in 1 .. n /\ Mirror(d[1]) \in 1 .. n
                      /\ Mirror(d[2]) < Mirror(d[1])
    BY <1>3, <1>4
  <2>1. d[1] \in 1 .. n /\ d[2] \in 1 .. n /\ d[1] < d[2]
    BY <1>1
  <2> HIDE DEF n
  <2> QED BY <1>2, <2>1
<1>7. IsCircuit(r)
  BY <1>1, <1>3, <1>4, <1>5, <1>6 DEF IsCircuit
<1> QED BY <1>3, <1>7 DEF r

(* A call of SabreSwap::run starts in a state that satisfies the invariant *)
(* of the loop, and the layout it starts from is the one it was given.     *)
LEMMA CallStarts ==
  ASSUME device \in Devices, NEW c, IsCircuit(c), NEW l \in Placements(c), Call(c, l)
  PROVE  /\ RInv'
         /\ circ' = c /\ start' = l /\ LayoutBeforeInsertion(1)' = l
         /\ insertions' = <<>> /\ UNCHANGED device
<1> USE DEF Call
<1>1. Placements(c)' = Placements(c) /\ Layouts' = Placements(c)
  BY DEF Placements, Layouts
<1>2. insertions' \in Seq(InsertionType)' /\ iterations' \in Nat /\ Len(insertions') = 0
  BY EmptySeq
<1>3. DOMAIN layoutBefore' = executed' /\ executed' = {}
  OBVIOUS
<1>4. TypeOK'
  BY <1>1, <1>2, <1>3 DEF TypeOK
<1>5. PendingIsUnexecuted' /\ ExecutedIsPrefix' /\ AnchorsAreReached'
  BY <1>2 DEF PendingIsUnexecuted, ExecutedIsPrefix, AnchorsAreReached
<1>6. ReplayMatchesSimulation' /\ ActsOnCouplings'
  BY <1>2, <1>3 DEF ReplayMatchesSimulation, ActsOnCouplings
<1>7. LayoutBeforeInsertion(1)' = l
  BY <1>2 DEF LayoutBeforeInsertion
<1> QED BY <1>4, <1>5, <1>6, <1>7 DEF RInv, Inv

----------------------------------------------------------------------------

(* A call of SabreSwap::run is in progress, or the last one has returned.  *)
Begun == phase \notin {"start", "unmapped"}

(* The search: a trial that is under way has not been counted, and one     *)
(* that has been scored left a layout behind.                              *)
SearchInv ==
  /\ job \in Jobs /\ device = job.device
  /\ phase \in {"start", "unmapped", "trial", "route", "fatal", "emit", "walk", "mapped"}
  /\ trial \in 0 .. LayoutTrials /\ turn \in 0 .. (2 * MaxIterations + 1)
  /\ best # <<>> => best[1] \in Placements(Forward) /\ best[2] \in Nat
  /\ phase = "start" => trial = 0
  /\ phase = "trial" =>
       IF turn > 2 * MaxIterations THEN best # <<>> ELSE trial < LayoutTrials

(* The invariants of SabreSwap hold of the call, which routes the kernel   *)
(* or its reverse; its first layout is the one it was started from.        *)
Routed ==
  /\ IsMappable(job)
  /\ RInv
  /\ start \in Placements(circ)
  /\ LayoutBeforeInsertion(1) = start
  /\ circ.numQubits = Forward.numQubits

CallInv ==
  /\ Begun => Routed
  /\ ~Begun => insertions = <<>>
  /\ phase \in {"route", "fatal", "emit", "walk", "mapped"} => circ = Forward

(* What the later stages write is untouched before them.                   *)
QuietInv ==
  /\ phase \notin {"emit", "walk", "mapped"} => block = <<>> /\ emitted = 0
  /\ phase \notin {"walk", "mapped"} =>
       /\ at = 1 /\ out = <<>> /\ trace = <<>>
       /\ held = [p \in Phys(device) |-> NoWire]

(***************************************************************************)
(* The block while the swaps are inserted: swap k lies k - 1 places behind *)
(* the place its gate had at first, and a gate is moved by as many places  *)
(* as there are swaps anchored at it or before it.                         *)
(***************************************************************************)
Items == { GateItem(g) : g \in GateIds(circ) } \cup { RouteItem(k) : k \in 1 .. emitted }

(* The k first swaps are those anchored at gate g or before it.            *)
AreUpTo(k, g) ==
  /\ k > 0 => insertions[k].before <= g
  /\ k < emitted => insertions[k + 1].before > g

BlockInv ==
  /\ emitted \in 0 .. Len(insertions)
  /\ block \in Seq(Items)
  /\ Len(block) = Len(circ.gates) + emitted
  /\ \A p, q \in DOMAIN block : block[p] = block[q] => p = q
  /\ \A k \in 1 .. emitted : block[insertions[k].before + k - 1] = RouteItem(k)
  /\ \A g \in GateIds(circ) : \A k \in 0 .. emitted :
       AreUpTo(k, g) => block[g + k] = GateItem(g)

EmitInv == phase \in {"emit", "walk", "mapped"} => executed = GateIds(circ) /\ BlockInv

(***************************************************************************)
(* The walk: the calls it has rewritten are the first of the kernel, the   *)
(* swaps it has passed are those the simulation made before the next call, *)
(* and the wires are where the simulation had them then.                   *)
(***************************************************************************)
Passed == at - 1 - Len(trace)

WalkInv ==
  phase \in {"walk", "mapped"} =>
    /\ emitted = Len(insertions) /\ at \in Nat
    /\ trace \in Seq([call : GateIds(circ), wires : Seq(Wires(circ) \cup {NoWire})])
    /\ Len(trace) \in 0 .. Len(circ.gates) /\ Passed \in 0 .. Len(insertions)
    /\ Passed > 0 => insertions[Passed].before <= Len(trace) + 1
    /\ Passed < Len(insertions) => insertions[Passed + 1].before > Len(trace)
    /\ current \in Placements(circ)
    /\ held \in [Phys(device) -> Wires(circ) \cup {NoWire}]
    /\ \A p, q \in Phys(device) : held[p] = held[q] /\ held[p] # NoWire => p = q
    /\ \A v \in Wires(circ) : held[LayoutBeforeInsertion(Passed + 1)[v]] = v
    /\ phase = "mapped" => at > Len(block)

PInv == SearchInv /\ CallInv /\ QuietInv /\ EmitInv /\ WalkInv

(* The pass starts with a kernel it has not looked at.                     *)
LEMMA InitPInv == PassInit => PInv
<1> SUFFICES ASSUME PassInit PROVE PInv
  OBVIOUS
<1> USE DEF PassInit
<1>1. SearchInv
  BY TrialsAssumption DEF SearchInv
<1>2. CallInv /\ QuietInv /\ EmitInv /\ WalkInv
  BY DEF CallInv, QuietInv, EmitInv, WalkInv, Begun
<1> QED BY <1>1, <1>2 DEF PInv

(* The kernel and the device stay what they are.                           *)
LEMMA KernelIsKept ==
  ASSUME UNCHANGED <<job, device>>
  PROVE  /\ Forward' = Forward /\ IsMappable(job)' = IsMappable(job)
         /\ Placements(Forward)' = Placements(Forward)
         /\ Phys(device)' = Phys(device)
  BY DEF Forward, Placements

(* The steps before the swaps are inserted leave the later stages alone.   *)
LEMMA StillQuiet ==
  ASSUME QuietInv, phase \in {"start", "trial", "route"},
         phase' \in {"unmapped", "trial", "route", "fatal"},
         UNCHANGED <<device, block, emitted, walkVars>>
  PROVE  QuietInv' /\ EmitInv' /\ WalkInv'
  BY DEF QuietInv, EmitInv, WalkInv, walkVars

(* The steps after the last call only look at what it left.                *)
LEMMA StillRouted ==
  ASSUME SearchInv, CallInv, phase \in {"route", "emit", "walk"},
         phase' \in {"fatal", "emit", "walk", "mapped"},
         UNCHANGED <<job, vars, layoutVars, start>>
  PROVE  SearchInv' /\ CallInv'
<1>1. UNCHANGED <<job, device, circ, insertions, trial, turn, best, start, layout>>
  BY DEF vars, layoutVars
<1>2. Forward' = Forward /\ Placements(Forward)' = Placements(Forward)
      /\ IsMappable(job)' = IsMappable(job)
  BY <1>1, KernelIsKept
<1>3. SearchInv'
  BY <1>1, <1>2 DEF SearchInv
<1>4. Routed
  BY DEF CallInv, Begun
<1>5. RInv'
  BY <1>4, NextRInv DEF Routed
<1>6. Placements(circ)' = Placements(circ)
  BY <1>1 DEF Placements
<1>7. Routed'
  BY <1>1, <1>2, <1>4, <1>5, <1>6 DEF Routed, LayoutBeforeInsertion
<1>8. CallInv'
  BY <1>1, <1>2, <1>7 DEF CallInv, Begun
<1> QED BY <1>3, <1>8

(* The kernel, forward or backward, is a circuit on the same wires.        *)
LEMMA BothDirections ==
  ASSUME SearchInv, IsMappable(job), NEW c, c \in {Forward, ReverseCircuit(Forward)}
  PROVE  /\ IsCircuit(c) /\ c.numQubits = Forward.numQubits
         /\ Placements(c) = Placements(Forward)
<1>1. IsCircuit(Forward)
  BY ExtractedIsCircuit DEF SearchInv, Forward
<1>2. IsCircuit(c) /\ c.numQubits = Forward.numQubits
  BY <1>1, ReversedIsCircuit
<1> QED BY <1>2 DEF Placements, Wires

(* A call on the kernel or its reverse, from a layout of its wires.        *)
LEMMA CallIsRouted ==
  ASSUME SearchInv, IsMappable(job), UNCHANGED job,
         NEW c, c \in {Forward, ReverseCircuit(Forward)}, NEW l \in Placements(c), Call(c, l)
  PROVE  Routed' /\ circ' = c /\ UNCHANGED device
<1>1. IsCircuit(c) /\ c.numQubits = Forward.numQubits
  BY BothDirections
<1>2. device \in Devices
  BY JobsAssumption DEF SearchInv
<1>3. /\ RInv' /\ circ' = c /\ start' = l /\ LayoutBeforeInsertion(1)' = l /\ UNCHANGED device
  BY <1>1, <1>2, CallStarts
<1>4. Forward' = Forward /\ IsMappable(job)'
  BY <1>3, KernelIsKept
<1>5. start' \in Placements(circ)'
  BY <1>3 DEF Placements
<1> QED BY <1>1, <1>3, <1>4, <1>5 DEF Routed

(* A trial starts a call on the kernel, from a shuffled layout.             *)
LEMMA StartTrialPInv == PInv /\ StartTrial => PInv'
<1> SUFFICES ASSUME PInv, StartTrial PROVE PInv'
  OBVIOUS
<1> USE DEF PInv
<1>1. PICK l \in Shuffled(Forward) : Call(Forward, l)
  BY DEF StartTrial
<1>2. l \in Placements(Forward)
  BY DEF Shuffled, Placements
<1>3. IsMappable(job) /\ UNCHANGED <<job, trial, best, block, emitted, walkVars>>
      /\ turn' = 0 /\ phase' = "trial" /\ trial < LayoutTrials /\ phase \in {"start", "trial"}
  BY DEF StartTrial, CallInv, Begun, Routed
<1>4. Routed' /\ circ' = Forward /\ UNCHANGED device
  BY <1>1, <1>2, <1>3, CallIsRouted
<1>5. CallInv'
  BY <1>3, <1>4 DEF CallInv, Begun
<1>6. Placements(Forward)' = Placements(Forward)
  BY <1>3, <1>4, KernelIsKept
<1>7. SearchInv'
  BY <1>3, <1>4, <1>6, TrialsAssumption DEF SearchInv
<1>8. QuietInv' /\ EmitInv' /\ WalkInv'
  BY <1>3, <1>4, StillQuiet
<1> QED BY <1>5, <1>7, <1>8

(* The first layout of a call outlives its steps: a swap is recorded with  *)
(* the layout it was made in.                                              *)
LEMMA FirstLayoutIsKept ==
  ASSUME RInv, [Next]_vars
  PROVE  LayoutBeforeInsertion(1)' = LayoutBeforeInsertion(1) /\ UNCHANGED <<device, circ>>
<1>1. CASE InsertSwap
  <2>1. PICK s \in CandidateSwaps :
          /\ insertions' = Append(insertions, [before |-> MinFrontGate,
                                               v0     |-> s[1],
                                               v1     |-> s[2],
                                               layout |-> layout])
          /\ [before |-> MinFrontGate, v0 |-> s[1], v1 |-> s[2], layout |-> layout]
               \in InsertionType
          /\ UNCHANGED <<device, circ>>
    BY <1>1, InsertSwapStep DEF RInv
  <2>2. insertions \in Seq(InsertionType) /\ Len(insertions) \in Nat
    BY LenProperties DEF RInv, Inv, TypeOK
  <2>3. /\ Len(insertions') = Len(insertions) + 1
        /\ \A k \in 1 .. Len(insertions) : insertions'[k] = insertions[k]
        /\ insertions'[Len(insertions) + 1].layout = layout
    BY <2>1, <2>2, AppendProperties
  <2>4. /\ LayoutBeforeInsertion(1) = IF 1 <= Len(insertions) THEN insertions[1].layout ELSE layout
        /\ LayoutBeforeInsertion(1)' = insertions'[1].layout
    BY <2>2, <2>3 DEF LayoutBeforeInsertion
  <2>5. CASE Len(insertions) = 0
    <3>1. insertions'[1].layout = layout
      BY <2>3, <2>5
    <3> QED BY <2>1, <2>5, <2>4, <3>1
  <2>6. CASE Len(insertions) > 0
    <3>1. insertions'[1] = insertions[1] /\ 1 <= Len(insertions)
      BY <2>2, <2>3, <2>6
    <3> QED BY <2>1, <2>4, <3>1
  <2> QED BY <2>1, <2>2, <2>5, <2>6
<1>2. CASE ExecuteGate \/ Finish \/ GiveUp \/ Strand \/ UNCHANGED vars
  BY <1>2 DEF ExecuteGate, Finish, GiveUp, Strand, vars, LayoutBeforeInsertion
<1> QED BY <1>1, <1>2 DEF Next

(* A step of SabreSwap::run keeps what is known of the call.               *)
LEMMA SwapStepPInv == PInv /\ SwapStep => PInv'
<1> SUFFICES ASSUME PInv, SwapStep PROVE PInv'
  OBVIOUS
<1> USE DEF PInv
<1>1. /\ phase \in {"trial", "route"} /\ Next
      /\ UNCHANGED <<job, phase, trial, turn, best, start, block, emitted, walkVars>>
  BY DEF SwapStep, layoutVars
<1>2. Routed
  BY <1>1 DEF CallInv, Begun
<1>3. RInv' /\ LayoutBeforeInsertion(1)' = LayoutBeforeInsertion(1) /\ UNCHANGED <<device, circ>>
  BY <1>1, <1>2, NextRInv, FirstLayoutIsKept DEF Routed
<1>4. Forward' = Forward /\ Placements(Forward)' = Placements(Forward)
      /\ IsMappable(job)' = IsMappable(job) /\ Placements(circ)' = Placements(circ)
  <2>1. Placements(circ)' = Placements(circ)
    BY <1>3 DEF Placements
  <2> QED BY <1>1, <1>3, <2>1, KernelIsKept
<1>5. Routed'
  BY <1>1, <1>2, <1>3, <1>4 DEF Routed
<1>6. CallInv'
  BY <1>1, <1>3, <1>4, <1>5 DEF CallInv, Begun
<1>7. SearchInv'
  BY <1>1, <1>3, <1>4 DEF SearchInv
<1>8. QuietInv' /\ EmitInv' /\ WalkInv'
  BY <1>1, <1>3, StillQuiet
<1> QED BY <1>6, <1>7, <1>8

(* The next call of a trial starts from the layout the last one ended with.*)
LEMMA NextTurnPInv == PInv /\ NextTurn => PInv'
<1> SUFFICES ASSUME PInv, NextTurn PROVE PInv'
  OBVIOUS
<1> USE DEF PInv
<1> DEFINE c == IF turn' % 2 = 0 THEN Forward ELSE ReverseCircuit(Forward)
<1>1. /\ phase = "trial" /\ turn < 2 * MaxIterations /\ turn' = turn + 1 /\ Call(c, layout)
      /\ UNCHANGED <<job, phase, trial, best, block, emitted, walkVars>>
  BY DEF NextTurn
<1>2. Routed
  BY <1>1 DEF CallInv, Begun
<1>3. c \in {Forward, ReverseCircuit(Forward)}
  OBVIOUS
<1> HIDE DEF c
<1>4. layout \in Placements(c)
  <2>1. layout \in Placements(circ) /\ circ.numQubits = Forward.numQubits
    BY <1>2 DEF Routed, RInv, Inv, TypeOK, Layouts
  <2>2. Placements(circ) = Placements(Forward)
    BY <2>1 DEF Placements, Wires
  <2>3. Placements(c) = Placements(Forward)
    BY <1>2, <1>3, BothDirections DEF Routed
  <2> QED BY <2>1, <2>2, <2>3
<1>5. Routed' /\ UNCHANGED device
  BY <1>1, <1>2, <1>3, <1>4, CallIsRouted DEF Routed
<1>6. CallInv'
  BY <1>1, <1>5 DEF CallInv, Begun
<1>7. Placements(Forward)' = Placements(Forward)
  BY <1>1, <1>5, KernelIsKept
<1>8. SearchInv'
  BY <1>1, <1>5, <1>7, TrialsAssumption DEF SearchInv
<1>9. QuietInv' /\ EmitInv' /\ WalkInv'
  BY <1>1, <1>5, StillQuiet
<1> QED BY <1>6, <1>8, <1>9

(* Scoring a trial keeps a layout of the kernel, the one the call started. *)
LEMMA ScoreTrialPInv == PInv /\ ScoreTrial => PInv'
<1> SUFFICES ASSUME PInv, ScoreTrial PROVE PInv'
  OBVIOUS
<1> USE DEF PInv
<1>1. /\ phase = "trial" /\ turn = 2 * MaxIterations
      /\ best' = IF best = <<>> \/ Len(insertions) < best[2]
                 THEN <<start, Len(insertions)>> ELSE best
      /\ turn' = turn + 1 /\ trial' = trial + 1
      /\ UNCHANGED <<job, vars, phase, start, block, emitted, walkVars>>
  BY DEF ScoreTrial
<1>2. Routed
  BY <1>1 DEF CallInv, Begun
<1>3. UNCHANGED <<device, circ, insertions, layout>>
  BY <1>1 DEF vars
<1>4. Forward' = Forward /\ Placements(Forward)' = Placements(Forward)
      /\ IsMappable(job)' = IsMappable(job)
  BY <1>1, <1>3, KernelIsKept
<1>5. start \in Placements(Forward) /\ Len(insertions) \in Nat
  <2>1. start \in Placements(circ) /\ circ.numQubits = Forward.numQubits
        /\ insertions \in Seq(InsertionType)
    BY <1>2 DEF Routed, RInv, Inv, TypeOK
  <2>2. Placements(circ) = Placements(Forward)
    BY <2>1 DEF Placements, Wires
  <2> QED BY <2>1, <2>2, LenProperties
<1>6. best' # <<>> /\ best'[1] \in Placements(Forward) /\ best'[2] \in Nat
  <2>1. CASE best = <<>> \/ Len(insertions) < best[2]
    BY <1>1, <1>5, <2>1
  <2>2. CASE ~(best = <<>> \/ Len(insertions) < best[2])
    BY <1>1, <2>2 DEF SearchInv
  <2> QED BY <2>1, <2>2
<1>7. SearchInv'
  <2>1. trial \in 0 .. LayoutTrials /\ trial < LayoutTrials /\ ~(turn > 2 * MaxIterations)
    BY <1>1, TrialsAssumption DEF SearchInv
  <2>2. trial' \in 0 .. LayoutTrials /\ turn' \in 0 .. (2 * MaxIterations + 1) /\ turn' > 2 * MaxIterations
    BY <1>1, <2>1, TrialsAssumption
  <2>3. job' \in Jobs /\ device' = job'.device /\ phase' = "trial"
    BY <1>1, <1>3 DEF SearchInv
  <2> QED BY <1>4, <1>6, <2>2, <2>3 DEF SearchInv
<1>8. CallInv'
  <2>1. RInv'
    BY <1>1, <1>2, NextRInv DEF Routed
  <2>2. Placements(circ)' = Placements(circ)
    BY <1>3 DEF Placements
  <2>3. Routed'
    BY <1>1, <1>2, <1>3, <1>4, <2>1, <2>2 DEF Routed, LayoutBeforeInsertion
  <2> QED BY <1>1, <2>3 DEF CallInv, Begun
<1>9. QuietInv' /\ EmitInv' /\ WalkInv'
  BY <1>1, <1>3, StillQuiet
<1> QED BY <1>7, <1>8, <1>9

(* The final routing starts from the layout that won.                      *)
LEMMA StartRoutingPInv == PInv /\ StartRouting => PInv'
<1> SUFFICES ASSUME PInv, StartRouting PROVE PInv'
  OBVIOUS
<1> USE DEF PInv
<1>1. /\ phase = "trial" /\ turn > 2 * MaxIterations /\ phase' = "route" /\ Call(Forward, best[1])
      /\ UNCHANGED <<job, trial, turn, best, block, emitted, walkVars>>
  BY DEF StartRouting, layoutVars
<1>2. IsMappable(job) /\ best[1] \in Placements(Forward)
  BY <1>1 DEF CallInv, Begun, Routed, SearchInv
<1>3. Routed' /\ circ' = Forward /\ UNCHANGED device
  BY <1>1, <1>2, CallIsRouted
<1>4. Forward' = Forward /\ Placements(Forward)' = Placements(Forward)
  BY <1>1, <1>3, KernelIsKept
<1>5. SearchInv' /\ CallInv'
  BY <1>1, <1>3, <1>4 DEF SearchInv, CallInv, Begun
<1>6. QuietInv' /\ EmitInv' /\ WalkInv'
  BY <1>1, <1>3, StillQuiet
<1> QED BY <1>5, <1>6

(* A kernel without gates: each wire starts on the qubit of its number.    *)
LEMMA StartEmptyPInv == PInv /\ StartEmpty => PInv'
<1> SUFFICES ASSUME PInv, StartEmpty PROVE PInv'
  OBVIOUS
<1> USE DEF PInv
<1> DEFINE l == [v \in Wires(Forward) |-> v]
<1>1. /\ phase = "start" /\ IsMappable(job) /\ Len(Forward.gates) = 0 /\ phase' = "route"
      /\ Call(Forward, l)
      /\ UNCHANGED <<job, trial, turn, best, block, emitted, walkVars>>
  BY DEF StartEmpty, layoutVars
<1>2. l \in Placements(Forward)
  <2>1. /\ job \in Jobs /\ device = job.device
        /\ Forward.numQubits \in Nat
        /\ Len(Forward.gates) = Len(job.prog)
        /\ Len(job.prog) = 0 => Forward.numQubits <= job.device.size
    BY <1>1, ExtractedIsCircuit DEF SearchInv, Forward, IsCircuit
  <2>2. job.device.size \in Nat
    BY <1>1, <2>1, MappableKernel
  <2>3. Wires(Forward) \subseteq Phys(device)
    BY <1>1, <2>1, <2>2 DEF Wires, Phys
  <2> QED BY <2>3 DEF Placements, InjectiveOn
<1> HIDE DEF l
<1>3. Routed' /\ circ' = Forward /\ UNCHANGED device
  BY <1>1, <1>2, CallIsRouted
<1>4. Forward' = Forward /\ Placements(Forward)' = Placements(Forward)
  BY <1>1, <1>3, KernelIsKept
<1>5. SearchInv' /\ CallInv'
  BY <1>1, <1>3, <1>4 DEF SearchInv, CallInv, Begun
<1>6. QuietInv' /\ EmitInv' /\ WalkInv'
  BY <1>1, <1>3, StillQuiet
<1> QED BY <1>5, <1>6

(* The kernel is refused, before the search or after the routing.          *)
LEMMA LeaveUnmappedPInv == PInv /\ LeaveUnmapped => PInv'
<1> SUFFICES ASSUME PInv, LeaveUnmapped PROVE PInv'
  OBVIOUS
<1> USE DEF PInv
<1>1. /\ phase = "start" /\ phase' = "unmapped"
      /\ UNCHANGED <<job, device, insertions, trial, turn, best, block, emitted, walkVars>>
  BY DEF LeaveUnmapped, vars, layoutVars
<1>2. Forward' = Forward /\ Placements(Forward)' = Placements(Forward)
  BY <1>1, KernelIsKept
<1>3. SearchInv' /\ CallInv'
  BY <1>1, <1>2 DEF SearchInv, CallInv, Begun
<1>4. QuietInv' /\ EmitInv' /\ WalkInv'
  BY <1>1, StillQuiet
<1> QED BY <1>3, <1>4

(* A kernel that could not be routed is left alone.                        *)
LEMMA FatalPInv == PInv /\ Fatal => PInv'
<1> SUFFICES ASSUME PInv, Fatal PROVE PInv'
  OBVIOUS
<1> USE DEF PInv
<1>1. /\ phase = "route" /\ phase' = "fatal"
      /\ UNCHANGED <<job, vars, layoutVars, start, block, emitted, walkVars>>
      /\ UNCHANGED device
  BY DEF Fatal, vars
<1>2. SearchInv' /\ CallInv'
  BY <1>1, StillRouted
<1>3. QuietInv' /\ EmitInv' /\ WalkInv'
  BY <1>1, StillQuiet
<1> QED BY <1>2, <1>3

----------------------------------------------------------------------------

(* The recorded swaps, as numbers: their anchors are gates, in order.      *)
LEMMA AnchorsInOrder ==
  ASSUME RInv
  PROVE  /\ Len(insertions) \in Nat /\ Len(circ.gates) \in Nat
         /\ \A k \in 1 .. Len(insertions) : insertions[k].before \in 1 .. Len(circ.gates)
         /\ \A k, m \in 1 .. Len(insertions) :
              k <= m => insertions[k].before <= insertions[m].before
<1> DEFINE N == Len(insertions)
           B(k) == insertions[k].before
<1>1. insertions \in Seq(InsertionType) /\ circ.gates \in Seq(Seq(Wires(circ)))
  BY DEF RInv, Inv, TypeOK, IsCircuit
<1>2. N \in Nat /\ Len(circ.gates) \in Nat
  BY <1>1, LenProperties
<1>3. \A k \in 1 .. N : B(k) \in 1 .. Len(circ.gates)
  <2>1. \A k \in 1 .. N : insertions[k] \in InsertionType
    BY <1>1, ElementOfSeq
  <2> QED BY <2>1 DEF InsertionType, GateIds
<1>4. \A k \in 1 .. (N - 1) : B(k) <= B(k + 1)
  BY DEF RInv, ReplayMatchesSimulation
<1> HIDE DEF N, B
<1>5. ASSUME NEW k \in 1 .. N, NEW m \in 1 .. N, k <= m
      PROVE  B(k) <= B(m)
  <2> DEFINE T == { i \in 0 .. (m - k) : B(k) <= B(k + i) }
  <2>0. m - k \in Nat
    BY <1>2, <1>5
  <2>1. 0 \in T
    BY <1>2, <1>3, <2>0
  <2>2. ASSUME NEW i \in 1 .. (m - k), i - 1 \in T PROVE i \in T
    <3>1. k + (i - 1) \in 1 .. (N - 1) /\ (k + (i - 1)) + 1 = k + i /\ k + i \in 1 .. N /\ k + (i - 1) \in 1 .. N
      BY <1>2, <2>0
    <3>2. B(k + (i - 1)) <= B(k + i)
      BY <1>4, <3>1
    <3>3. B(k) <= B(k + (i - 1))
      BY <2>2
    <3>4. B(k) \in Int /\ B(k + (i - 1)) \in Int /\ B(k + i) \in Int
      BY <1>3, <3>1
    <3>5. B(k) <= B(k + i)
      BY <3>2, <3>3, <3>4
    <3> QED BY <3>5
  <2>3. \A i \in 0 .. (m - k) : i \in T
    <3> HIDE DEF T
    <3> QED BY <2>0, <2>1, <2>2, CountingUp
  <2>4. m - k \in T
    <3> HIDE DEF T
    <3> QED BY <2>0, <2>3
  <2>5. k + (m - k) = m
    BY <1>2
  <2> QED BY <2>4, <2>5
<1> QED BY <1>2, <1>3, <1>5 DEF N, B

(* The calls of the kernel are the gates of the circuit that was routed,   *)
(* and none of them is mistaken for an inserted swap.                      *)
LEMMA KernelCalls ==
  ASSUME PInv, phase \in {"route", "fatal", "emit", "walk", "mapped"}
  PROVE  /\ circ.gates = FlatGates(job) /\ Len(circ.gates) \in Nat
         /\ DOMAIN job.prog = 1 .. Len(circ.gates) /\ GateIds(circ) = 1 .. Len(circ.gates)
         /\ \A g \in 1 .. Len(circ.gates) :
              /\ job.prog[g].kind \in {"gate", "swap"}
              /\ \A k : GateItem(g) # RouteItem(k)
<1>1. job \in Jobs /\ IsMappable(job) /\ circ = Extracted(job) /\ RInv
  BY DEF PInv, SearchInv, CallInv, Begun, Routed, Forward
<1>2. /\ circ.gates = FlatGates(job) /\ Len(circ.gates) = Len(job.prog)
      /\ DOMAIN job.prog = 1 .. Len(job.prog)
  BY <1>1, ExtractedIsCircuit
<1>3. Len(circ.gates) \in Nat
  BY <1>1, AnchorsInOrder
<1>4. \A g \in DOMAIN job.prog : job.prog[g].kind \in {"gate", "swap"}
  BY <1>1, JobsAssumption DEF IsKernel
<1>5. \A g \in DOMAIN job.prog : \A k : GateItem(g) # RouteItem(k)
  <2> TAKE g \in DOMAIN job.prog
  <2> TAKE k
  <2>1. GateItem(g).type \in {"gate", "swap"} /\ RouteItem(k).type = "route"
    BY <1>4 DEF GateItem, RouteItem
  <2> QED BY <2>1
<1> QED BY <1>2, <1>3, <1>4, <1>5 DEF GateIds

(* The block at first: the calls of the kernel.                            *)
LEMMA BeginEmissionPInv == PInv /\ BeginEmission => PInv'
<1> SUFFICES ASSUME PInv, BeginEmission PROVE PInv'
  OBVIOUS
<1> USE DEF PInv
<1>1. /\ phase = "route" /\ phase' = "emit" /\ executed = GateIds(circ)
      /\ block' = [g \in GateIds(circ) |-> GateItem(g)]
      /\ UNCHANGED <<job, vars, layoutVars, start, emitted, walkVars>>
  BY DEF BeginEmission
<1>2. UNCHANGED <<device, circ, executed, insertions, at, out, trace, held>>
  BY <1>1 DEF vars, walkVars
<1>3. SearchInv' /\ CallInv'
  BY <1>1, StillRouted
<1>4. emitted = 0 /\ emitted' = 0
  BY <1>1 DEF QuietInv
<1>5. QuietInv'
  BY <1>1, <1>2 DEF QuietInv
<1>6. Len(insertions) \in Nat /\ Len(circ.gates) \in Nat
  BY <1>1, AnchorsInOrder DEF CallInv, Begun, Routed
<1>7. \A g : GateItem(g)' = GateItem(g)
  BY <1>1 DEF GateItem
<1>8. block' \in Seq(Items') /\ Len(block') = Len(circ.gates) /\ DOMAIN block' = GateIds(circ)
  <2>1. \A g \in GateIds(circ) : GateItem(g) \in Items'
    BY <1>2, <1>7 DEF Items
  <2> HIDE DEF PInv
  <2> QED BY <1>1, <1>6, <2>1 DEF GateIds
<1>9. \A p, q \in DOMAIN block' : block'[p] = block'[q] => p = q
  BY <1>1, <1>8 DEF GateItem
<1>10. \A g \in GateIds(circ) : block'[g + 0] = GateItem(g)'
  <2> TAKE g \in GateIds(circ)
  <2>1. g + 0 = g
    BY <1>6 DEF GateIds
  <2> QED BY <1>1, <1>7, <2>1
<1>11. BlockInv'
  BY <1>2, <1>4, <1>6, <1>8, <1>9, <1>10 DEF BlockInv
<1>12. EmitInv' /\ WalkInv'
  BY <1>1, <1>2, <1>11 DEF EmitInv, WalkInv
<1> QED BY <1>3, <1>5, <1>12

(* Items inserted into a sequence in front of place p.                     *)
Insertion(b, items, p) == SubSeq(b, 1, p - 1) \o items \o SubSeq(b, p, Len(b))

(* What insertion in front of a place does to each item.                   *)
LEMMA Inserted ==
  ASSUME NEW S, NEW b \in Seq(S), NEW items \in Seq(S), NEW p \in 1 .. Len(b)
  PROVE  /\ Insertion(b, items, p) \in Seq(S)
         /\ Len(Insertion(b, items, p)) = Len(b) + Len(items)
         /\ \A x \in 1 .. (p - 1) : Insertion(b, items, p)[x] = b[x]
         /\ \A x \in 1 .. Len(items) : Insertion(b, items, p)[p - 1 + x] = items[x]
         /\ \A x \in p .. Len(b) : Insertion(b, items, p)[x + Len(items)] = b[x]
<1> DEFINE r == Insertion(b, items, p)
           h == SubSeq(b, 1, p - 1)
           t == SubSeq(b, p, Len(b))
           n == Len(b)
           m == Len(items)
<1>1. n \in Nat /\ m \in Nat /\ p \in 1 .. n /\ \A x \in 1 .. n : b[x] \in S
  BY LenProperties, ElementOfSeq
<1>2. h \in Seq(S) /\ Len(h) = p - 1 /\ \A x \in 1 .. (p - 1) : h[x] = b[x]
  <2>1. \A x \in 1 .. (p - 1) : b[x] \in S
    BY <1>1
  <2>2. 1 \in Int /\ p - 1 \in Int
    BY <1>1
  <2>3. /\ h \in Seq(S) /\ Len(h) = IF 1 <= p - 1 THEN (p - 1) - 1 + 1 ELSE 0
        /\ \A x \in 1 .. ((p - 1) - 1 + 1) : h[x] = b[1 + x - 1]
    BY <2>1, <2>2, SubSeqProperties
  <2> HIDE DEF h, n
  <2>4. Len(h) = p - 1
    BY <1>1, <2>3
  <2>5. ASSUME NEW x \in 1 .. (p - 1) PROVE h[x] = b[x]
    <3>1. x \in 1 .. ((p - 1) - 1 + 1) /\ 1 + x - 1 = x
      BY <1>1
    <3> QED BY <2>3, <3>1
  <2> QED BY <2>3, <2>4, <2>5
<1>3. t \in Seq(S) /\ Len(t) = n - p + 1 /\ \A x \in 1 .. (n - p + 1) : t[x] = b[p + x - 1]
  <2>1. \A x \in p .. n : b[x] \in S
    BY <1>1
  <2>2. p \in Int /\ n \in Int /\ p <= n
    BY <1>1
  <2> QED BY <2>1, <2>2, SubSeqProperties
<1> HIDE DEF r, h, t, n, m
<1>4. /\ h \o items \in Seq(S) /\ Len(h \o items) = Len(h) + Len(items)
      /\ \A x \in 1 .. Len(h) + Len(items) :
           (h \o items)[x] = IF x <= Len(h) THEN h[x] ELSE items[x - Len(h)]
  BY <1>2, ConcatProperties
<1> DEFINE hi == h \o items
<1> HIDE DEF hi
<1>5. hi \in Seq(S) /\ Len(hi) = (p - 1) + m
      /\ \A x \in 1 .. (p - 1) + m : hi[x] = IF x <= p - 1 THEN h[x] ELSE items[x - (p - 1)]
  BY <1>2, <1>4 DEF hi, m
<1>6. r = hi \o t
  BY DEF r, Insertion, hi, h, t, n
<1>7. /\ r \in Seq(S) /\ Len(r) = (p - 1) + m + (n - p + 1)
      /\ \A x \in 1 .. (p - 1) + m + (n - p + 1) : r[x] = IF x <= (p - 1) + m THEN hi[x] ELSE t[x - ((p - 1) + m)]
  <2>1. /\ r \in Seq(S) /\ Len(r) = Len(hi) + Len(t)
        /\ \A x \in 1 .. Len(hi) + Len(t) : r[x] = IF x <= Len(hi) THEN hi[x] ELSE t[x - Len(hi)]
    <3>1. /\ hi \o t \in Seq(S) /\ Len(hi \o t) = Len(hi) + Len(t)
          /\ \A x \in 1 .. Len(hi) + Len(t) :
               (hi \o t)[x] = IF x <= Len(hi) THEN hi[x] ELSE t[x - Len(hi)]
      BY <1>3, <1>5, ConcatProperties
    <3> QED BY <1>6, <3>1
  <2> QED BY <1>3, <1>5, <2>1
<1>8. (p - 1) + m + (n - p + 1) = n + m
  BY <1>1
<1>9. ASSUME NEW x \in 1 .. (p - 1) PROVE r[x] = b[x]
  <2>1. x \in 1 .. (p - 1) + m /\ x \in 1 .. n + m /\ x <= (p - 1) + m /\ x <= p - 1
    BY <1>1
  <2> QED BY <1>2, <1>5, <1>7, <1>8, <2>1
<1>10. ASSUME NEW x \in 1 .. m PROVE r[p - 1 + x] = items[x]
  <2>1. /\ p - 1 + x \in 1 .. (p - 1) + m /\ p - 1 + x \in 1 .. n + m /\ p - 1 + x <= (p - 1) + m
        /\ ~(p - 1 + x <= p - 1) /\ (p - 1 + x) - (p - 1) = x
    BY <1>1
  <2> QED BY <1>5, <1>7, <1>8, <2>1
<1>11. ASSUME NEW x \in p .. n PROVE r[x + m] = b[x]
  <2>1. /\ x + m \in 1 .. n + m /\ ~(x + m <= (p - 1) + m) /\ (x + m) - ((p - 1) + m) = x - p + 1
        /\ x - p + 1 \in 1 .. (n - p + 1) /\ p + (x - p + 1) - 1 = x
    BY <1>1
  <2> QED BY <1>3, <1>7, <1>8, <2>1
<1> QED BY <1>7, <1>8, <1>9, <1>10, <1>11 DEF m, n, r

(* A group: swaps anchored to the same gate as the first of them.          *)
LEMMA GroupSharesAnchor ==
  ASSUME Len(insertions) \in Nat, NEW i \in 1 .. Len(insertions)
  PROVE  /\ GroupEnd(i) \in (i + 1) .. (Len(insertions) + 1)
         /\ \A k \in i .. (GroupEnd(i) - 1) : insertions[k].before = insertions[i].before
<1> DEFINE N == Len(insertions)
           B(k) == insertions[k].before
           T == { j \in (i + 1) .. (N + 1) : j = N + 1 \/ B(j) # B(i) }
           e == GroupEnd(i)
<1>1. e = Min(T)
  BY DEF GroupEnd
<1> HIDE DEF N, B, e
<1>2. N \in Nat /\ i \in 1 .. N
  BY DEF N
<1>3. T \in SUBSET Nat /\ N + 1 \in T
  BY <1>2
<1>4. \E m \in T : \A j \in T : m <= j
  <2> HIDE DEF T
  <2> QED BY <1>3, LeastNatural
<1>5. e \in T /\ \A j \in T : e <= j
  <2> HIDE DEF T
  <2> QED BY <1>1, <1>4 DEF Min
<1>6. ASSUME NEW k \in i .. (e - 1) PROVE B(k) = B(i)
  <2>1. k = i \/ k \in (i + 1) .. (N + 1)
    BY <1>2, <1>5
  <2>2. k \notin T
    <3> HIDE DEF T
    <3>1. e \in Nat
      BY <1>3, <1>5
    <3> QED BY <1>2, <1>5, <3>1
  <2> QED BY <2>1, <2>2
<1> QED BY <1>5, <1>6 DEF N, B, e

(* A group of swaps is inserted in front of its gate.                      *)
LEMMA EmitGroupPInv == PInv /\ EmitGroup => PInv'
<1> SUFFICES ASSUME PInv, EmitGroup PROVE PInv'
  OBVIOUS
<1> DEFINE e == emitted
           i == emitted + 1
           j == GroupEnd(i)
           f == emitted'
           N == Len(insertions)
           n == Len(circ.gates)
           B(k) == insertions[k].before
           g0 == B(i)
           items == GroupItems(i, j)
           p == g0 + e
<1>1. /\ phase = "emit" /\ phase' = "emit" /\ e < N
      /\ block' = InFrontOf(g0, items) /\ f = j - 1
      /\ UNCHANGED <<job, vars, layoutVars, start, walkVars>>
  BY DEF EmitGroup
<1>2. UNCHANGED <<device, circ, executed, insertions, at, out, trace, held>>
  BY <1>1 DEF vars, walkVars
<1>3. SearchInv' /\ CallInv'
  BY <1>1, StillRouted DEF PInv
<1>4. QuietInv' /\ WalkInv'
  BY <1>1, <1>2 DEF PInv, QuietInv, WalkInv
<1>5. RInv
  BY <1>1 DEF PInv, CallInv, Begun, Routed
<1>6. /\ N \in Nat /\ n \in Nat
      /\ \A k \in 1 .. N : B(k) \in 1 .. n
      /\ \A k, m \in 1 .. N : k <= m => B(k) <= B(m)
  BY <1>5, AnchorsInOrder
<1>7. /\ e \in 0 .. N /\ block \in Seq(Items) /\ Len(block) = n + e
      /\ \A x, y \in DOMAIN block : block[x] = block[y] => x = y
      /\ \A k \in 1 .. e : block[B(k) + k - 1] = RouteItem(k)
      /\ \A g \in 1 .. n : \A k \in 0 .. e : AreUpTo(k, g) => block[g + k] = GateItem(g)
  BY <1>1 DEF PInv, EmitInv, BlockInv, GateIds
<1>8. i \in 1 .. N
  BY <1>1, <1>6, <1>7
<1>9. j \in (i + 1) .. (N + 1) /\ \A k \in i .. (j - 1) : B(k) = g0
  BY <1>6, <1>8, GroupSharesAnchor
<1>10. \A g : GateItem(g)' = GateItem(g)
  BY <1>1 DEF GateItem
<1>11. \A k : RouteItem(k)' = RouteItem(k)
  BY DEF RouteItem
<1>12. \A k \in 0 .. e : \A g : AreUpTo(k, g) <=> (k > 0 => B(k) <= g) /\ (k < e => B(k + 1) > g)
  BY DEF AreUpTo
<1>13. \A k \in 0 .. f : \A g : AreUpTo(k, g)' <=> (k > 0 => B(k) <= g) /\ (k < f => B(k + 1) > g)
  BY <1>2 DEF AreUpTo
<1>14. items = [m \in 1 .. (j - i) |-> RouteItem(i + m - 1)]
  BY DEF GroupItems
<1>15. Items' = { GateItem(g) : g \in 1 .. n } \cup { RouteItem(k) : k \in 1 .. f }
       /\ Items = { GateItem(g) : g \in 1 .. n } \cup { RouteItem(k) : k \in 1 .. e }
  BY <1>2, <1>10, <1>11 DEF Items, GateIds
<1>16. UNCHANGED <<N, n>> /\ \A k : B(k)' = B(k)
  BY <1>2
<1> HIDE DEF N, n, B, j, items
<1>17. /\ e \in Nat /\ i = e + 1 /\ f \in Nat /\ f = j - 1 /\ e < f /\ f <= N /\ j - i = f - e
       /\ g0 \in 1 .. n /\ p \in 1 .. (n + e) /\ p = g0 + e
  BY <1>1, <1>6, <1>7, <1>8, <1>9
<1>18. block[p] = GateItem(g0) /\ DOMAIN block = 1 .. (n + e)
  <2>1. e > 0 => B(e) <= g0
    BY <1>6, <1>7, <1>8, <1>17
  <2>2. AreUpTo(e, g0)
    BY <1>12, <1>17, <2>1
  <2> QED BY <1>7, <1>17, <2>2, LenProperties
<1>19. block' = Insertion(block, items, p)
  <2> DEFINE c == CHOOSE x \in DOMAIN block : block[x] = GateItem(g0)
  <2>1. c = p
    BY <1>7, <1>17, <1>18
  <2>2. InFrontOf(g0, items) = SubSeq(block, 1, c - 1) \o items \o SubSeq(block, c, Len(block))
    BY DEF InFrontOf
  <2> HIDE DEF c, p
  <2> QED BY <1>1, <2>1, <2>2 DEF Insertion
<1>20. items \in Seq(Items') /\ Len(items) = f - e
       /\ \A m \in 1 .. (f - e) : items[m] = RouteItem(e + m)
  <2>1. \A m \in 1 .. (f - e) : i + m - 1 = e + m /\ e + m \in 1 .. f
    BY <1>17
  <2>2. items = [m \in 1 .. (f - e) |-> RouteItem(e + m)]
    BY <1>14, <1>17, <2>1
  <2>3. f - e \in Nat
    BY <1>17
  <2>4. \A m \in 1 .. (f - e) : RouteItem(e + m) \in Items'
    BY <1>15, <2>1
  <2> QED BY <2>2, <2>3, <2>4
<1>21. block \in Seq(Items')
  <2>1. Items \subseteq Items'
    BY <1>15, <1>17
  <2> QED BY <1>7, <2>1, SeqMonotonic
<1>22. /\ block' \in Seq(Items') /\ Len(block') = n + f
       /\ \A x \in 1 .. (p - 1) : block'[x] = block[x]
       /\ \A m \in 1 .. (f - e) : block'[p - 1 + m] = RouteItem(e + m)
       /\ \A x \in p .. (n + e) : block'[x + (f - e)] = block[x]
  <2>1. p \in 1 .. Len(block)
    BY <1>7, <1>17
  <2>2. /\ block' \in Seq(Items') /\ Len(block') = Len(block) + Len(items)
        /\ \A x \in 1 .. (p - 1) : block'[x] = block[x]
        /\ \A m \in 1 .. Len(items) : block'[p - 1 + m] = items[m]
        /\ \A x \in p .. Len(block) : block'[x + Len(items)] = block[x]
    <3> DEFINE S == Items'
               r == Insertion(block, items, p)
    <3>1. block \in Seq(S) /\ items \in Seq(S)
      BY <1>20, <1>21
    <3> HIDE DEF S, p
    <3>2. r \in Seq(S) /\ Len(r) = Len(block) + Len(items)
      BY <2>1, <3>1, Inserted
    <3>3. \A x \in 1 .. (p - 1) : r[x] = block[x]
      BY <2>1, <3>1, Inserted
    <3>4. \A x \in 1 .. Len(items) : r[p - 1 + x] = items[x]
      BY <2>1, <3>1, Inserted
    <3>5. \A x \in p .. Len(block) : r[x + Len(items)] = block[x]
      BY <2>1, <3>1, Inserted
    <3> QED BY <1>19, <3>2, <3>3, <3>4, <3>5 DEF S
  <2>3. Len(block') = n + f
    BY <1>6, <1>7, <1>17, <1>20, <2>2
  <2> QED BY <1>7, <1>20, <2>2, <2>3
<1> HIDE DEF p, g0, e, f, i
<1>23. \A k \in 1 .. f : block'[B(k) + k - 1] = RouteItem(k)
  <2> TAKE k \in 1 .. f
  <2>1. CASE k <= e
    <3>1. B(k) <= g0 /\ B(k) \in 1 .. n /\ k \in 1 .. e
      BY <1>6, <1>8, <1>17, <2>1 DEF g0
    <3>2. B(k) + k - 1 \in 1 .. (p - 1)
      BY <1>17, <3>1
    <3> QED BY <1>7, <1>22, <3>1, <3>2
  <2>2. CASE k > e
    <3>1. B(k) = g0
      BY <1>9, <1>17, <2>2
    <3>2. k - e \in 1 .. (f - e) /\ e + (k - e) = k /\ B(k) + k - 1 = p - 1 + (k - e)
      BY <1>17, <2>2, <3>1
    <3> QED BY <1>22, <3>2
  <2> QED BY <1>17, <2>1, <2>2
<1>24. \A g \in 1 .. n : \A k \in 0 .. f : AreUpTo(k, g)' => block'[g + k] = GateItem(g)
  <2> SUFFICES ASSUME NEW g \in 1 .. n, NEW k \in 0 .. f,
                      k > 0 => B(k) <= g, k < f => B(k + 1) > g
               PROVE  block'[g + k] = GateItem(g)
    BY <1>13
  <2>1. CASE g < g0
    <3>1. k <= e
      <4> SUFFICES ASSUME k > e PROVE FALSE
        BY <1>17
      <4>1. B(k) = g0
        BY <1>9, <1>17
      <4> QED BY <1>17, <2>1, <4>1
    <3>2. k \in 0 .. e /\ k < f
      BY <1>17, <3>1
    <3>3. AreUpTo(k, g)
      BY <1>12, <3>2
    <3>4. g + k \in 1 .. (p - 1)
      BY <1>17, <2>1, <3>2
    <3> QED BY <1>7, <1>22, <3>2, <3>3, <3>4
  <2>2. CASE g >= g0
    <3>1. k = f
      <4> SUFFICES ASSUME k < f PROVE FALSE
        BY <1>17
      <4>1. k + 1 \in 1 .. N /\ f \in 1 .. N /\ k + 1 <= f
        BY <1>6, <1>17
      <4>2. B(k + 1) <= B(f) /\ B(k + 1) \in 1 .. n /\ B(f) \in 1 .. n
        BY <1>6, <4>1
      <4>3. B(f) = g0
        BY <1>9, <1>17
      <4> QED BY <1>17, <2>2, <4>2, <4>3
    <3>2. e > 0 => B(e) <= g0 /\ B(e) \in 1 .. n
      BY <1>6, <1>8, <1>17 DEF g0
    <3>3. AreUpTo(e, g)
      BY <1>12, <1>17, <2>2, <3>2
    <3>4. e \in 0 .. e /\ g + e \in p .. (n + e) /\ (g + e) + (f - e) = g + k
      BY <1>6, <1>17, <2>2, <3>1
    <3> QED BY <1>7, <1>22, <3>3, <3>4
  <2> QED BY <1>17, <2>1, <2>2
<1>25. \A x, y \in 1 .. (n + f) : block'[x] = block'[y] => x = y
  <2> DEFINE Old(x) == IF x < p THEN x ELSE x - (f - e)
             IsNew(x) == x \in p .. (p - 1 + (f - e))
  <2>1. ASSUME NEW x \in 1 .. (n + f), IsNew(x)
        PROVE  x - (p - 1) \in 1 .. (f - e) /\ block'[x] = RouteItem(e + (x - (p - 1)))
    <3>1. x - (p - 1) \in 1 .. (f - e) /\ p - 1 + (x - (p - 1)) = x
      BY <1>17, <2>1
    <3> QED BY <1>22, <3>1
  <2>2. ASSUME NEW x \in 1 .. (n + f), ~IsNew(x)
        PROVE  Old(x) \in 1 .. (n + e) /\ block'[x] = block[Old(x)]
    <3>1. CASE x < p
      <4>1. x \in 1 .. (p - 1) /\ x \in 1 .. (n + e)
        BY <1>6, <1>17, <3>1
      <4> QED BY <1>22, <3>1, <4>1
    <3>2. CASE x >= p
      <4>1. x - (f - e) \in p .. (n + e) /\ (x - (f - e)) + (f - e) = x
        BY <1>6, <1>17, <2>2, <3>2
      <4>2. x - (f - e) \in 1 .. (n + e)
        BY <1>6, <1>17, <4>1
      <4>3. block'[(x - (f - e)) + (f - e)] = block[x - (f - e)]
        BY <1>22, <4>1
      <4> QED BY <1>17, <3>2, <4>1, <4>2, <4>3
    <3> QED BY <1>17, <3>1, <3>2
  <2>3. ASSUME NEW x \in 1 .. (n + e), NEW k \in 1 .. (f - e)
        PROVE  block[x] # RouteItem(e + k)
    <3>1. block[x] \in Items
      BY <1>7, ElementOfSeq
    <3>2. CASE \E g \in 1 .. n : block[x] = GateItem(g)
      <4>1. PICK g \in 1 .. n : block[x] = GateItem(g)
        BY <3>2
      <4>2. \A m : GateItem(g) # RouteItem(m)
        BY <1>1, KernelCalls DEF n
      <4> QED BY <4>1, <4>2
    <3>3. CASE \E m \in 1 .. e : block[x] = RouteItem(m)
      BY <1>17, <3>3 DEF RouteItem
    <3> QED BY <1>15, <3>1, <3>2, <3>3
  <2>4. \A x, y \in 1 .. (n + f) :
          ~IsNew(x) /\ ~IsNew(y) /\ Old(x) = Old(y) => x = y
    BY <1>6, <1>17
  <2> SUFFICES ASSUME NEW x \in 1 .. (n + f), NEW y \in 1 .. (n + f), block'[x] = block'[y]
               PROVE  x = y
    OBVIOUS
  <2> HIDE DEF Old, IsNew
  <2>5. CASE IsNew(x) /\ IsNew(y)
    <3>1. RouteItem(e + (x - (p - 1))) = RouteItem(e + (y - (p - 1)))
      BY <2>1, <2>5
    <3>2. e + (x - (p - 1)) = e + (y - (p - 1))
      BY <3>1 DEF RouteItem
    <3> QED BY <1>6, <1>17, <3>2
  <2>6. CASE IsNew(x) /\ ~IsNew(y)
    BY <2>1, <2>2, <2>3, <2>6
  <2>7. CASE ~IsNew(x) /\ IsNew(y)
    BY <2>1, <2>2, <2>3, <2>7
  <2>8. CASE ~IsNew(x) /\ ~IsNew(y)
    <3>1. block[Old(x)] = block[Old(y)] /\ Old(x) \in DOMAIN block /\ Old(y) \in DOMAIN block
      BY <1>18, <2>2, <2>8
    <3>2. Old(x) = Old(y)
      BY <1>7, <3>1
    <3> QED BY <2>4, <2>8, <3>2
  <2> QED BY <2>5, <2>6, <2>7, <2>8
<1>26. DOMAIN block' = 1 .. (n + f)
  BY <1>22, LenProperties
<1>27. BlockInv'
  <2>1. f \in 0 .. N
    BY <1>17
  <2>2. /\ emitted' = f /\ Len(insertions)' = N /\ Len(circ.gates)' = n /\ GateIds(circ)' = 1 .. n
        /\ \A k : insertions'[k].before = B(k)
    BY <1>2 DEF f, N, n, B, GateIds
  <2>3. \A g \in 1 .. n : \A k \in 0 .. f : AreUpTo(k, g)' => block'[g + k] = GateItem(g)'
    BY <1>10, <1>24
  <2>4. \A k \in 1 .. f : block'[insertions'[k].before + k - 1] = RouteItem(k)'
    BY <1>11, <1>23, <2>2
  <2>5. \A x, y \in DOMAIN block' : block'[x] = block'[y] => x = y
    BY <1>25, <1>26
  <2>6. block' \in Seq(Items') /\ Len(block') = n + f
    BY <1>22
  <2> QED BY <2>1, <2>2, <2>3, <2>4, <2>5, <2>6 DEF BlockInv
<1>28. EmitInv'
  <2>1. executed' = GateIds(circ)'
    BY <1>1, <1>2 DEF PInv, EmitInv, GateIds
  <2> QED BY <1>27, <2>1 DEF EmitInv
<1> QED BY <1>3, <1>4, <1>28 DEF PInv

----------------------------------------------------------------------------

(* Every layout of the simulation keeps the wires on distinct qubits.      *)
LEMMA RecordedLayouts ==
  ASSUME RInv, NEW k \in 1 .. (Len(insertions) + 1)
  PROVE  LayoutBeforeInsertion(k) \in Placements(circ)
<1>1. insertions \in Seq(InsertionType) /\ layout \in Placements(circ)
  BY DEF RInv, Inv, TypeOK, Layouts
<1>2. Len(insertions) \in Nat /\ \A i \in 1 .. Len(insertions) : insertions[i] \in InsertionType
  BY <1>1, LenProperties, ElementOfSeq
<1>3. CASE k <= Len(insertions)
  <2>1. insertions[k] \in InsertionType
    BY <1>2, <1>3
  <2>2. insertions[k].layout \in Placements(circ)
    BY <2>1 DEF InsertionType, Layouts
  <2> QED BY <1>3, <2>2 DEF LayoutBeforeInsertion
<1>4. CASE ~(k <= Len(insertions))
  BY <1>1, <1>4 DEF LayoutBeforeInsertion
<1> QED BY <1>3, <1>4

(* The walk starts with the wires where the final routing started.         *)
LEMMA BeginWalkPInv == PInv /\ BeginWalk => PInv'
<1> SUFFICES ASSUME PInv, BeginWalk PROVE PInv'
  OBVIOUS
<1>1. /\ phase = "emit" /\ phase' = "walk" /\ emitted = Len(insertions)
      /\ current' = start
      /\ held' = [p \in Phys(device) |->
                    IF \E v \in Wires(circ) : start[v] = p
                    THEN CHOOSE v \in Wires(circ) : start[v] = p ELSE NoWire]
      /\ UNCHANGED <<job, vars, layoutVars, start, block, emitted, at, out, trace>>
  BY DEF BeginWalk
<1>2. UNCHANGED <<device, circ, executed, insertions, layout>>
  BY <1>1 DEF vars
<1>3. SearchInv' /\ CallInv'
  BY <1>1, StillRouted DEF PInv
<1>4. at = 1 /\ trace = <<>>
  BY <1>1 DEF PInv, QuietInv
<1>5. QuietInv' /\ EmitInv'
  BY <1>1, <1>2 DEF PInv, QuietInv, EmitInv, BlockInv, Items, AreUpTo, GateItem, RouteItem, GateIds
<1>6. RInv /\ start \in Placements(circ) /\ LayoutBeforeInsertion(1) = start
  BY <1>1 DEF PInv, CallInv, Begun, Routed
<1>7. start \in [Wires(circ) -> Phys(device)] /\ \A v, w \in Wires(circ) : start[v] = start[w] => v = w
  BY <1>6 DEF Placements, InjectiveOn
<1>8. \A v \in Wires(circ) : held'[start[v]] = v
  BY <1>1, <1>7
<1>9. \A p \in Phys(device) :
        held'[p] # NoWire => held'[p] \in Wires(circ) /\ start[held'[p]] = p
  <2> TAKE p \in Phys(device)
  <2>1. CASE \E v \in Wires(circ) : start[v] = p
    BY <1>1, <2>1
  <2>2. CASE ~(\E v \in Wires(circ) : start[v] = p)
    BY <1>1, <2>2
  <2> QED BY <2>1, <2>2
<1>10. held' \in [Phys(device) -> Wires(circ) \cup {NoWire}]
  BY <1>1, <1>9
<1>11. \A p, q \in Phys(device) : held'[p] = held'[q] /\ held'[p] # NoWire => p = q
  BY <1>9
<1>12. Len(trace) = 0 /\ Passed' = 0 /\ trace \in Seq([call : GateIds(circ), wires : Seq(Wires(circ) \cup {NoWire})])
  <2>1. Len(trace) = 0
    BY <1>4
  <2>2. Passed' = 0
    <3>1. at' = 1 /\ Len(trace') = 0
      BY <1>1, <1>4
    <3>2. Passed' = at' - 1 - Len(trace')
      BY DEF Passed
    <3> QED BY <3>1, <3>2
  <2>3. trace \in Seq([call : GateIds(circ), wires : Seq(Wires(circ) \cup {NoWire})])
    BY <1>4, EmptySeq
  <2> QED BY <2>1, <2>2, <2>3
<1>13. /\ Len(insertions) \in Nat /\ Len(circ.gates) \in Nat
       /\ \A k \in 1 .. Len(insertions) : insertions[k].before \in 1 .. Len(circ.gates)
  BY <1>6, AnchorsInOrder
<1>14. Passed' < Len(insertions) => insertions[Passed' + 1].before > Len(trace)
  BY <1>12, <1>13
<1>15. LayoutBeforeInsertion(Passed + 1)' = start
  <2>1. Passed' + 1 = 1
    BY <1>12
  <2>2. \A k : LayoutBeforeInsertion(k)' = LayoutBeforeInsertion(k)
    BY <1>2 DEF LayoutBeforeInsertion
  <2> QED BY <1>6, <2>1, <2>2
<1>16. Placements(circ)' = Placements(circ) /\ Wires(circ)' = Wires(circ)
       /\ Phys(device)' = Phys(device) /\ GateIds(circ)' = GateIds(circ)
  BY <1>2 DEF Placements, GateIds
<1> HIDE DEF PInv
<1>17. WalkInv'
  <2>1. /\ Len(trace)' \in 0 .. Len(circ.gates)' /\ Passed' \in 0 .. Len(insertions)'
        /\ ~(Passed' > 0) /\ phase' # "mapped" /\ at' \in Nat
        /\ emitted' = Len(insertions)'
    BY <1>1, <1>2, <1>4, <1>12, <1>13
  <2> QED BY <1>1, <1>2, <1>6, <1>8, <1>10, <1>11, <1>12, <1>14, <1>15, <1>16, <2>1 DEF WalkInv
<1> QED BY <1>3, <1>5, <1>17 DEF PInv

(* The item the walk looks at: the next of the recorded swaps when it is   *)
(* anchored to the next call of the kernel, and that call otherwise.       *)
LEMMA NextItem ==
  ASSUME PInv, phase = "walk", at <= Len(block)
  PROVE  \/ /\ Passed < Len(insertions)
            /\ insertions[Passed + 1].before = Len(trace) + 1
            /\ block[at] = RouteItem(Passed + 1)
         \/ /\ Len(trace) < Len(circ.gates)
            /\ Passed < Len(insertions) => insertions[Passed + 1].before > Len(trace) + 1
            /\ block[at] = GateItem(Len(trace) + 1)
            /\ IsLastUpTo(Passed, Len(trace) + 1)
<1> DEFINE N == Len(insertions)
           n == Len(circ.gates)
           B(k) == insertions[k].before
           g == Len(trace)
           r == Passed
<1>1. RInv /\ BlockInv /\ emitted = N
  BY DEF PInv, CallInv, Begun, Routed, EmitInv, WalkInv
<1>2. /\ N \in Nat /\ n \in Nat /\ \A k \in 1 .. N : B(k) \in 1 .. n
  BY <1>1, AnchorsInOrder
<1>3. /\ Len(block) = n + N
      /\ \A k \in 1 .. N : block[B(k) + k - 1] = RouteItem(k)
      /\ \A h \in 1 .. n : \A k \in 0 .. N : AreUpTo(k, h) => block[h + k] = GateItem(h)
  BY <1>1 DEF BlockInv, GateIds
<1>4. /\ g \in 0 .. n /\ r \in 0 .. N /\ at = g + r + 1
      /\ r > 0 => B(r) <= g + 1
      /\ r < N => B(r + 1) > g
  <2>1. at \in Nat /\ g \in 0 .. n /\ r \in 0 .. N /\ r = at - 1 - g
    BY DEF PInv, WalkInv, Passed
  <2> QED BY <2>1 DEF PInv, WalkInv
<1>5. \A k \in 0 .. N : \A h : AreUpTo(k, h) <=> (k > 0 => B(k) <= h) /\ (k < N => B(k + 1) > h)
  BY <1>1 DEF AreUpTo
<1>6. \A k \in 0 .. N : \A h : IsLastUpTo(k, h) <=> (k > 0 => B(k) <= h) /\ (k < N => B(k + 1) > h)
  BY DEF IsLastUpTo
<1> HIDE DEF N, n, B, g, r
<1>7. CASE r < N /\ B(r + 1) = g + 1
  <2>1. r + 1 \in 1 .. N /\ B(r + 1) + (r + 1) - 1 = at
    BY <1>2, <1>4, <1>7
  <2>2. block[at] = RouteItem(r + 1)
    BY <1>3, <2>1
  <2> QED BY <1>7, <2>2 DEF N, B, g, r
<1>8. CASE ~(r < N /\ B(r + 1) = g + 1)
  <2>1. r < N => B(r + 1) > g + 1 /\ B(r + 1) \in 1 .. n
    <3> SUFFICES ASSUME r < N PROVE B(r + 1) > g + 1 /\ B(r + 1) \in 1 .. n
      OBVIOUS
    <3>1. B(r + 1) \in 1 .. n /\ B(r + 1) > g /\ B(r + 1) # g + 1
      BY <1>2, <1>4, <1>8
    <3> QED BY <1>4, <3>1
  <2>2. g < n
    BY <1>2, <1>3, <1>4, <2>1
  <2>3. g + 1 \in 1 .. n /\ (g + 1) + r = at
    BY <1>2, <1>4, <2>2
  <2>4. AreUpTo(r, g + 1) /\ IsLastUpTo(r, g + 1)
    BY <1>4, <1>5, <1>6, <2>1
  <2>5. block[at] = GateItem(g + 1)
    BY <1>3, <1>4, <2>3, <2>4
  <2> QED BY <2>1, <2>2, <2>4, <2>5 DEF N, n, B, g, r
<1> QED BY <1>7, <1>8

(* The walk changes neither the block nor what the last call left.         *)
LEMMA WalkKeeps ==
  ASSUME PInv, phase = "walk", phase' \in {"walk", "mapped"},
         UNCHANGED <<job, vars, layoutVars, start, block, emitted>>
  PROVE  /\ SearchInv' /\ CallInv' /\ QuietInv' /\ EmitInv'
         /\ UNCHANGED <<device, circ, insertions, layout, layoutBefore>>
         /\ \A k : LayoutBeforeInsertion(k)' = LayoutBeforeInsertion(k)
         /\ Placements(circ)' = Placements(circ) /\ Wires(circ)' = Wires(circ)
         /\ Phys(device)' = Phys(device) /\ GateIds(circ)' = GateIds(circ)
<1>1. UNCHANGED <<device, circ, executed, insertions, layout, layoutBefore>>
  BY DEF vars
<1>2. SearchInv' /\ CallInv'
  BY StillRouted DEF PInv
<1>3. QuietInv' /\ EmitInv'
  BY <1>1 DEF PInv, QuietInv, EmitInv, BlockInv, Items, AreUpTo, GateItem, RouteItem, GateIds
<1>4. /\ \A k : LayoutBeforeInsertion(k)' = LayoutBeforeInsertion(k)
      /\ Placements(circ)' = Placements(circ) /\ Wires(circ)' = Wires(circ)
      /\ Phys(device)' = Phys(device) /\ GateIds(circ)' = GateIds(circ)
  BY <1>1 DEF LayoutBeforeInsertion, Placements, GateIds
<1> QED BY <1>1, <1>2, <1>3, <1>4

(* An inserted swap trades the states of two coupled qubits, as the        *)
(* simulation did.                                                         *)
LEMMA WalkRoutingSwapStep ==
  ASSUME PInv, WalkRoutingSwap
  PROVE  /\ Passed < Len(insertions) /\ insertions[Passed + 1].before = Len(trace) + 1
         /\ Passed' = Passed + 1 /\ at' = at + 1
         /\ current' = LayoutBeforeInsertion(Passed + 2)
         /\ \E v, w \in Wires(circ) :
              LET l == LayoutBeforeInsertion(Passed + 1)
              IN  /\ LayoutBeforeInsertion(Passed + 2) = Swapped(l, v, w)
                  /\ Adjacent(device, l[v], l[w])
                  /\ out' = Append(out, <<l[v], l[w]>>)
                  /\ held' = [held EXCEPT ![l[v]] = held[l[w]], ![l[w]] = held[l[v]]]
         /\ UNCHANGED <<job, vars, phase, layoutVars, start, block, emitted, trace>>
<1> DEFINE r == Passed
           ins == insertions[block[at].id]
<1>1. /\ phase = "walk" /\ at <= Len(block) /\ block[at].type = "route" /\ at' = at + 1
      /\ current' = Swapped(ins.layout, ins.v0, ins.v1)
      /\ out' = Append(out, <<ins.layout[ins.v0], ins.layout[ins.v1]>>)
      /\ held' = [held EXCEPT ![ins.layout[ins.v0]] = held[ins.layout[ins.v1]],
                              ![ins.layout[ins.v1]] = held[ins.layout[ins.v0]]]
      /\ UNCHANGED <<job, vars, phase, layoutVars, start, block, emitted, trace>>
  BY DEF WalkRoutingSwap
<1>2. RInv /\ at \in Nat /\ r \in 0 .. Len(insertions) /\ Len(trace) \in 0 .. Len(circ.gates)
  <2>1. RInv
    BY <1>1 DEF PInv, CallInv, Begun, Routed
  <2>2. at \in Nat /\ r \in 0 .. Len(insertions) /\ Len(trace) \in 0 .. Len(circ.gates)
    BY <1>1 DEF PInv, WalkInv
  <2> QED BY <2>1, <2>2
<1>3. Len(insertions) \in Nat /\ Len(circ.gates) \in Nat /\ Len(trace) \in Nat
  <2>1. Len(insertions) \in Nat /\ Len(circ.gates) \in Nat
    BY <1>2, AnchorsInOrder
  <2> QED BY <1>2, <2>1
<1>4. r < Len(insertions) /\ insertions[r + 1].before = Len(trace) + 1 /\ block[at] = RouteItem(r + 1)
  <2>1. ASSUME Len(trace) < Len(circ.gates), block[at] = GateItem(Len(trace) + 1)
        PROVE  FALSE
    <3>1. Len(trace) + 1 \in 1 .. Len(circ.gates)
      BY <1>2, <1>3, <2>1
    <3>2. job.prog[Len(trace) + 1].kind \in {"gate", "swap"}
      BY <1>1, <3>1, KernelCalls
    <3>3. block[at].type = job.prog[Len(trace) + 1].kind
      BY <2>1 DEF GateItem
    <3> QED BY <1>1, <3>2, <3>3
  <2> QED BY <1>1, <2>1, NextItem
<1>5. ins = insertions[r + 1] /\ r + 1 \in 1 .. Len(insertions)
  BY <1>2, <1>3, <1>4 DEF RouteItem
<1>6. ins \in InsertionType
  BY <1>2, <1>5, ElementOfSeq DEF RInv, Inv, TypeOK
<1>7. ins.v0 \in Wires(circ) /\ ins.v1 \in Wires(circ) /\ ins.layout = LayoutBeforeInsertion(r + 1)
  BY <1>5, <1>6 DEF InsertionType, LayoutBeforeInsertion
<1>8. Adjacent(device, ins.layout[ins.v0], ins.layout[ins.v1])
  BY <1>2, <1>5 DEF RInv, ActsOnCouplings
<1>9. LayoutBeforeInsertion(r + 2) = Swapped(ins.layout, ins.v0, ins.v1)
  <2>1. After(r + 1) = LayoutBeforeInsertion((r + 1) + 1)
    BY <1>2, <1>5 DEF RInv, ReplayMatchesSimulation
  <2>2. (r + 1) + 1 = r + 2
    BY <1>2
  <2> QED BY <1>5, <2>1, <2>2 DEF After
<1>10. Passed' = r + 1
  <2>1. Passed' = at' - 1 - Len(trace') /\ r = at - 1 - Len(trace)
    BY DEF Passed
  <2>2. at' = at + 1 /\ Len(trace') = Len(trace)
    BY <1>1
  <2> HIDE DEF r
  <2> QED BY <1>2, <1>3, <2>1, <2>2
<1> HIDE DEF ins
<1> QED BY <1>1, <1>4, <1>7, <1>8, <1>9, <1>10

(* Two entries of what the qubits hold trade places.                       *)
LEMMA TradedStates ==
  ASSUME NEW P, NEW W, NEW h \in [P -> W], NEW p \in P, NEW q \in P
  PROVE  LET t == [h EXCEPT ![p] = h[q], ![q] = h[p]]
         IN  /\ t \in [P -> W]
             /\ \A x \in P : t[x] = IF x = q THEN h[p] ELSE IF x = p THEN h[q] ELSE h[x]
  OBVIOUS

(* An inserted swap: the states follow the simulation to its next layout.  *)
LEMMA WalkRoutingSwapPInv == PInv /\ WalkRoutingSwap => PInv'
<1> SUFFICES ASSUME PInv, WalkRoutingSwap PROVE PInv'
  OBVIOUS
<1> DEFINE r == Passed
           N == Len(insertions)
           l == LayoutBeforeInsertion(r + 1)
<1>1. /\ phase = "walk" /\ phase' = "walk"
      /\ r < N /\ insertions[r + 1].before = Len(trace) + 1
      /\ Passed' = r + 1 /\ at' = at + 1
      /\ current' = LayoutBeforeInsertion(r + 2)
      /\ UNCHANGED <<job, vars, layoutVars, start, block, emitted, trace>>
  BY WalkRoutingSwapStep DEF WalkRoutingSwap
<1>2. PICK v \in Wires(circ), w \in Wires(circ) :
        /\ LayoutBeforeInsertion(r + 2) = Swapped(l, v, w)
        /\ held' = [held EXCEPT ![l[v]] = held[l[w]], ![l[w]] = held[l[v]]]
  BY WalkRoutingSwapStep
<1>3. /\ SearchInv' /\ CallInv' /\ QuietInv' /\ EmitInv'
      /\ UNCHANGED <<device, circ, insertions, layout>>
      /\ \A k : LayoutBeforeInsertion(k)' = LayoutBeforeInsertion(k)
      /\ Placements(circ)' = Placements(circ) /\ Wires(circ)' = Wires(circ)
      /\ Phys(device)' = Phys(device) /\ GateIds(circ)' = GateIds(circ)
  BY <1>1, WalkKeeps
<1>4. RInv /\ WalkInv /\ r \in 0 .. N /\ N \in Nat
      /\ \A k, m \in 1 .. N : k <= m => insertions[k].before <= insertions[m].before
  <2>1. RInv /\ WalkInv /\ r \in 0 .. N
    BY <1>1 DEF PInv, CallInv, Begun, Routed, WalkInv
  <2> QED BY <2>1, AnchorsInOrder
<1>5. l \in Placements(circ) /\ LayoutBeforeInsertion(r + 2) \in Placements(circ)
  <2>1. r + 1 \in 1 .. (N + 1) /\ r + 2 \in 1 .. (N + 1)
    BY <1>1, <1>4
  <2> QED BY <1>4, <2>1, RecordedLayouts
<1> DEFINE p == l[v]
           q == l[w]
<1> HIDE DEF l
<1>6. /\ l \in [Wires(circ) -> Phys(device)] /\ p \in Phys(device) /\ q \in Phys(device)
      /\ \A x, y \in Wires(circ) : l[x] = l[y] => x = y
  BY <1>5 DEF Placements, InjectiveOn
<1>7. /\ held \in [Phys(device) -> Wires(circ) \cup {NoWire}]
      /\ \A x, y \in Phys(device) : held[x] = held[y] /\ held[x] # NoWire => x = y
      /\ \A x \in Wires(circ) : held[l[x]] = x
  BY <1>1, <1>4 DEF WalkInv, l
<1>8. /\ held' \in [Phys(device) -> Wires(circ) \cup {NoWire}]
      /\ \A x \in Phys(device) :
           held'[x] = IF x = q THEN held[p] ELSE IF x = p THEN held[q] ELSE held[x]
  BY <1>2, <1>6, <1>7, TradedStates
<1> HIDE DEF p, q
<1>9. \A x, y \in Phys(device) : held'[x] = held'[y] /\ held'[x] # NoWire => x = y
  BY <1>6, <1>7, <1>8
<1>10. \A x \in Wires(circ) : held'[Swapped(l, v, w)[x]] = x
  <2> TAKE x \in Wires(circ)
  <2>1. Swapped(l, v, w)[x] = IF x = w THEN p ELSE IF x = v THEN q ELSE l[x]
    BY <1>6 DEF Swapped, p, q
  <2>2. held[p] = v /\ held[q] = w
    BY <1>7 DEF p, q
  <2>3. l[x] = p => x = v
    BY <1>6 DEF p
  <2>4. l[x] = q => x = w
    BY <1>6 DEF q
  <2>5. l[x] \in Phys(device) /\ held[l[x]] = x
    BY <1>6, <1>7
  <2> QED BY <1>6, <1>8, <2>1, <2>2, <2>3, <2>4, <2>5
<1>11. WalkInv'
  <2>1. /\ emitted' = N /\ at' \in Nat /\ Len(trace) \in Nat
        /\ Len(trace) \in 0 .. Len(circ.gates)
        /\ trace \in Seq([call : GateIds(circ), wires : Seq(Wires(circ) \cup {NoWire})])
    BY <1>1, <1>4 DEF WalkInv
  <2>2. r + 1 \in 0 .. N /\ insertions[r + 1].before <= Len(trace) + 1
    BY <1>1, <1>4, <2>1
  <2>3. r + 1 < N => insertions[(r + 1) + 1].before > Len(trace)
    <3> SUFFICES ASSUME r + 1 < N PROVE insertions[(r + 1) + 1].before > Len(trace)
      OBVIOUS
    <3>1. r + 1 \in 1 .. N /\ (r + 1) + 1 \in 1 .. N /\ r + 1 <= (r + 1) + 1
      BY <1>4
    <3>2. insertions[r + 1].before <= insertions[(r + 1) + 1].before
      BY <1>4, <3>1
    <3>3. insertions[(r + 1) + 1].before \in 1 .. Len(circ.gates) /\ Len(circ.gates) \in Nat
      BY <1>4, <3>1, AnchorsInOrder
    <3> QED BY <1>1, <2>1, <3>2, <3>3
  <2>4. (r + 1) + 1 = r + 2
    BY <1>4
  <2>5. \A x \in Wires(circ) : held'[LayoutBeforeInsertion((r + 1) + 1)[x]] = x
    BY <1>2, <1>10, <2>4 DEF l
  <2> HIDE DEF r, N
  <2>6. /\ trace' \in Seq([call : GateIds(circ), wires : Seq(Wires(circ) \cup {NoWire})])'
        /\ Len(trace') \in 0 .. Len(circ.gates)' /\ Passed' \in 0 .. Len(insertions')
        /\ emitted' = Len(insertions') /\ at' \in Nat
    BY <1>1, <1>3, <2>1, <2>2 DEF r, N
  <2>7. /\ insertions'[Passed'].before <= Len(trace') + 1
        /\ Passed' < Len(insertions') => insertions'[Passed' + 1].before > Len(trace')
    BY <1>1, <1>3, <2>2, <2>3 DEF r, N
  <2>8. current' \in Placements(circ)'
    BY <1>1, <1>3, <1>5 DEF r
  <2>9. /\ held' \in [Phys(device)' -> Wires(circ)' \cup {NoWire}]
        /\ \A x, y \in Phys(device)' : held'[x] = held'[y] /\ held'[x] # NoWire => x = y
    BY <1>3, <1>8, <1>9
  <2>10. \A x \in Wires(circ)' : held'[LayoutBeforeInsertion(Passed + 1)'[x]] = x
    <3>1. LayoutBeforeInsertion(Passed + 1)' = LayoutBeforeInsertion((r + 1) + 1)
      BY <1>1, <1>3 DEF LayoutBeforeInsertion, r
    <3> QED BY <1>3, <2>5, <3>1
  <2> QED BY <1>1, <2>6, <2>7, <2>8, <2>9, <2>10 DEF WalkInv
<1> QED BY <1>3, <1>11 DEF PInv

(* A call of the kernel, when the walk comes to it: the next one in order, *)
(* with the swaps anchored to it already behind the walk.                  *)
LEMMA NextCall ==
  ASSUME PInv, phase = "walk", at <= Len(block), block[at].type # "route"
  PROVE  /\ Len(trace) \in Nat /\ Len(trace) + 1 \in 1 .. Len(circ.gates)
         /\ Passed \in 0 .. Len(insertions)
         /\ Passed < Len(insertions) => insertions[Passed + 1].before > Len(trace) + 1
         /\ IsLastUpTo(Passed, Len(trace) + 1)
         /\ block[at].id = Len(trace) + 1
         /\ block[at].type = job.prog[Len(trace) + 1].kind
         /\ layoutBefore[Len(trace) + 1] = LayoutBeforeInsertion(Passed + 1)
         /\ IsTwoQ(circ, Len(trace) + 1) =>
              LET l == LayoutBeforeInsertion(Passed + 1)
              IN  Adjacent(device, l[circ.gates[Len(trace) + 1][1]],
                                   l[circ.gates[Len(trace) + 1][2]])
<1> DEFINE n == Len(circ.gates)
           r == Passed
           g == Len(trace) + 1
<1>1. RInv /\ executed = GateIds(circ)
  BY DEF PInv, CallInv, Begun, Routed, EmitInv
<1>2. Len(trace) \in 0 .. n /\ r \in 0 .. Len(insertions)
  BY DEF PInv, WalkInv
<1>3. n \in Nat /\ Len(trace) \in Nat
  <2>1. n \in Nat
    BY <1>1, AnchorsInOrder
  <2> QED BY <1>2, <2>1
<1>4. /\ Len(trace) < n
      /\ r < Len(insertions) => insertions[r + 1].before > g
      /\ block[at] = GateItem(g)
      /\ IsLastUpTo(r, g)
  <2>1. block[at] # RouteItem(r + 1)
    BY DEF RouteItem
  <2> QED BY <2>1, NextItem
<1> HIDE DEF r
<1>5. g \in 1 .. n /\ g \in GateIds(circ)
  BY <1>2, <1>3, <1>4 DEF GateIds
<1>6. layoutBefore[g] = LayoutBeforeInsertion(r + 1)
  BY <1>1, <1>2, <1>4, <1>5 DEF RInv, ReplayMatchesSimulation
<1>7. IsTwoQ(circ, g) => Adjacent(device, layoutBefore[g][circ.gates[g][1]],
                                          layoutBefore[g][circ.gates[g][2]])
  BY <1>1, <1>5 DEF RInv, ActsOnCouplings
<1>8. block[at].id = g /\ block[at].type = job.prog[g].kind
  BY <1>4 DEF GateItem
<1> QED BY <1>2, <1>3, <1>4, <1>5, <1>6, <1>7, <1>8 DEF r

(* A call of the kernel is rewritten with a layout: the walk goes on to    *)
(* the next one, and what is performed acts on the states it finds there.  *)
LEMMA RewriteStep ==
  ASSUME PInv, phase = "walk", at <= Len(block), block[at].type # "route",
         NEW l \in Placements(circ), Rewrite(block[at].id, l)
  PROVE  /\ phase' = "walk"
         /\ UNCHANGED <<job, vars, layoutVars, start, block, emitted, held>>
         /\ Passed' = Passed /\ Len(trace') = Len(trace) + 1 /\ at' = at + 1
         /\ out' = Append(out, Placed(Len(trace) + 1, l))
         /\ trace' = Append(trace,
              [call  |-> Len(trace) + 1,
               wires |-> [k \in DOMAIN circ.gates[Len(trace) + 1] |->
                            held[l[circ.gates[Len(trace) + 1][k]]]]])
         /\ trace' \in Seq([call : GateIds(circ), wires : Seq(Wires(circ) \cup {NoWire})])
<1> DEFINE g == Len(trace) + 1
           gate == circ.gates[g]
           W == Wires(circ) \cup {NoWire}
           R == [call : GateIds(circ), wires : Seq(W)]
           e == [call |-> g, wires |-> [k \in DOMAIN gate |-> held[l[gate[k]]]]]
<1>1. Len(trace) \in Nat /\ g \in 1 .. Len(circ.gates) /\ block[at].id = g
  BY NextCall
<1>2. /\ out' = Append(out, Placed(g, l))
      /\ trace' = Append(trace, [call  |-> g,
                                 wires |-> [k \in DOMAIN gate |-> held[Placed(g, l)[k]]]])
      /\ at' = at + 1 /\ phase' = "walk"
      /\ UNCHANGED <<job, vars, layoutVars, start, block, emitted, held>>
  BY <1>1 DEF Rewrite
<1>3. trace' = Append(trace, e)
  <2>1. \A k \in DOMAIN gate : Placed(g, l)[k] = l[gate[k]]
    BY DEF Placed
  <2>2. [k \in DOMAIN gate |-> held[Placed(g, l)[k]]] = [k \in DOMAIN gate |-> held[l[gate[k]]]]
    BY <2>1, Zenon
  <2> QED BY <1>2, <2>2
<1>4. trace \in Seq(R) /\ held \in [Phys(device) -> W] /\ at \in Nat
  BY DEF PInv, WalkInv
<1>5. l \in [Wires(circ) -> Phys(device)]
  BY DEF Placements
<1>6. gate \in Seq(Wires(circ)) /\ Len(gate) \in Nat /\ DOMAIN gate = 1 .. Len(gate)
      /\ \A k \in DOMAIN gate : gate[k] \in Wires(circ)
  <2>1. circ.gates \in Seq(Seq(Wires(circ)))
    BY DEF PInv, CallInv, Begun, Routed, RInv, Inv, TypeOK, IsCircuit
  <2>2. gate \in Seq(Wires(circ))
    BY <1>1, <2>1, ElementOfSeq
  <2> HIDE DEF gate
  <2> QED BY <2>2, LenProperties, ElementOfSeq
<1>7. e \in R
  <2> HIDE DEF gate
  <2>1. \A k \in 1 .. Len(gate) : held[l[gate[k]]] \in W
    <3> HIDE DEF W
    <3> QED BY <1>4, <1>5, <1>6
  <2> HIDE DEF W
  <2>2. [k \in 1 .. Len(gate) |-> held[l[gate[k]]]] \in Seq(W)
    BY <1>6, <2>1
  <2> QED BY <1>1, <1>6, <2>2 DEF GateIds
<1> HIDE DEF e, R
<1>8. trace' \in Seq(R) /\ Len(trace') = g
  BY <1>3, <1>4, <1>7, AppendProperties
<1>9. Passed' = Passed
  <2>1. Passed' = at' - 1 - Len(trace') /\ Passed = at - 1 - Len(trace)
    BY DEF Passed
  <2>2. at' = at + 1
    BY <1>2
  <2> QED BY <1>1, <1>4, <1>8, <2>1, <2>2
<1> QED BY <1>2, <1>3, <1>8, <1>9 DEF R, e

(* A call of the kernel keeps the invariant: no state is moved.            *)
LEMMA RewritePInv ==
  ASSUME PInv, phase = "walk", at <= Len(block), block[at].type # "route",
         NEW l \in Placements(circ), Rewrite(block[at].id, l),
         current' \in Placements(circ)
  PROVE  PInv'
<1> DEFINE r == Passed
           N == Len(insertions)
           n == Len(circ.gates)
           B(k) == insertions[k].before
           R == [call : GateIds(circ), wires : Seq(Wires(circ) \cup {NoWire})]
<1>1. /\ phase' = "walk"
      /\ UNCHANGED <<job, vars, layoutVars, start, block, emitted, held>>
      /\ Passed' = r /\ Len(trace') = Len(trace) + 1 /\ at' = at + 1
      /\ trace' \in Seq(R)
  BY RewriteStep
<1>2. /\ SearchInv' /\ CallInv' /\ QuietInv' /\ EmitInv'
      /\ UNCHANGED <<device, circ, insertions, layout>>
      /\ \A k : LayoutBeforeInsertion(k)' = LayoutBeforeInsertion(k)
      /\ Placements(circ)' = Placements(circ) /\ Wires(circ)' = Wires(circ)
      /\ Phys(device)' = Phys(device) /\ GateIds(circ)' = GateIds(circ)
  BY <1>1, WalkKeeps
<1>3. /\ Len(trace) \in Nat /\ Len(trace) + 1 \in 1 .. n /\ r \in 0 .. N
      /\ r < N => B(r + 1) > Len(trace) + 1
      /\ r > 0 => B(r) <= Len(trace) + 1
  BY NextCall DEF IsLastUpTo
<1>4. RInv /\ WalkInv
  BY DEF PInv, CallInv, Begun, Routed
<1>5. N \in Nat /\ n \in Nat /\ \A k \in 1 .. N : B(k) \in 1 .. n
  BY <1>4, AnchorsInOrder
<1>6. /\ emitted = N /\ at \in Nat
      /\ held \in [Phys(device) -> Wires(circ) \cup {NoWire}]
      /\ \A p, q \in Phys(device) : held[p] = held[q] /\ held[p] # NoWire => p = q
      /\ \A v \in Wires(circ) : held[LayoutBeforeInsertion(r + 1)[v]] = v
  BY <1>4 DEF WalkInv
<1>7. at' \in Nat /\ Len(trace') \in 0 .. n /\ emitted' = N
  BY <1>1, <1>3, <1>5, <1>6
<1>8. /\ r > 0 => B(r) <= Len(trace') + 1
      /\ r < N => B(r + 1) > Len(trace')
  <2>1. r > 0 => r \in 1 .. N /\ B(r) \in 1 .. n
    BY <1>3, <1>5
  <2> HIDE DEF B
  <2> QED BY <1>1, <1>3, <1>5, <2>1
<1>9. \A v \in Wires(circ) : held'[LayoutBeforeInsertion(Passed + 1)'[v]] = v
  <2>1. LayoutBeforeInsertion(Passed + 1)' = LayoutBeforeInsertion(r + 1)
    BY <1>1, <1>2 DEF LayoutBeforeInsertion
  <2> QED BY <1>1, <1>6, <2>1
<1> HIDE DEF r, N, n, B, R, PInv
<1>10. /\ trace' \in Seq([call : GateIds(circ), wires : Seq(Wires(circ) \cup {NoWire})])'
       /\ Len(trace') \in 0 .. Len(circ.gates)' /\ Passed' \in 0 .. Len(insertions')
       /\ emitted' = Len(insertions') /\ at' \in Nat
  <2>1. trace' \in Seq([call : GateIds(circ), wires : Seq(Wires(circ) \cup {NoWire})])'
    BY <1>1, <1>2 DEF R
  <2>2. Len(circ.gates)' = n /\ Len(insertions') = N /\ Passed' = r
    BY <1>1, <1>2 DEF n, N
  <2> QED BY <1>3, <1>7, <2>1, <2>2
<1>11. /\ Passed' > 0 => insertions'[Passed'].before <= Len(trace') + 1
       /\ Passed' < Len(insertions') => insertions'[Passed' + 1].before > Len(trace')
  BY <1>1, <1>2, <1>8 DEF N, B
<1>12. current' \in Placements(circ)'
  BY <1>2
<1>13. /\ held' \in [Phys(device)' -> Wires(circ)' \cup {NoWire}]
       /\ \A x, y \in Phys(device)' : held'[x] = held'[y] /\ held'[x] # NoWire => x = y
  <2>1. held' = held
    BY <1>1
  <2> QED BY <1>2, <1>6, <2>1
<1>14. \A v \in Wires(circ)' : held'[LayoutBeforeInsertion(Passed + 1)'[v]] = v
  BY <1>2, <1>9
<1>15. WalkInv'
  BY <1>1, <1>10, <1>11, <1>12, <1>13, <1>14 DEF WalkInv
<1> QED BY <1>2, <1>15 DEF PInv

(* A gate restores the layout the simulation had when it executed it.      *)
LEMMA WalkGateLayout ==
  ASSUME PInv, WalkGate
  PROVE  /\ phase = "walk" /\ at <= Len(block) /\ block[at].type = "gate"
         /\ current' = LayoutBeforeInsertion(Passed + 1)
         /\ current' \in Placements(circ)
         /\ Rewrite(block[at].id, current')
<1>1. /\ phase = "walk" /\ at <= Len(block) /\ block[at].type = "gate"
      /\ current' = layoutBefore[block[at].id] /\ Rewrite(block[at].id, current')
  BY DEF WalkGate
<1>2. block[at].id = Len(trace) + 1 /\ Passed \in 0 .. Len(insertions)
      /\ layoutBefore[Len(trace) + 1] = LayoutBeforeInsertion(Passed + 1)
  BY <1>1, NextCall
<1>3. RInv
  BY <1>1 DEF PInv, CallInv, Begun, Routed
<1>4. Passed + 1 \in 1 .. (Len(insertions) + 1)
  <2>1. Len(insertions) \in Nat
    BY <1>3, AnchorsInOrder
  <2> HIDE DEF Passed
  <2> QED BY <1>2, <2>1
<1>5. LayoutBeforeInsertion(Passed + 1) \in Placements(circ)
  BY <1>3, <1>4, RecordedLayouts
<1> QED BY <1>1, <1>2, <1>5

(* A gate of the kernel keeps the invariant.                               *)
LEMMA WalkGatePInv == PInv /\ WalkGate => PInv'
<1> SUFFICES ASSUME PInv, WalkGate PROVE PInv'
  OBVIOUS
<1>1. /\ phase = "walk" /\ at <= Len(block) /\ block[at].type = "gate"
      /\ current' \in Placements(circ) /\ Rewrite(block[at].id, current')
  BY WalkGateLayout
<1> QED BY <1>1, RewritePInv

(* A swap of the kernel has two wires, and the walk swaps their places.    *)
LEMMA WalkProgramSwapLayout ==
  ASSUME PInv, WalkProgramSwap
  PROVE  /\ phase = "walk" /\ at <= Len(block) /\ block[at].type = "swap"
         /\ Rewrite(block[at].id, current)
         /\ current \in Placements(circ) /\ current' \in Placements(circ)
         /\ \E v, w \in Wires(circ) :
              /\ circ.gates[Len(trace) + 1] = <<v, w>>
              /\ current' = Swapped(current, v, w)
<1> DEFINE g == Len(trace) + 1
<1>1. /\ phase = "walk" /\ at <= Len(block) /\ block[at].type = "swap"
      /\ Rewrite(block[at].id, current)
      /\ current' = Swapped(current, circ.gates[block[at].id][1], circ.gates[block[at].id][2])
  BY DEF WalkProgramSwap
<1>2. block[at].id = g /\ g \in 1 .. Len(circ.gates) /\ job.prog[g].kind = "swap"
  BY <1>1, NextCall
<1>3. circ.gates = FlatGates(job) /\ DOMAIN job.prog = 1 .. Len(circ.gates)
  BY <1>1, KernelCalls
<1>4. Len(job.prog[g].args) = 2 /\ job.prog[g].args \in Seq((DOMAIN job.regs) \X Nat)
  BY <1>2, <1>3, JobsAssumption DEF PInv, SearchInv, IsKernel
<1>5. DOMAIN circ.gates[g] = 1 .. 2
  BY <1>2, <1>3, <1>4, LenProperties DEF FlatGates
<1>6. IsCircuit(circ) /\ g \in GateIds(circ)
  BY <1>1, <1>2 DEF PInv, CallInv, Begun, Routed, RInv, Inv, TypeOK, GateIds
<1> HIDE DEF g
<1>7. PICK v \in Wires(circ), w \in Wires(circ) : circ.gates[g] = <<v, w>>
  <2>1. \/ \E q \in Wires(circ) : circ.gates[g] = <<q>>
        \/ \E q, x \in Wires(circ) : q # x /\ circ.gates[g] = <<q, x>>
    BY <1>6 DEF IsCircuit
  <2>2. \A q : circ.gates[g] # <<q>>
    <3> TAKE q
    <3>1. DOMAIN <<q>> = 1 .. 1
      OBVIOUS
    <3>2. 1 .. 1 # 1 .. 2
      OBVIOUS
    <3> QED BY <1>5, <3>1, <3>2
  <2> QED BY <2>1, <2>2
<1>8. current \in Placements(circ)
  BY <1>1 DEF PInv, WalkInv
<1>9. current' = Swapped(current, v, w)
  BY <1>1, <1>2, <1>7
<1>10. current' \in Placements(circ)
  BY <1>8, <1>9, SwappedIsPlacement DEF Placements
<1> QED BY <1>1, <1>7, <1>8, <1>9, <1>10 DEF g

(* So does a swap of the kernel, whatever the walk makes of its layout.    *)
LEMMA WalkProgramSwapPInv == PInv /\ WalkProgramSwap => PInv'
<1> SUFFICES ASSUME PInv, WalkProgramSwap PROVE PInv'
  OBVIOUS
<1>1. /\ phase = "walk" /\ at <= Len(block) /\ block[at].type = "swap"
      /\ Rewrite(block[at].id, current)
      /\ current \in Placements(circ) /\ current' \in Placements(circ)
  BY WalkProgramSwapLayout
<1> QED BY <1>1, RewritePInv

(* The end of the walk: every item of the block is behind it.              *)
LEMMA EndWalkPInv == PInv /\ EndWalk => PInv'
<1> SUFFICES ASSUME PInv, EndWalk PROVE PInv'
  OBVIOUS
<1>1. /\ phase = "walk" /\ at > Len(block) /\ phase' = "mapped"
      /\ UNCHANGED <<job, vars, layoutVars, start, block, emitted, walkVars>>
  BY DEF EndWalk
<1>2. UNCHANGED <<at, current, out, held, trace>>
  BY <1>1 DEF walkVars
<1>3. /\ SearchInv' /\ CallInv' /\ QuietInv' /\ EmitInv'
      /\ UNCHANGED <<device, circ, insertions, layout>>
      /\ \A k : LayoutBeforeInsertion(k)' = LayoutBeforeInsertion(k)
      /\ Placements(circ)' = Placements(circ) /\ Wires(circ)' = Wires(circ)
      /\ Phys(device)' = Phys(device) /\ GateIds(circ)' = GateIds(circ)
  BY <1>1, WalkKeeps
<1>4. WalkInv
  BY DEF PInv
<1>5. Passed' = Passed
  BY <1>2 DEF Passed
<1>6. LayoutBeforeInsertion(Passed + 1)' = LayoutBeforeInsertion(Passed + 1)
  BY <1>3, <1>5 DEF LayoutBeforeInsertion
<1> HIDE DEF PInv, Passed
<1>7. WalkInv'
  BY <1>1, <1>2, <1>3, <1>4, <1>5, <1>6 DEF WalkInv
<1> QED BY <1>3, <1>7 DEF PInv

(* Every step of the pass keeps the invariant.                             *)
LEMMA NextPInv == PInv /\ [PassNext]_passVars => PInv'
<1> SUFFICES ASSUME PInv, [PassNext]_passVars PROVE PInv'
  OBVIOUS
<1>1. CASE LeaveUnmapped \/ StartTrial \/ SwapStep \/ NextTurn \/ ScoreTrial
  BY <1>1, LeaveUnmappedPInv, StartTrialPInv, SwapStepPInv, NextTurnPInv, ScoreTrialPInv, Zenon
<1>2. CASE StartRouting \/ StartEmpty \/ Fatal \/ BeginEmission \/ EmitGroup
  BY <1>2, StartRoutingPInv, StartEmptyPInv, FatalPInv, BeginEmissionPInv, EmitGroupPInv, Zenon
<1>3. CASE BeginWalk \/ WalkRoutingSwap \/ WalkGate \/ WalkProgramSwap \/ EndWalk
  BY <1>3, BeginWalkPInv, WalkRoutingSwapPInv, WalkGatePInv, WalkProgramSwapPInv, EndWalkPInv, Zenon
<1>4. CASE UNCHANGED passVars
  <2>1. UNCHANGED <<job, vars, phase, layoutVars, start, block, emitted, walkVars>>
    BY <1>4 DEF passVars
  <2>2. UNCHANGED <<device, circ, layout, executed, insertions, layoutBefore,
                    trial, turn, best, at, current, out, held, trace>>
    BY <2>1 DEF vars, layoutVars, walkVars
  <2>3. Forward' = Forward /\ Placements(Forward)' = Placements(Forward)
        /\ IsMappable(job)' = IsMappable(job)
    BY <2>1, <2>2, KernelIsKept
  <2>4. SearchInv'
    BY <2>1, <2>2, <2>3 DEF PInv, SearchInv
  <2>5. CallInv'
    <3>1. Begun => RInv'
      BY <2>1, NextRInv DEF PInv, CallInv, Routed
    <3>2. Placements(circ)' = Placements(circ) /\ LayoutBeforeInsertion(1)' = LayoutBeforeInsertion(1)
      BY <2>2 DEF Placements, LayoutBeforeInsertion
    <3>3. Begun => Routed'
      BY <2>1, <2>2, <2>3, <3>1, <3>2 DEF PInv, CallInv, Routed
    <3> QED BY <2>1, <2>2, <2>3, <3>3 DEF PInv, CallInv, Begun
  <2>6. QuietInv' /\ EmitInv'
    BY <2>1, <2>2 DEF PInv, QuietInv, EmitInv, BlockInv, Items, AreUpTo, GateItem, RouteItem, GateIds
  <2>7. Passed' = Passed /\ Placements(circ)' = Placements(circ) /\ Wires(circ)' = Wires(circ)
        /\ Phys(device)' = Phys(device) /\ GateIds(circ)' = GateIds(circ)
    BY <2>2 DEF Passed, Placements, GateIds
  <2>8. LayoutBeforeInsertion(Passed + 1)' = LayoutBeforeInsertion(Passed + 1)
    BY <2>2, <2>7 DEF LayoutBeforeInsertion
  <2>9. WalkInv'
    <3>1. WalkInv
      BY DEF PInv
    <3> HIDE DEF PInv, Passed
    <3> QED BY <2>1, <2>2, <2>7, <2>8, <3>1 DEF WalkInv
  <2> QED BY <2>4, <2>5, <2>6, <2>9 DEF PInv
<1> QED BY <1>1, <1>2, <1>3, <1>4 DEF PassNext

(* The invariant holds throughout SabrePass::run, on every job.            *)
THEOREM PassInvariance == PassSpec => []PInv
<1>1. PassInit => PInv
  BY InitPInv
<1>2. PInv /\ [PassNext]_passVars => PInv'
  BY NextPInv
<1> QED BY <1>1, <1>2, PTL DEF PassSpec

(* The pass keeps its types on every device and kernel: layouts keep the   *)
(* wires on distinct qubits, the block holds nothing twice, and no wire is *)
(* in two places.                                                          *)
THEOREM PassTypeCorrect == PassSpec => []PassTypeOK
<1>1. PInv => PassTypeOK
  <2> SUFFICES ASSUME PInv PROVE PassTypeOK
    OBVIOUS
  <2>1. /\ job \in Jobs
        /\ phase \in {"start", "unmapped", "trial", "route", "fatal", "emit", "walk", "mapped"}
        /\ trial \in 0 .. LayoutTrials /\ turn \in 0 .. (2 * MaxIterations + 1)
        /\ best # <<>> => best[1] \in Placements(Forward) /\ best[2] \in Nat
    BY DEF PInv, SearchInv
  <2>2. Begun => start \in Placements(circ) /\ RInv /\ TypeOK
    BY DEF PInv, CallInv, Routed, RInv, Inv
  <2>3. Len(insertions) \in Nat
    <3>1. CASE Begun
      BY <2>2, <3>1, AnchorsInOrder
    <3>2. CASE ~Begun
      <4>1. insertions = <<>>
        BY <3>2 DEF PInv, CallInv
      <4> QED BY <4>1
    <3> QED BY <3>1, <3>2
  <2>4. /\ \A p, q \in DOMAIN block : block[p] = block[q] => p = q
        /\ emitted \in 0 .. Len(insertions)
    <3>1. CASE phase \in {"emit", "walk", "mapped"}
      BY <3>1 DEF PInv, EmitInv, BlockInv
    <3>2. CASE phase \notin {"emit", "walk", "mapped"}
      <4>1. block = <<>> /\ emitted = 0
        BY <3>2 DEF PInv, QuietInv
      <4> QED BY <2>3, <4>1
    <3> QED BY <3>1, <3>2
  <2>5. Len(block) \in Nat
    <3>1. CASE phase \in {"emit", "walk", "mapped"}
      BY <3>1, LenProperties DEF PInv, EmitInv, BlockInv
    <3>2. CASE phase \notin {"emit", "walk", "mapped"}
      <4>1. block = <<>>
        BY <3>2 DEF PInv, QuietInv
      <4> QED BY <4>1
    <3> QED BY <3>1, <3>2
  <2>6. at \in 1 .. (Len(block) + 1)
    <3>1. CASE phase \in {"walk", "mapped"}
      <4>1. at \in Nat /\ Len(trace) \in 0 .. Len(circ.gates) /\ Passed \in 0 .. Len(insertions)
            /\ emitted = Len(insertions)
        BY <3>1 DEF PInv, WalkInv
      <4>2. Passed = at - 1 - Len(trace)
        BY DEF Passed
      <4>3. Len(block) = Len(circ.gates) + emitted
        BY <3>1 DEF PInv, EmitInv, BlockInv
      <4>4. Len(circ.gates) \in Nat
        BY <2>2, <3>1, AnchorsInOrder DEF Begun
      <4> HIDE DEF Passed
      <4> QED BY <2>3, <4>1, <4>2, <4>3, <4>4
    <3>2. CASE phase \notin {"walk", "mapped"}
      BY <2>5, <3>2 DEF PInv, QuietInv
    <3> QED BY <3>1, <3>2
  <2>7. /\ held \in [Phys(device) -> Wires(circ) \cup {NoWire}]
        /\ \A p, q \in Phys(device) : held[p] = held[q] /\ held[p] # NoWire => p = q
    <3>1. CASE phase \in {"walk", "mapped"}
      BY <3>1 DEF PInv, WalkInv
    <3>2. CASE phase \notin {"walk", "mapped"}
      BY <3>2 DEF PInv, QuietInv
    <3> QED BY <3>1, <3>2
  <2> QED BY <2>1, <2>2, <2>4, <2>6, <2>7 DEF PassTypeOK, Begun
<1> QED BY <1>1, PassInvariance, PTL

(* Whichever way the layout search routes the kernel, and in the final     *)
(* routing, a gate is only executed behind every gate in front of it.      *)
THEOREM CallsRunInOrder == PassSpec => []EveryCallRunsInOrder
<1>1. PInv => EveryCallRunsInOrder
  BY DEF PInv, CallInv, Begun, Routed, RInv, Inv, EveryCallRunsInOrder
<1> QED BY <1>1, PassInvariance, PTL

----------------------------------------------------------------------------

(***************************************************************************)
(* Refusal.  A kernel is refused when the last call has returned without   *)
(* having run every gate.                                                  *)
(***************************************************************************)
RefusalInv ==
  /\ Begun => LeftForReason
  /\ phase = "fatal" => pc = "done" /\ executed # GateIds(circ)

(* A call has not been left when it starts, and is left for a reason; the  *)
(* later stages look at what it left.                                      *)
LEMMA NextRefusal == RefusalInv /\ [PassNext]_passVars => RefusalInv'
<1> SUFFICES ASSUME RefusalInv, [PassNext]_passVars PROVE RefusalInv'
  OBVIOUS
<1>1. ASSUME UNCHANGED vars
      PROVE  /\ LeftForReason => LeftForReason'
             /\ (pc = "done" /\ executed # GateIds(circ))' = (pc = "done" /\ executed # GateIds(circ))
  <2>1. LeftForReason => LeftForReason'
    BY <1>1, NextLeaves
  <2> QED BY <1>1, <2>1 DEF vars, GateIds
<1>2. CASE LeaveUnmapped
  BY <1>2 DEF LeaveUnmapped, RefusalInv, Begun
<1>3. CASE StartTrial \/ NextTurn \/ StartRouting \/ StartEmpty
  <2>1. pc' = "routing" /\ phase' # "fatal"
    BY <1>3 DEF StartTrial, NextTurn, StartRouting, StartEmpty, Call
  <2> QED BY <2>1 DEF RefusalInv, LeftForReason
<1>4. CASE SwapStep
  <2>1. phase \in {"trial", "route"} /\ phase' = phase /\ Next
    BY <1>4 DEF SwapStep
  <2>2. LeftForReason'
    BY <2>1, NextLeaves DEF RefusalInv, Begun
  <2> QED BY <2>1, <2>2 DEF RefusalInv
<1>5. CASE Fatal
  <2>1. /\ phase = "route" /\ pc = "done" /\ executed # GateIds(circ) /\ UNCHANGED vars
    BY <1>5 DEF Fatal, Returned
  <2> QED BY <1>1, <2>1 DEF RefusalInv, Begun
<1>6. CASE ScoreTrial \/ BeginEmission \/ EmitGroup \/ BeginWalk \/ EndWalk
  <2>1. Begun /\ phase' # "fatal" /\ UNCHANGED vars
    BY <1>6 DEF ScoreTrial, BeginEmission, EmitGroup, BeginWalk, EndWalk, Begun
  <2> QED BY <1>1, <2>1 DEF RefusalInv
<1>7. CASE WalkRoutingSwap \/ WalkGate \/ WalkProgramSwap
  <2>1. Begun /\ phase' # "fatal" /\ UNCHANGED vars
    BY <1>7 DEF WalkRoutingSwap, WalkGate, WalkProgramSwap, Rewrite, Begun
  <2> QED BY <1>1, <2>1 DEF RefusalInv
<1>8. CASE UNCHANGED passVars
  <2>1. UNCHANGED vars /\ phase' = phase
    BY <1>8 DEF passVars
  <2> QED BY <1>1, <2>1 DEF RefusalInv, Begun
<1> QED BY <1>2, <1>3, <1>4, <1>5, <1>6, <1>7, <1>8 DEF PassNext

(* Nothing is refused but for a reason.                                    *)
LEMMA RefusalInvariance == PassSpec => []RefusalInv
<1>1. PassInit => RefusalInv
  BY DEF PassInit, RefusalInv, Begun
<1> QED BY <1>1, NextRefusal, PTL DEF PassSpec

(* Where the kernel has a wire for every qubit of the device, it is        *)
(* refused only at the limits of the last call (SabrePass.cpp: "iteration/ *)
(* insertion limits").                                                     *)
THEOREM FullKernelsAreRefusedAtLimits ==
  PassSpec => [](Forward.numQubits = device.size => RefusesOnlyAtLimits)
<1>1. PInv /\ RefusalInv => (Forward.numQubits = device.size => RefusesOnlyAtLimits)
  <2> SUFFICES ASSUME PInv, RefusalInv, Forward.numQubits = device.size,
                      phase = "fatal", Connected(device)
               PROVE  ~WithinLimits
    BY DEF RefusesOnlyAtLimits
  <2>1. Inv /\ circ.numQubits = device.size
    BY DEF PInv, CallInv, Begun, Routed, RInv
  <2>2. LeftForReason /\ pc = "done" /\ executed # GateIds(circ)
    BY DEF RefusalInv, Begun
  <2>3. ~Stranded
    BY <2>1, NeverStranded
  <2> QED BY <2>2, <2>3 DEF LeftForReason
<1> QED BY <1>1, PassInvariance, RefusalInvariance, PTL

(* Padding gives a kernel with one qubit array a wire for every qubit, so  *)
(* it is refused only at the limits.                                       *)
THEOREM OneArrayIsRefusedAtLimits ==
  PassSpec => [](Len(job.regs) = 1 => RefusesOnlyAtLimits)
<1>1. PInv /\ (Forward.numQubits = device.size => RefusesOnlyAtLimits)
        => (Len(job.regs) = 1 => RefusesOnlyAtLimits)
  <2> SUFFICES ASSUME PInv, Forward.numQubits = device.size => RefusesOnlyAtLimits,
                      Len(job.regs) = 1, phase = "fatal"
               PROVE  RefusesOnlyAtLimits
    BY DEF RefusesOnlyAtLimits
  <2>1. job \in Jobs /\ device = job.device /\ IsMappable(job)
    BY DEF PInv, SearchInv, CallInv, Begun, Routed
  <2>2. Forward.numQubits = device.size
    BY <2>1, OneArrayFillsTheDevice DEF Forward
  <2> QED BY <2>2
<1> QED BY <1>1, PassInvariance, FullKernelsAreRefusedAtLimits, PTL

----------------------------------------------------------------------------

(***************************************************************************)
(* Faithfulness.  The layout of the walk drifts from the simulation on the *)
(* wires of the last swaps of the kernel, up to the next gate or inserted  *)
(* swap.  Kernels in which such swaps share no wire are mapped faithfully; *)
(* the others are those on which the property fails.                       *)
(***************************************************************************)
Drifted(n) == UNION { WiresOf(circ.gates[c]) : c \in { c \in 1 .. n : SwapsOnly(job, c, n) } }

KeptInv ==
  /\ out \in Seq(Seq(Phys(device)))
  /\ CallsKeepTheirWires /\ DeviceLegal
  /\ phase \in {"walk", "mapped"} =>
       \A v \in Wires(circ) \ Drifted(Len(trace)) :
         current[v] = LayoutBeforeInsertion(Passed + 1)[v]

(* A call rewritten with the places the simulation gave its wires acts on  *)
(* those wires, and on coupled qubits.                                     *)
LEMMA FaithfulRewrite ==
  ASSUME PInv, KeptInv, phase = "walk", at <= Len(block), block[at].type # "route",
         NEW l \in Placements(circ), Rewrite(block[at].id, l),
         \A v \in WiresOf(circ.gates[Len(trace) + 1]) :
           l[v] = LayoutBeforeInsertion(Passed + 1)[v]
  PROVE  /\ CallsKeepTheirWires' /\ DeviceLegal' /\ out' \in Seq(Seq(Phys(device)))'
         /\ Len(trace) < Len(Calls(job)) /\ Calls(job)' = Calls(job)
         /\ trace' = Append(trace, Calls(job)[Len(trace) + 1])
<1> DEFINE g == Len(trace) + 1
           gate == circ.gates[g]
           s == LayoutBeforeInsertion(Passed + 1)
           R == [call : GateIds(circ), wires : Seq(Wires(circ) \cup {NoWire})]
           e == [call  |-> g, wires |-> [k \in DOMAIN gate |-> held[l[gate[k]]]]]
<1>1. /\ Len(trace) \in Nat /\ g \in 1 .. Len(circ.gates)
      /\ IsTwoQ(circ, g) => Adjacent(device, s[gate[1]], s[gate[2]])
  BY NextCall
<1>2. /\ UNCHANGED <<job, vars, held>>
      /\ out' = Append(out, Placed(g, l))
      /\ trace' = Append(trace, e)
  BY RewriteStep
<1>3. /\ circ.gates = FlatGates(job) /\ Len(circ.gates) \in Nat
      /\ DOMAIN job.prog = 1 .. Len(circ.gates) /\ GateIds(circ) = 1 .. Len(circ.gates)
  BY KernelCalls
<1>4. trace \in Seq(R) /\ \A v \in Wires(circ) : held[s[v]] = v
  BY DEF PInv, WalkInv
<1>5. gate \in Seq(Wires(circ)) /\ Len(gate) \in Nat /\ DOMAIN gate = 1 .. Len(gate)
      /\ \A k \in DOMAIN gate : gate[k] \in Wires(circ)
  <2>1. circ.gates \in Seq(Seq(Wires(circ)))
    BY DEF PInv, CallInv, Begun, Routed, RInv, Inv, TypeOK, IsCircuit
  <2>2. gate \in Seq(Wires(circ))
    BY <1>1, <2>1, ElementOfSeq
  <2> HIDE DEF gate
  <2> QED BY <2>2, LenProperties, ElementOfSeq
<1>6. l \in [Wires(circ) -> Phys(device)]
  BY DEF Placements
<1>7. \A k \in DOMAIN gate : l[gate[k]] = s[gate[k]]
  <2>1. \A k \in DOMAIN gate : gate[k] \in WiresOf(gate)
    BY DEF WiresOf
  <2> QED BY <2>1
<1> HIDE DEF s
<1>8. e = [call |-> g, wires |-> gate]
  <2> HIDE DEF gate
  <2>1. \A k \in DOMAIN gate : held[l[gate[k]]] = gate[k]
    BY <1>4, <1>5, <1>7
  <2>2. gate = [k \in DOMAIN gate |-> gate[k]]
    BY <1>5
  <2>3. [k \in DOMAIN gate |-> held[l[gate[k]]]] = [k \in DOMAIN gate |-> gate[k]]
    BY <2>1, Zenon
  <2> QED BY <2>2, <2>3
<1>9. \A c \in 1 .. Len(circ.gates) : Calls(job)[c] = [call |-> c, wires |-> circ.gates[c]]
  BY <1>3 DEF Calls
<1>10. Calls(job)[g] = e
  BY <1>1, <1>8, <1>9
<1>11. Len(Calls(job)) = Len(circ.gates)
  <2>1. DOMAIN Calls(job) = 1 .. Len(circ.gates)
    BY <1>3 DEF Calls
  <2> QED BY <1>3, <2>1 DEF Calls
<1>12. Len(trace) < Len(Calls(job))
  BY <1>1, <1>3, <1>11
<1>13. Calls(job)' = Calls(job) /\ UNCHANGED <<device, circ>>
  BY <1>2 DEF vars, Calls
<1> HIDE DEF e, R
<1>14. CallsKeepTheirWires'
  <2>1. /\ DOMAIN trace' = 1 .. g /\ trace'[g] = e
        /\ \A k \in 1 .. Len(trace) : trace'[k] = trace[k]
    <3> DEFINE L == Len(trace)
    <3>1. e \in [call : GateIds(circ), wires : Seq(Wires(circ))]
      BY <1>1, <1>3, <1>5, <1>8
    <3>2. trace \in Seq(R \cup {e})
      BY <1>4, SeqMonotonic
    <3>3. /\ Len(trace') = Len(trace) + 1 /\ trace' \in Seq(R \cup {e})
          /\ \A k \in 1 .. Len(trace) : trace'[k] = trace[k]
          /\ trace'[Len(trace) + 1] = e
      BY <1>2, <3>2, AppendProperties
    <3>4. DOMAIN trace' = 1 .. Len(trace')
      BY <3>3, LenProperties
    <3> QED BY <3>3, <3>4
  <2>2. \A k \in 1 .. Len(trace) : trace[k] = Calls(job)[k]
    <3>1. DOMAIN trace = 1 .. Len(trace)
      BY <1>4, LenProperties
    <3> QED BY <3>1 DEF KeptInv, CallsKeepTheirWires
  <2>3. \A k \in 1 .. g : trace'[k] = Calls(job)[k]
    BY <1>1, <1>10, <2>1, <2>2
  <2> QED BY <1>13, <2>1, <2>3 DEF CallsKeepTheirWires
<1>15. Placed(g, l) \in Seq(Phys(device)) /\ Len(Placed(g, l)) = Len(gate)
       /\ \A k \in DOMAIN gate : Placed(g, l)[k] = s[gate[k]]
  <2>1. Placed(g, l) = [k \in DOMAIN gate |-> l[gate[k]]]
    BY DEF Placed
  <2> HIDE DEF gate
  <2>2. \A k \in 1 .. Len(gate) : l[gate[k]] \in Phys(device)
    BY <1>5, <1>6
  <2>3. Placed(g, l) = [k \in 1 .. Len(gate) |-> l[gate[k]]]
    BY <1>5, <2>1
  <2>4. Placed(g, l) \in Seq(Phys(device)) /\ Len(Placed(g, l)) = Len(gate)
    BY <1>5, <2>2, <2>3
  <2> QED BY <1>5, <1>7, <2>3, <2>4
<1>16. Len(Placed(g, l)) = 2 => Adjacent(device, Placed(g, l)[1], Placed(g, l)[2])
  <2> SUFFICES ASSUME Len(gate) = 2 PROVE Adjacent(device, Placed(g, l)[1], Placed(g, l)[2])
    BY <1>15
  <2>1. IsTwoQ(circ, g) /\ 1 \in DOMAIN gate /\ 2 \in DOMAIN gate
    BY <1>5 DEF IsTwoQ
  <2> HIDE DEF gate
  <2> QED BY <1>1, <1>15, <2>1
<1>17. DeviceLegal' /\ out' \in Seq(Seq(Phys(device)))'
  <2>1. out \in Seq(Seq(Phys(device))) /\ DeviceLegal
    BY DEF KeptInv
  <2> DEFINE x == Placed(g, l)
  <2> HIDE DEF x
  <2>2. x \in Seq(Phys(device)) /\ out' = Append(out, x)
        /\ (Len(x) = 2 => Adjacent(device, x[1], x[2]))
    BY <1>2, <1>15, <1>16 DEF x
  <2> HIDE DEF g
  <2>3. /\ out' \in Seq(Seq(Phys(device))) /\ Len(out') = Len(out) + 1
        /\ \A k \in 1 .. Len(out) : out'[k] = out[k]
        /\ out'[Len(out) + 1] = x
    BY <2>1, <2>2, AppendProperties
  <2>4. Len(out) \in Nat /\ DOMAIN out = 1 .. Len(out) /\ DOMAIN out' = 1 .. Len(out')
    BY <2>1, <2>3, LenProperties
  <2>5. \A k \in DOMAIN out' : Len(out'[k]) = 2 => Adjacent(device, out'[k][1], out'[k][2])
    BY <2>1, <2>2, <2>3, <2>4 DEF DeviceLegal
  <2> QED BY <1>13, <2>3, <2>5 DEF DeviceLegal
<1> QED BY <1>2, <1>10, <1>12, <1>13, <1>14, <1>17

(* What the last swaps of a kernel drift: the next swap adds its wires,    *)
(* and has none of them already when such swaps share no wire.             *)
LEMMA DriftOfSwap ==
  ASSUME NEW n \in Nat, n + 1 \in DOMAIN job.prog, DOMAIN job.prog = 1 .. Len(circ.gates),
         Len(circ.gates) \in Nat, circ.gates = FlatGates(job), job.prog[n + 1].kind = "swap"
  PROVE  /\ Drifted(n) \subseteq Drifted(n + 1)
         /\ WiresOf(circ.gates[n + 1]) \subseteq Drifted(n + 1)
         /\ SwapRunsAreDisjoint(job) => WiresOf(circ.gates[n + 1]) \cap Drifted(n) = {}
<1>1. ASSUME NEW c \in 1 .. n, SwapsOnly(job, c, n)
      PROVE  SwapsOnly(job, c, n + 1) /\ c \in 1 .. (n + 1) /\ c \in DOMAIN job.prog /\ c < n + 1
  <2>1. \A i \in c .. (n + 1) : i \in c .. n \/ i = n + 1
    OBVIOUS
  <2>2. SwapsOnly(job, c, n + 1)
    BY <1>1, <2>1 DEF SwapsOnly
  <2>3. c \in 1 .. (n + 1) /\ c < n + 1
    OBVIOUS
  <2>4. c \in DOMAIN job.prog
    BY <2>3
  <2> QED BY <2>2, <2>3, <2>4
<1>2. SwapsOnly(job, n + 1, n + 1) /\ n + 1 \in 1 .. (n + 1)
  <2>1. \A i \in (n + 1) .. (n + 1) : i = n + 1
    OBVIOUS
  <2> QED BY <2>1 DEF SwapsOnly
<1>3. Drifted(n) \subseteq Drifted(n + 1)
  BY <1>1 DEF Drifted
<1>4. WiresOf(circ.gates[n + 1]) \subseteq Drifted(n + 1)
  BY <1>2 DEF Drifted
<1>5. ASSUME SwapRunsAreDisjoint(job), NEW v \in WiresOf(circ.gates[n + 1]), v \in Drifted(n)
      PROVE  FALSE
  <2>1. PICK c \in 1 .. n : SwapsOnly(job, c, n) /\ v \in WiresOf(circ.gates[c])
    BY <1>5 DEF Drifted
  <2>2. SwapsOnly(job, c, n + 1) /\ c \in DOMAIN job.prog /\ c < n + 1
    BY <1>1, <2>1
  <2>3. WiresOf(FlatGates(job)[c]) \cap WiresOf(FlatGates(job)[n + 1]) = {}
    BY <1>5, <2>2 DEF SwapRunsAreDisjoint
  <2> QED BY <1>5, <2>1, <2>3
<1> QED BY <1>3, <1>4, <1>5

(* A gate restores its snapshot, so it is placed as it was simulated.      *)
LEMMA WalkGateKept ==
  ASSUME PInv, KeptInv, WalkGate
  PROVE  KeptInv' /\ Len(trace) < Len(Calls(job)) /\ Calls(job)' = Calls(job)
         /\ trace' = Append(trace, Calls(job)[Len(trace) + 1])
<1>1. /\ phase = "walk" /\ at <= Len(block) /\ block[at].type = "gate"
      /\ current' = LayoutBeforeInsertion(Passed + 1)
      /\ current' \in Placements(circ)
      /\ Rewrite(block[at].id, current')
  BY WalkGateLayout
<1>2. /\ CallsKeepTheirWires' /\ DeviceLegal' /\ out' \in Seq(Seq(Phys(device)))'
      /\ Len(trace) < Len(Calls(job)) /\ Calls(job)' = Calls(job)
      /\ trace' = Append(trace, Calls(job)[Len(trace) + 1])
  BY <1>1, FaithfulRewrite
<1>3. Passed' = Passed /\ UNCHANGED vars
  BY <1>1, RewriteStep
<1>4. LayoutBeforeInsertion(Passed + 1)' = LayoutBeforeInsertion(Passed + 1)
  BY <1>3 DEF LayoutBeforeInsertion, vars
<1> QED BY <1>1, <1>2, <1>4 DEF KeptInv

(* A swap of the kernel is placed well, and drifts its own two wires only. *)
LEMMA WalkProgramSwapKept ==
  ASSUME DisjointSwaps, PInv, KeptInv, WalkProgramSwap
  PROVE  KeptInv' /\ Len(trace) < Len(Calls(job)) /\ Calls(job)' = Calls(job)
         /\ trace' = Append(trace, Calls(job)[Len(trace) + 1])
<1> DEFINE n == Len(trace)
           s == LayoutBeforeInsertion(Passed + 1)
<1>1. /\ phase = "walk" /\ at <= Len(block) /\ block[at].type = "swap"
      /\ Rewrite(block[at].id, current) /\ current \in Placements(circ)
  BY WalkProgramSwapLayout
<1>2. PICK v \in Wires(circ), w \in Wires(circ) :
        circ.gates[n + 1] = <<v, w>> /\ current' = Swapped(current, v, w)
  BY WalkProgramSwapLayout
<1>3. n \in Nat /\ n + 1 \in 1 .. Len(circ.gates) /\ job.prog[n + 1].kind = "swap"
  BY <1>1, NextCall
<1>4. circ.gates = FlatGates(job) /\ DOMAIN job.prog = 1 .. Len(circ.gates) /\ Len(circ.gates) \in Nat
  BY <1>1, KernelCalls
<1>5. SwapRunsAreDisjoint(job)
  BY <1>1 DEF DisjointSwaps, PInv, SearchInv, CallInv, Begun, Routed
<1> HIDE DEF n
<1>6. /\ Drifted(n) \subseteq Drifted(n + 1)
      /\ WiresOf(circ.gates[n + 1]) \subseteq Drifted(n + 1)
      /\ WiresOf(circ.gates[n + 1]) \cap Drifted(n) = {}
  BY <1>3, <1>4, <1>5, DriftOfSwap
<1>7. WiresOf(circ.gates[n + 1]) = {v, w}
  <2>1. DOMAIN <<v, w>> = {1, 2}
    OBVIOUS
  <2> QED BY <1>2, <2>1 DEF WiresOf
<1>8. \A u \in Wires(circ) \ Drifted(n) : current[u] = s[u]
  BY <1>1 DEF KeptInv, n
<1>9. \A u \in WiresOf(circ.gates[n + 1]) : current[u] = s[u]
  BY <1>2, <1>6, <1>7, <1>8
<1>10. /\ CallsKeepTheirWires' /\ DeviceLegal' /\ out' \in Seq(Seq(Phys(device)))'
       /\ Len(trace) < Len(Calls(job)) /\ Calls(job)' = Calls(job)
       /\ trace' = Append(trace, Calls(job)[Len(trace) + 1])
  BY <1>1, <1>9, FaithfulRewrite DEF n
<1>11. Passed' = Passed /\ UNCHANGED <<job, vars>> /\ Len(trace') = n + 1
  BY <1>1, RewriteStep DEF n
<1>12. UNCHANGED <<circ, insertions, layout>>
  BY <1>11 DEF vars
<1>13. LayoutBeforeInsertion(Passed + 1)' = s
  BY <1>11, <1>12 DEF LayoutBeforeInsertion
<1>14. Drifted(Len(trace))' = Drifted(n + 1) /\ Wires(circ)' = Wires(circ)
  BY <1>11, <1>12 DEF Drifted, SwapsOnly
<1> HIDE DEF s
<1>15. \A u \in Wires(circ) \ Drifted(n + 1) : current'[u] = s[u]
  <2> TAKE u \in Wires(circ) \ Drifted(n + 1)
  <2>1. u # v /\ u # w /\ u \in Wires(circ) \ Drifted(n)
    BY <1>6, <1>7
  <2>2. current \in [Wires(circ) -> Phys(device)]
    BY <1>1 DEF Placements
  <2>3. current'[u] = current[u]
    BY <1>2, <2>1, <2>2 DEF Swapped
  <2> QED BY <1>8, <2>1, <2>3
<1> QED BY <1>10, <1>13, <1>14, <1>15 DEF KeptInv

(* An inserted swap acts on a coupling, and ends every drift.              *)
LEMMA WalkRoutingSwapKept ==
  ASSUME PInv, KeptInv, WalkRoutingSwap
  PROVE  KeptInv'
<1>1. /\ Passed' = Passed + 1
      /\ current' = LayoutBeforeInsertion(Passed + 2)
      /\ UNCHANGED <<job, vars, trace>>
  BY WalkRoutingSwapStep
<1>2. PICK v \in Wires(circ), w \in Wires(circ) :
        /\ Adjacent(device, LayoutBeforeInsertion(Passed + 1)[v], LayoutBeforeInsertion(Passed + 1)[w])
        /\ out' = Append(out, <<LayoutBeforeInsertion(Passed + 1)[v],
                                LayoutBeforeInsertion(Passed + 1)[w]>>)
  BY WalkRoutingSwapStep
<1> DEFINE p == LayoutBeforeInsertion(Passed + 1)[v]
           q == LayoutBeforeInsertion(Passed + 1)[w]
<1> HIDE DEF p, q
<1>3. Adjacent(device, p, q) /\ out' = Append(out, <<p, q>>)
  BY <1>2 DEF p, q
<1>4. p \in Phys(device) /\ q \in Phys(device)
  BY <1>3 DEF Adjacent
<1>5. UNCHANGED <<device, circ, insertions, layout>>
  BY <1>1 DEF vars
<1>6. out \in Seq(Seq(Phys(device))) /\ DeviceLegal /\ CallsKeepTheirWires
  BY DEF KeptInv
<1>7. <<p, q>> \in Seq(Phys(device))
  BY <1>4
<1>8. /\ out' \in Seq(Seq(Phys(device))) /\ Len(out') = Len(out) + 1
      /\ \A k \in 1 .. Len(out) : out'[k] = out[k]
      /\ out'[Len(out) + 1] = <<p, q>>
  BY <1>3, <1>6, <1>7, AppendProperties
<1>9. Len(out) \in Nat /\ DOMAIN out = 1 .. Len(out) /\ DOMAIN out' = 1 .. Len(out')
  BY <1>6, <1>8, LenProperties
<1>10. \A k \in DOMAIN out' : Len(out'[k]) = 2 => Adjacent(device, out'[k][1], out'[k][2])
  <2> TAKE k \in DOMAIN out'
  <2>1. CASE k \in 1 .. Len(out)
    BY <1>6, <1>8, <1>9, <2>1 DEF DeviceLegal
  <2>2. CASE k = Len(out) + 1
    <3>1. out'[k][1] = p /\ out'[k][2] = q
      BY <1>8, <2>2
    <3> QED BY <1>3, <3>1
  <2> QED BY <1>8, <1>9, <2>1, <2>2
<1>11. DeviceLegal' /\ out' \in Seq(Seq(Phys(device)))'
  BY <1>5, <1>8, <1>10 DEF DeviceLegal
<1>12. CallsKeepTheirWires'
  BY <1>1, <1>6 DEF CallsKeepTheirWires, Calls
<1>13. LayoutBeforeInsertion(Passed + 1)' = current'
  <2>1. phase = "walk"
    BY DEF WalkRoutingSwap
  <2>2. RInv /\ Passed \in 0 .. Len(insertions)
    BY <2>1 DEF PInv, CallInv, Begun, Routed, WalkInv
  <2>3. Len(insertions) \in Nat
    BY <2>2, AnchorsInOrder
  <2>4. Passed' + 1 = Passed + 2
    <3> HIDE DEF Passed
    <3> QED BY <1>1, <2>2, <2>3
  <2> QED BY <1>1, <1>5, <2>4 DEF LayoutBeforeInsertion
<1> QED BY <1>11, <1>12, <1>13 DEF KeptInv

(* Every step of the pass keeps this, and performs the next call of the    *)
(* kernel or none.                                                         *)
LEMMA NextKept ==
  ASSUME DisjointSwaps, PInv, KeptInv, [PassNext]_passVars
  PROVE  KeptInv' /\ [Logical!Perform]_Logical!vars
<1>1. CASE /\ UNCHANGED <<job, device, out, trace>>
           /\ phase' \notin {"walk", "mapped"}
  <2>1. Calls(job)' = Calls(job)
    BY <1>1 DEF Calls
  <2>2. KeptInv'
    BY <1>1, <2>1 DEF KeptInv, CallsKeepTheirWires, DeviceLegal
  <2> QED BY <1>1, <2>1, <2>2 DEF Logical!vars
<1>2. CASE UNCHANGED <<job, device, circ, insertions, layout, at, current, out, trace>>
           /\ (phase' \in {"walk", "mapped"} => phase \in {"walk", "mapped"})
  <2>1. Calls(job)' = Calls(job)
    BY <1>2 DEF Calls
  <2>2. /\ Drifted(Len(trace))' = Drifted(Len(trace)) /\ Wires(circ)' = Wires(circ)
        /\ LayoutBeforeInsertion(Passed + 1)' = LayoutBeforeInsertion(Passed + 1)
    BY <1>2 DEF Drifted, SwapsOnly, LayoutBeforeInsertion, Passed
  <2>3. KeptInv'
    BY <1>2, <2>1, <2>2 DEF KeptInv, CallsKeepTheirWires, DeviceLegal
  <2> QED BY <1>2, <2>1, <2>3 DEF Logical!vars
<1>3. CASE LeaveUnmapped \/ StartTrial \/ ScoreTrial \/ StartEmpty \/ NextTurn \/ StartRouting
  BY <1>1, <1>3 DEF LeaveUnmapped, StartTrial, ScoreTrial, StartEmpty, NextTurn, StartRouting,
                    Call, vars, walkVars
<1>4. CASE SwapStep
  <2>1. /\ phase \in {"trial", "route"} /\ Next
        /\ UNCHANGED <<job, phase, layoutVars, start, block, emitted, walkVars>>
    BY <1>4 DEF SwapStep
  <2>2. RInv
    BY <2>1 DEF PInv, CallInv, Begun, Routed
  <2>3. UNCHANGED <<device, circ>>
    BY <2>1, <2>2, FirstLayoutIsKept
  <2> QED BY <1>1, <2>1, <2>3 DEF walkVars
<1>5. CASE Fatal \/ BeginEmission \/ EmitGroup
  BY <1>1, <1>5 DEF Fatal, BeginEmission, EmitGroup, vars, walkVars
<1>6. CASE BeginWalk
  <2>1. /\ phase = "emit" /\ current' = start
        /\ UNCHANGED <<job, vars, at, out, trace>>
    BY <1>6 DEF BeginWalk
  <2>2. at = 1 /\ trace = <<>> /\ LayoutBeforeInsertion(1) = start
    BY <2>1 DEF PInv, QuietInv, CallInv, Begun, Routed
  <2>3. Passed' + 1 = 1
    <3>1. at' = 1 /\ Len(trace') = 0 /\ Passed' = at' - 1 - Len(trace')
      BY <2>1, <2>2 DEF Passed
    <3> QED BY <3>1
  <2>4. LayoutBeforeInsertion(Passed + 1)' = start
    BY <2>1, <2>2, <2>3 DEF LayoutBeforeInsertion, vars
  <2>5. Calls(job)' = Calls(job)
    BY <2>1 DEF Calls
  <2>6. KeptInv'
    BY <2>1, <2>4, <2>5 DEF KeptInv, CallsKeepTheirWires, DeviceLegal, vars
  <2> QED BY <2>1, <2>5, <2>6 DEF Logical!vars
<1>7. CASE WalkRoutingSwap
  <2>1. UNCHANGED <<job, trace>>
    BY <1>7, WalkRoutingSwapStep
  <2>2. Calls(job)' = Calls(job)
    BY <2>1 DEF Calls
  <2>3. KeptInv'
    BY <1>7, WalkRoutingSwapKept
  <2> QED BY <2>1, <2>2, <2>3 DEF Logical!vars
<1>8. CASE WalkGate \/ WalkProgramSwap
  <2>1. /\ KeptInv' /\ Len(trace) < Len(Calls(job)) /\ Calls(job)' = Calls(job)
        /\ trace' = Append(trace, Calls(job)[Len(trace) + 1])
    BY <1>8, WalkGateKept, WalkProgramSwapKept
  <2> QED BY <2>1 DEF Logical!Perform
<1>9. CASE EndWalk
  BY <1>2, <1>9 DEF EndWalk, vars, walkVars
<1>10. CASE UNCHANGED passVars
  BY <1>2, <1>10 DEF passVars, vars, walkVars
<1> QED BY <1>3, <1>4, <1>5, <1>6, <1>7, <1>8, <1>9, <1>10 DEF PassNext

(* Nothing has been rewritten at first.                                    *)
LEMMA InitKept == PassInit => KeptInv
  BY EmptySeq DEF PassInit, KeptInv, CallsKeepTheirWires, DeviceLegal

(* Nothing the walk has rewritten was misplaced.                           *)
THEOREM WalkFollowsSimulation ==
  ASSUME DisjointSwaps
  PROVE  PassSpec => []KeptInv
<1>1. PassInit => KeptInv
  BY InitKept
<1>2. PInv /\ KeptInv /\ [PassNext]_passVars => KeptInv'
  BY NextKept
<1> QED BY <1>1, <1>2, PassInvariance, PTL DEF PassSpec

(* Every two-qubit call of the rewritten kernel acts on coupled qubits, on *)
(* every device, for every kernel whose successive swaps share no wire.    *)
THEOREM RewrittenIsLegal ==
  ASSUME DisjointSwaps
  PROVE  PassSpec => []DeviceLegal
<1>1. KeptInv => DeviceLegal
  BY DEF KeptInv
<1> QED BY <1>1, WalkFollowsSimulation, PTL

(* Each call lands on the wires it was written for, however the search and *)
(* the routing went and wherever the inserted swaps ended up.              *)
THEOREM WiresAreKept ==
  ASSUME DisjointSwaps
  PROVE  PassSpec => []CallsKeepTheirWires
<1>1. KeptInv => CallsKeepTheirWires
  BY DEF KeptInv
<1> QED BY <1>1, WalkFollowsSimulation, PTL

(* When the walk has ended, the kernel has been performed to its last call.*)
THEOREM WholeProgramIsMapped ==
  ASSUME DisjointSwaps
  PROVE  PassSpec => []MapsWholeProgram
<1>1. PInv /\ KeptInv => MapsWholeProgram
  <2> SUFFICES ASSUME PInv, KeptInv, phase = "mapped" PROVE trace = Calls(job)
    BY DEF MapsWholeProgram
  <2> DEFINE n == Len(circ.gates)
             R == [call : GateIds(circ), wires : Seq(Wires(circ) \cup {NoWire})]
  <2>1. RInv
    BY DEF PInv, CallInv, Begun, Routed
  <2>2. n \in Nat /\ Len(insertions) \in Nat
    BY <2>1, AnchorsInOrder
  <2>3. /\ at \in Nat /\ Len(trace) \in 0 .. n /\ Passed \in 0 .. Len(insertions)
        /\ emitted = Len(insertions) /\ at > Len(block) /\ trace \in Seq(R)
    BY DEF PInv, WalkInv
  <2>4. Len(block) = n + emitted
    BY DEF PInv, EmitInv, BlockInv
  <2>5. Passed = at - 1 - Len(trace)
    BY DEF Passed
  <2> HIDE DEF n, Passed
  <2>6. Len(trace) = n
    BY <2>2, <2>3, <2>4, <2>5
  <2> HIDE DEF R
  <2>7. DOMAIN trace = 1 .. n /\ trace = [k \in 1 .. n |-> trace[k]]
    BY <2>3, <2>6, LenProperties
  <2>8. DOMAIN job.prog = 1 .. n
    BY KernelCalls DEF n
  <2>9. Calls(job) = [k \in 1 .. n |-> Calls(job)[k]]
    BY <2>8 DEF Calls
  <2>10. \A k \in 1 .. n : trace[k] = Calls(job)[k]
    BY <2>7 DEF KeptInv, CallsKeepTheirWires
  <2>11. [k \in 1 .. n |-> trace[k]] = [k \in 1 .. n |-> Calls(job)[k]]
    BY <2>10, Zenon
  <2> QED BY <2>7, <2>9, <2>11
<1> QED BY <1>1, WalkFollowsSimulation, PassInvariance, PTL

(* The pass implements LogicalProgram: what the rewritten kernel does to   *)
(* the wires is the kernel, call by call.                                  *)
THEOREM ProgramIsImplemented ==
  ASSUME DisjointSwaps
  PROVE  PassSpec => ImplementsProgram
<1>1. PassInit => Logical!Init
  BY DEF PassInit, Logical!Init
<1>2. PInv /\ KeptInv /\ [PassNext]_passVars => [Logical!Perform]_Logical!vars
  BY NextKept
<1> QED BY <1>1, <1>2, WalkFollowsSimulation, PassInvariance, PTL
        DEF PassSpec, ImplementsProgram, Logical!Spec

=============================================================================
