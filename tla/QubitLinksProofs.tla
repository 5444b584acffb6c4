-------------------------- MODULE QubitLinksProofs --------------------------
(***************************************************************************)
(* Theorems about QubitLinks, for every register, set of vocabularies and  *)
(* depth of blocks: the types, and that translated gates read the values   *)
(* of the qubits they are written on, as the last operation left them, in  *)
(* a region that dominates the reader.  And about SimplifyQubitExtract,    *)
(* for every program: it keeps gates on their qubits.                      *)
(***************************************************************************)
EXTENDS QubitLinks, CountingProofs, SequenceTheorems, TLAPS

(* A sequence, whatever its elements are.                                  *)
IsList(s) == Len(s) \in Nat /\ s = [i \in 1 .. Len(s) |-> s[i]]

(* A region in another, or the same one.                                   *)
Within(r, s) == IsList(r) /\ IsList(s) /\ IsPrefix(r, s)

(* The name of a qubit in the symbol table; those of q by their constant   *)
(* indices and s.                                                          *)
Key(text) == IF text = "s" THEN ScalarName ELSE array_qubit_symbol_name(text)
Constants == {IndexText[k] : k \in DOMAIN IndexText}
Keys      == {Key(x) : x \in Constants \cup {"s"}}

(* What the symbol table is told that an operation does to a qubit: it is  *)
(* on that qubit, or, at a loop's variable, may be.                        *)
Touches(op, text) ==
  IsTold(op) /\ \E n \in DOMAIN op.on : op.on[n] = text \/ (op.on[n] = "i" /\ text # "s")
Untouched(ops, v, text) ==
  Acts(ops[v[1]]) => \A j \in v[1] + 1 .. Len(ops) : ~ Touches(ops[j], text)

(* A value that stands for a qubit, and the name the source has for it.    *)
IsValue(ops, v) ==
  /\ v[1] \in 1 .. Len(ops) /\ v[2] \in DOMAIN ops[v[1]].on
  /\ ops[v[1]].kind \in {"extract", "gate", "call", "modified"}
TextOf(ops, v) == ops[v[1]].on[v[2]]

(* An operation reads values defined before it, in a region around it; and *)
(* a gate or a measurement those of the qubits it is written on, as the    *)
(* last operation left them.                                               *)
Reads(ops, i, k) ==
  LET v == ops[i].args[k]
  IN  /\ v[1] \in 1 .. i - 1
      /\ \/ ops[v[1]].kind \in {"call", "modified"} \/ ops[i].on[k] = "s"
         \/ Within(ops[v[1]].region, ops[i].region)
      /\ Acts(ops[i]) =>
           /\ v[2] \in DOMAIN ops[v[1]].on /\ TextOf(ops, v) = ops[i].on[k]
           /\ Acts(ops[v[1]]) => \A j \in v[1] + 1 .. i - 1 : ~ Touches(ops[j], ops[i].on[k])
OpsInv(t) ==
  /\ IsList(t.ops) /\ Len(t.ops) >= 2
  /\ t.ops[1].region = <<>> /\ t.ops[2].region = <<>>
  /\ \A i \in 1 .. Len(t.ops) : \A k \in DOMAIN t.ops[i].args : Reads(t.ops, i, k)

(* The region statements of an open block go to.                           *)
RegionOf(t, i) == IF i = Len(t.scopes) THEN t.region ELSE t.blocks[i].region
Shape(t) ==
  /\ DOMAIN t = {"ops", "region", "opened", "scopes", "keyOf", "blocks"}
  /\ IsList(t.scopes) /\ IsList(t.blocks) /\ Len(t.scopes) = Len(t.blocks) + 1
  /\ Len(t.blocks) <= MaxDepth
  /\ \A i \in 1 .. Len(t.blocks) :
       DOMAIN t.blocks[i] = {"kind", "breakable", "region", "from", "directive", "other"}
  /\ \A i, j \in 1 .. Len(t.scopes) : i <= j => Within(RegionOf(t, i), RegionOf(t, j))

(* The values names stand for; those of the keys in "fresh" are the last.  *)
Entry(t, i, key, fresh) ==
  LET v == t.scopes[i][key]
  IN  /\ v \in DOMAIN t.keyOf /\ t.keyOf[v] = key
      /\ t.ops[v[1]].kind = "extract" => Within(t.ops[v[1]].region, RegionOf(t, i))
      /\ key \in fresh => Untouched(t.ops, v, TextOf(t.ops, v))
Symbols(t, fresh) ==
  /\ \A i \in 1 .. Len(t.scopes) : \A key \in DOMAIN t.scopes[i] : Entry(t, i, key, fresh)
  /\ ScalarName \in DOMAIN t.scopes[1]
  /\ \A v \in DOMAIN t.keyOf : IsValue(t.ops, v) /\ t.keyOf[v] = Key(TextOf(t.ops, v))

(* The unit is sound, the keys in "fresh" with the others.  Every step     *)
(* keeps Good(unit, Keys); within a statement fewer keys are fresh.        *)
Good(t, fresh) == Shape(t) /\ OpsInv(t) /\ Symbols(t, fresh)

-----------------------------------------------------------------------------
(* A list is a sequence of something.                                      *)
LEMMA ListsAreSequences ==
  ASSUME NEW s, IsList(s)
  PROVE  s \in Seq({ s[i] : i \in 1 .. Len(s) })
  BY DEF IsList

(* A sequence is a list.                                                   *)
LEMMA SequencesAreLists ==
  ASSUME NEW A, NEW s \in Seq(A)
  PROVE  IsList(s)
  BY DEF IsList

(* A list with one element more.                                           *)
LEMMA ListAppends ==
  ASSUME NEW s, IsList(s), NEW e
  PROVE  /\ IsList(Append(s, e)) /\ Len(Append(s, e)) = Len(s) + 1
         /\ Append(s, e)[Len(s) + 1] = e
         /\ \A i \in 1 .. Len(s) : Append(s, e)[i] = s[i]
<1> DEFINE A == { s[i] : i \in 1 .. Len(s) }
<1>1. s \in Seq(A)
  BY ListsAreSequences
<1>2. s \in Seq(A \cup {e}) /\ Append(s, e) \in Seq(A \cup {e})
  BY <1>1
<1> HIDE DEF A
<1>3. IsList(Append(s, e))
  BY <1>2, SequencesAreLists, Zenon
<1> QED BY <1>1, <1>2, <1>3

(* A list without its last element.                                        *)
LEMMA ListFront ==
  ASSUME NEW s, IsList(s), Len(s) >= 1
  PROVE  /\ IsList(Front(s)) /\ Len(Front(s)) = Len(s) - 1
         /\ \A i \in 1 .. Len(s) - 1 : Front(s)[i] = s[i]
<1> DEFINE A == { s[i] : i \in 1 .. Len(s) }
<1>1. s \in Seq(A)
  BY ListsAreSequences
<1> HIDE DEF A
<1>2. SubSeq(s, 1, Len(s) - 1) \in Seq(A)
  BY <1>1
<1>3. IsList(SubSeq(s, 1, Len(s) - 1))
  BY <1>2, SequencesAreLists, Zenon
<1>4. /\ Len(SubSeq(s, 1, Len(s) - 1)) = Len(s) - 1
      /\ \A i \in 1 .. Len(s) - 1 : SubSeq(s, 1, Len(s) - 1)[i] = s[i]
  <2>1. PICK n \in Nat : n = Len(s) - 1
    BY <1>1
  <2>2. \A i \in 1 .. n : s[i] \in A
    BY <1>1, <2>1
  <2>3. Len(SubSeq(s, 1, n)) = (IF 1 <= n THEN n - 1 + 1 ELSE 0)
        /\ \A i \in 1 .. n - 1 + 1 : SubSeq(s, 1, n)[i] = s[1 + i - 1]
    BY <2>2, SubSeqProperties, 1 \in Int, n \in Int
  <2>4. ASSUME NEW i \in 1 .. n PROVE SubSeq(s, 1, n)[i] = s[i]
    <3>1. i \in 1 .. n - 1 + 1 /\ 1 + i - 1 = i
      OBVIOUS
    <3> QED BY <2>3, <3>1
  <2>5. Len(SubSeq(s, 1, n)) = n
    BY <2>3
  <2> QED BY <2>1, <2>4, <2>5
<1> QED BY <1>3, <1>4 DEF Front

(* Every region is in itself.                                              *)
LEMMA WithinItself ==
  ASSUME NEW r, IsList(r)
  PROVE  Within(r, r)
  BY DEF Within, IsPrefix, IsList

(* A region in a region of a third is in the third.                        *)
LEMMA WithinOneMore ==
  ASSUME NEW q, NEW r, NEW s, Within(q, r), Within(r, s)
  PROVE  Within(q, s)
<1> DEFINE A == { s[i] : i \in 1 .. Len(s) }
           B == { r[i] : i \in 1 .. Len(r) }
           C == { q[i] : i \in 1 .. Len(q) }
<1>1. s \in Seq(A) /\ r \in Seq(B) /\ q \in Seq(C)
  BY ListsAreSequences DEF Within
<1> HIDE DEF A, B, C
<1>2. Len(q) <= Len(r) /\ Len(r) <= Len(s)
  BY DEF Within, IsPrefix
<1>3. \A i \in 1 .. Len(q) : SubSeq(q, 1, Len(q))[i] = q[i] /\ SubSeq(r, 1, Len(q))[i] = r[i]
                             /\ SubSeq(s, 1, Len(q))[i] = s[i]
  BY <1>1, <1>2
<1>4. \A i \in 1 .. Len(r) : SubSeq(r, 1, Len(r))[i] = r[i] /\ SubSeq(s, 1, Len(r))[i] = s[i]
  BY <1>1, <1>2
<1>5. \A i \in 1 .. Len(q) : q[i] = s[i]
  BY <1>1, <1>2, <1>3, <1>4 DEF Within, IsPrefix
<1>6. SubSeq(q, 1, Len(q)) = SubSeq(s, 1, Len(q))
  BY <1>1, <1>2, <1>5
<1> QED BY <1>1, <1>2, <1>6 DEF Within, IsPrefix

(* A region is round those opened in it.                                   *)
LEMMA WithinOpened ==
  ASSUME NEW r, IsList(r), NEW s, IsList(s)
  PROVE  Within(r, r \o s)
<1> DEFINE A == { r[i] : i \in 1 .. Len(r) }
           B == { s[i] : i \in 1 .. Len(s) }
<1>1. r \in Seq(A) /\ s \in Seq(B)
  BY ListsAreSequences
<1> HIDE DEF A, B
<1>2. r \in Seq(A \cup B) /\ s \in Seq(A \cup B)
  BY <1>1
<1>3. r \o s \in Seq(A \cup B) /\ Len(r) <= Len(r \o s)
  BY <1>2
<1>4. SubSeq(r, 1, Len(r)) = SubSeq(r \o s, 1, Len(r))
  BY <1>2, <1>3
<1>5. IsList(r \o s)
  BY <1>3, SequencesAreLists
<1> QED BY <1>3, <1>4, <1>5 DEF Within, IsPrefix

(* The whole program is round every region.                                *)
LEMMA WithinTheProgram ==
  ASSUME NEW r, IsList(r)
  PROVE  Within(<<>>, r)
<1>1. r \in Seq({ r[i] : i \in 1 .. Len(r) })
  BY ListsAreSequences
<1>2. IsList(<<>>)
  BY DEF IsList
<1>3. SubSeq(<<>>, 1, 0) = SubSeq(r, 1, 0)
  OBVIOUS
<1> QED BY <1>1, <1>2, <1>3 DEF Within, IsPrefix

-----------------------------------------------------------------------------
(* The texts of constant indices are told apart, and from the others.      *)
LEMMA TextsDiffer ==
  /\ DOMAIN IndexText = 0 .. RegisterSize - 1
  /\ \A k \in DOMAIN IndexText : IndexText[k] \in Constants
  /\ \A j, k \in DOMAIN IndexText : IndexText[j] = IndexText[k] => j = k
  /\ \A text : IsConstant(text) <=> text \in Constants
  /\ \A text \in {"q", "s", "i", "n-i"} : text \notin Constants
  /\ Range(IndexText) = Constants /\ Named = Constants \cup {"s"}
<1>1. \A k \in 0 .. RegisterSize - 1 : IndexText[k] = ToString(k)
  BY Zenon DEF IndexText
<1>2. DOMAIN IndexText = 0 .. RegisterSize - 1
  BY Zenon DEF IndexText
<1>3. \A j, k \in DOMAIN IndexText : IndexText[j] = IndexText[k] => j = k
  BY <1>1, <1>2, ToStringAssumption, Zenon
<1>4. \A k \in DOMAIN IndexText : IndexText[k] \notin {"q", "s", "i", "n-i"}
  BY <1>1, <1>2, ToStringAssumption, Zenon
<1>5. Range(IndexText) = Constants
  BY Zenon DEF Range, Constants
<1> QED BY <1>2, <1>3, <1>4, <1>5, Zenon DEF Constants, IsConstant, Named

(* The keys of two texts are two, and no value without a name has one.     *)
LEMMA KeysDiffer ==
  /\ \A x, y : Key(x) = Key(y) => x = y
  /\ \A x : Key(x) # Anonymous
  /\ \A x \in Constants : Key(x) = array_qubit_symbol_name(x)
  /\ Key("s") = ScalarName
<1>1. \A x \in Constants : x # "s"
  BY TextsDiffer
<1>2. \A x, y : /\ <<"s">> # <<"q", y>> /\ <<>> # <<"q", y>> /\ <<>> # <<"s">>
                /\ <<"q", x>> = <<"q", y>> => x = y
  OBVIOUS
<1> QED BY <1>1, <1>2, Zenon DEF Key, ScalarName, Anonymous, array_qubit_symbol_name

(* Two operations with the same operands in the same place, and a program  *)
(* that goes on as another one does, with more operations at its end.      *)
Alike(op, other) ==
  /\ op.kind = other.kind /\ op.region = other.region /\ op.args = other.args
  /\ op.on = other.on /\ op.via = other.via
Longer(ops, more) ==
  /\ IsList(ops) /\ IsList(more) /\ Len(ops) <= Len(more)
  /\ \A i \in 1 .. Len(ops) : Alike(more[i], ops[i])

(* What is the same of operations that are alike.                          *)
LEMMA AlikeTheSame ==
  ASSUME NEW op, NEW other, Alike(op, other)
  PROVE  /\ Acts(op) = Acts(other) /\ IsTold(op) = IsTold(other)
         /\ \A text : Touches(op, text) = Touches(other, text)
<1>1. Acts(op) <=> Acts(other)
  BY DEF Alike, Acts
<1>2. IsTold(op) <=> IsTold(other)
  BY <1>1, Zenon DEF Alike, IsTold
<1>3. \A text : Touches(op, text) <=> Touches(other, text)
  BY <1>2, Zenon DEF Alike, Touches
<1> QED BY <1>1, <1>2, <1>3 DEF Acts, IsTold, Touches

(* A value stays the same qubit's.                                         *)
LEMMA ValuesStay ==
  ASSUME NEW ops, NEW more, Longer(ops, more), NEW v, IsValue(ops, v)
  PROVE  IsValue(more, v) /\ TextOf(more, v) = TextOf(ops, v)
  BY DEF Longer, Alike, IsList, IsValue, TextOf

(* What operations read stays sound.                                       *)
LEMMA ReadsStay ==
  ASSUME NEW ops, NEW more, Longer(ops, more), NEW i \in 1 .. Len(ops),
         NEW k \in DOMAIN ops[i].args, Reads(ops, i, k)
  PROVE  k \in DOMAIN more[i].args /\ Reads(more, i, k)
<1> DEFINE v == ops[i].args[k]
<1>1. Alike(more[i], ops[i]) /\ v[1] \in 1 .. i - 1 /\ i \in 1 .. Len(more)
  BY DEF Longer, IsList, Reads
<1>2. Alike(more[v[1]], ops[v[1]])
  BY <1>1 DEF Longer, IsList
<1>3. more[i].args[k] = v /\ more[i].on[k] = ops[i].on[k] /\ TextOf(more, v) = TextOf(ops, v)
  BY <1>1, <1>2 DEF Alike, TextOf
<1>4. ASSUME NEW j \in v[1] + 1 .. i - 1
      PROVE  Touches(more[j], ops[i].on[k]) = Touches(ops[j], ops[i].on[k])
  <2>1. j \in 1 .. Len(ops)
    BY <1>1 DEF Longer, IsList
  <2> QED BY <2>1, AlikeTheSame DEF Longer
<1>5. Acts(more[i]) = Acts(ops[i]) /\ Acts(more[v[1]]) = Acts(ops[v[1]])
  BY <1>1, <1>2, AlikeTheSame
<1> QED BY <1>1, <1>2, <1>3, <1>4, <1>5 DEF Reads, Alike

-----------------------------------------------------------------------------
(* Two units that differ in their operations, and in what names the next   *)
(* region.                                                                 *)
SameTables(t, u) ==
  /\ DOMAIN u = DOMAIN t /\ u.region = t.region
  /\ u.scopes = t.scopes /\ u.keyOf = t.keyOf /\ u.blocks = t.blocks

(* More operations, that read sound values and touch no qubit whose value  *)
(* is to stay the last.                                                    *)
LEMMA GrownIsGood ==
  ASSUME NEW t, NEW u, NEW fresh, Good(t, fresh), SameTables(t, u), Longer(t.ops, u.ops),
         \A i \in Len(t.ops) + 1 .. Len(u.ops) : \A k \in DOMAIN u.ops[i].args :
           Reads(u.ops, i, k),
         NEW kept \in SUBSET fresh,
         \A j \in Len(t.ops) + 1 .. Len(u.ops) : \A x :
           Key(x) \in kept => ~ Touches(u.ops[j], x)
  PROVE  Good(u, kept)
<1>1. Shape(u)
  BY DEF Good, Shape, SameTables, RegionOf
<1>2. OpsInv(u)
  <2>1. ASSUME NEW i \in 1 .. Len(u.ops), NEW k \in DOMAIN u.ops[i].args
        PROVE  Reads(u.ops, i, k)
    <3>1. CASE i \in 1 .. Len(t.ops)
      <4>1. k \in DOMAIN t.ops[i].args
        BY <3>1 DEF Longer, Alike
      <4>2. Reads(t.ops, i, k)
        BY <3>1, <4>1 DEF Good, OpsInv
      <4> QED BY <3>1, <4>1, <4>2, ReadsStay
    <3>2. CASE i \in Len(t.ops) + 1 .. Len(u.ops)
      BY <3>2
    <3> QED BY <3>1, <3>2 DEF Longer, IsList
  <2>2. u.ops[1].region = <<>> /\ u.ops[2].region = <<>> /\ IsList(u.ops) /\ Len(u.ops) >= 2
    BY DEF Good, OpsInv, Longer, Alike, IsList
  <2> QED BY <2>1, <2>2 DEF OpsInv
<1>3. \A v \in DOMAIN u.keyOf : /\ IsValue(u.ops, v) /\ u.keyOf[v] = Key(TextOf(u.ops, v))
                                /\ v \in DOMAIN t.keyOf /\ IsValue(t.ops, v)
                                /\ TextOf(u.ops, v) = TextOf(t.ops, v)
  BY ValuesStay DEF Good, Symbols, SameTables
<1>4. ASSUME NEW i \in 1 .. Len(u.scopes), NEW key \in DOMAIN u.scopes[i]
      PROVE  Entry(u, i, key, kept)
  <2> DEFINE v == t.scopes[i][key]
  <2>1. Entry(t, i, key, fresh) /\ v = u.scopes[i][key]
    BY DEF Good, Symbols, SameTables
  <2>2. v \in DOMAIN u.keyOf /\ u.keyOf[v] = key
    BY <2>1 DEF Entry, SameTables
  <2>3. IsValue(t.ops, v) /\ TextOf(u.ops, v) = TextOf(t.ops, v) /\ key = Key(TextOf(t.ops, v))
    BY <1>3, <2>2
  <2>4. Alike(u.ops[v[1]], t.ops[v[1]]) /\ v[1] \in 1 .. Len(t.ops)
    BY <2>3 DEF Longer, IsValue
  <2>5. u.ops[v[1]].kind = "extract" => Within(u.ops[v[1]].region, RegionOf(u, i))
    BY <2>1, <2>4 DEF Entry, Alike, RegionOf, SameTables
  <2>6. ASSUME key \in kept, Acts(u.ops[v[1]]), NEW j \in v[1] + 1 .. Len(u.ops)
        PROVE  ~ Touches(u.ops[j], TextOf(u.ops, v))
    <3>1. CASE j \in 1 .. Len(t.ops)
      <4>1. Acts(t.ops[v[1]])
        BY <2>4, <2>6, AlikeTheSame
      <4>2. j \in v[1] + 1 .. Len(t.ops)
        BY <3>1, <2>6
      <4>3. ~ Touches(t.ops[j], TextOf(t.ops, v))
        BY <2>1, <2>6, <4>1, <4>2 DEF Entry, Untouched
      <4>4. Touches(u.ops[j], TextOf(t.ops, v)) = Touches(t.ops[j], TextOf(t.ops, v))
        BY <3>1, AlikeTheSame DEF Longer
      <4> QED BY <2>3, <4>3, <4>4
    <3>2. CASE j \in Len(t.ops) + 1 .. Len(u.ops)
      BY <2>3, <2>6, <3>2
    <3> QED BY <3>1, <3>2, <2>4, <2>6 DEF Longer, IsList
  <2> QED BY <2>1, <2>2, <2>5, <2>6, Zenon DEF Entry, Untouched
<1>5. ScalarName \in DOMAIN u.scopes[1]
  BY DEF Good, Symbols, SameTables
<1>6. Symbols(u, kept)
  BY <1>3, <1>4, <1>5, Zenon DEF Symbols
<1> QED BY <1>1, <1>2, <1>6 DEF Good

(* An operation is put at the end.                                         *)
LEMMA Emitted ==
  ASSUME NEW t, DOMAIN t = {"ops", "region", "opened", "scopes", "keyOf", "blocks"}, IsList(t.ops),
         NEW kind, NEW args, NEW on, NEW via
  PROVE  LET u == Emit(t, kind, args, on, via)
         IN  /\ SameTables(t, u) /\ Longer(t.ops, u.ops) /\ Len(u.ops) = Len(t.ops) + 1
             /\ u.ops[Len(u.ops)] = [kind |-> kind, region |-> t.region, args |-> args,
                                     on |-> on, via |-> via]
<1> DEFINE u == Emit(t, kind, args, on, via)
           op == [kind |-> kind, region |-> t.region, args |-> args, on |-> on, via |-> via]
<1>1. SameTables(t, u) /\ u.ops = Append(t.ops, op)
  BY DEF Emit, SameTables
<1>2. Len(u.ops) = Len(t.ops) + 1 /\ u.ops[Len(u.ops)] = op
      /\ IsList(u.ops) /\ \A i \in 1 .. Len(t.ops) : u.ops[i] = t.ops[i]
  <2> HIDE DEF op, u
  <2> QED BY <1>1, ListAppends
<1>3. Longer(t.ops, u.ops)
  <2> HIDE DEF u
  <2> QED BY <1>2 DEF Longer, Alike, IsList
<1> QED BY <1>1, <1>2, <1>3

(* The same of a unit that is sound, field by field.                       *)
LEMMA EmittedLast ==
  ASSUME NEW t, NEW fresh, Good(t, fresh), NEW kind, NEW args, NEW on, NEW via,
         NEW u, u = Emit(t, kind, args, on, via)
  PROVE  /\ SameTables(t, u)
         /\ u.ops[Len(u.ops)].kind = kind /\ u.ops[Len(u.ops)].on = on
         /\ u.ops[Len(u.ops)].via = via
<1>1. DOMAIN t = {"ops", "region", "opened", "scopes", "keyOf", "blocks"} /\ IsList(t.ops)
  BY DEF Good, Shape, OpsInv
<1>2. /\ SameTables(t, u)
      /\ u.ops[Len(u.ops)] = [kind |-> kind, region |-> t.region, args |-> args,
                              on |-> on, via |-> via]
  BY <1>1, Emitted
<1> QED BY <1>2

-----------------------------------------------------------------------------
(* At the end of a unit, a value stands for a qubit as the last operation  *)
(* on it left it, and may be read there.                                   *)
Carries(t, v, text) ==
  /\ IsValue(t.ops, v) /\ TextOf(t.ops, v) = text /\ Untouched(t.ops, v, text)
  /\ \/ t.ops[v[1]].kind \in {"call", "modified"} \/ text = "s"
     \/ Within(t.ops[v[1]].region, t.region)

(* A unit that only extracts qubits, and names them.                       *)
Extracts(t, u) ==
  /\ u.region = t.region /\ Longer(t.ops, u.ops)
  /\ \A j \in Len(t.ops) + 1 .. Len(u.ops) : ~ Acts(u.ops[j])
  /\ DOMAIN t.keyOf \subseteq DOMAIN u.keyOf

(* One extract after another.                                              *)
LEMMA ExtractsOneMore ==
  ASSUME NEW t, NEW u, NEW w, Extracts(t, u), Extracts(u, w)
  PROVE  Extracts(t, w)
<1>1. Longer(t.ops, w.ops)
  BY DEF Extracts, Longer, Alike, IsList
<1>2. ASSUME NEW j \in Len(t.ops) + 1 .. Len(w.ops) PROVE ~ Acts(w.ops[j])
  <2>1. CASE j \in Len(t.ops) + 1 .. Len(u.ops)
    <3>1. Alike(w.ops[j], u.ops[j]) /\ ~ Acts(u.ops[j])
      BY <2>1 DEF Extracts, Longer, IsList
    <3> QED BY <3>1, AlikeTheSame
  <2>2. CASE j \in Len(u.ops) + 1 .. Len(w.ops)
    BY <2>2 DEF Extracts
  <2> QED BY <2>1, <2>2 DEF Extracts, Longer, IsList
<1> QED BY <1>1, <1>2 DEF Extracts

(* No change is an extract.                                                *)
LEMMA ExtractsNothing ==
  ASSUME NEW t, NEW u, IsList(t.ops), u.region = t.region, u.ops = t.ops,
         DOMAIN t.keyOf \subseteq DOMAIN u.keyOf
  PROVE  Extracts(t, u)
  BY DEF Extracts, Longer, Alike, IsList

(* While qubits are extracted, values stand for what they stood for.       *)
LEMMA CarriesStays ==
  ASSUME NEW t, NEW u, Extracts(t, u), NEW v, NEW text, Carries(t, v, text)
  PROVE  Carries(u, v, text)
<1>1. IsValue(u.ops, v) /\ TextOf(u.ops, v) = text
  BY ValuesStay DEF Extracts, Carries
<1>2. Alike(u.ops[v[1]], t.ops[v[1]]) /\ v[1] \in 1 .. Len(t.ops)
  BY DEF Extracts, Carries, IsValue, Longer
<1>3. ASSUME Acts(u.ops[v[1]]), NEW j \in v[1] + 1 .. Len(u.ops)
      PROVE  ~ Touches(u.ops[j], text)
  <2>1. CASE j \in v[1] + 1 .. Len(t.ops)
    <3>1. ~ Touches(t.ops[j], text)
      BY <1>2, <1>3, <2>1, AlikeTheSame DEF Carries, Untouched
    <3>2. Alike(u.ops[j], t.ops[j])
      BY <1>2, <2>1 DEF Extracts, Longer, IsList
    <3> QED BY <3>1, <3>2, AlikeTheSame
  <2>2. CASE j \in Len(t.ops) + 1 .. Len(u.ops)
    BY <2>2 DEF Extracts, Touches, IsTold
  <2> QED BY <1>2, <1>3, <2>1, <2>2 DEF Extracts, Longer, IsList
<1> QED BY <1>1, <1>2, <1>3 DEF Carries, Untouched, Alike, Extracts

(* An operation on values that stand for the qubits it is written on.      *)
LEMMA OperationIsGood ==
  ASSUME NEW t, NEW fresh, Good(t, fresh), NEW kind, NEW args, NEW on, NEW via,
         \A k \in DOMAIN args : Carries(t, args[k], on[k]),
         NEW kept \in SUBSET fresh
  PROVE  LET u == Emit(t, kind, args, on, via)
         IN  (\A x : Key(x) \in kept => ~ Touches(u.ops[Len(u.ops)], x)) => Good(u, kept)
<1> DEFINE u == Emit(t, kind, args, on, via)
           n == Len(u.ops)
<1>1. /\ SameTables(t, u) /\ Longer(t.ops, u.ops) /\ n = Len(t.ops) + 1
      /\ u.ops[n] = [kind |-> kind, region |-> t.region, args |-> args, on |-> on, via |-> via]
  BY Emitted DEF Good, Shape, OpsInv
<1> HIDE DEF u
<1>2. Len(t.ops) \in Nat
  BY DEF Good, OpsInv, IsList
<1>3. ASSUME NEW k \in DOMAIN args PROVE Reads(u.ops, n, k)
  <2> DEFINE v == args[k]
  <2>1. Carries(t, v, on[k]) /\ u.ops[n].args[k] = v /\ u.ops[n].on[k] = on[k]
        /\ u.ops[n].region = t.region
    BY <1>1
  <2>2. IsValue(u.ops, v) /\ TextOf(u.ops, v) = on[k]
    BY <1>1, <2>1, ValuesStay DEF Carries
  <2>3. v[1] \in 1 .. Len(t.ops) /\ Alike(u.ops[v[1]], t.ops[v[1]])
    BY <1>1, <2>1 DEF Carries, IsValue, Longer
  <2>4. \/ u.ops[v[1]].kind \in {"call", "modified"} \/ on[k] = "s"
        \/ Within(u.ops[v[1]].region, t.region)
    BY <2>1, <2>3 DEF Carries, Alike
  <2>5. ASSUME Acts(u.ops[v[1]]), NEW j \in v[1] + 1 .. n - 1
        PROVE  ~ Touches(u.ops[j], on[k])
    <3>1. j \in v[1] + 1 .. Len(t.ops) /\ Acts(t.ops[v[1]])
      BY <1>1, <1>2, <2>3, <2>5, AlikeTheSame
    <3>2. ~ Touches(t.ops[j], on[k]) /\ Alike(u.ops[j], t.ops[j])
      BY <1>1, <1>2, <2>1, <2>3, <3>1 DEF Carries, Untouched, Longer
    <3> QED BY <3>2, AlikeTheSame
  <2> QED BY <1>1, <1>2, <2>1, <2>2, <2>3, <2>4, <2>5 DEF Reads, IsValue
<1>4. SUFFICES ASSUME \A x : Key(x) \in kept => ~ Touches(u.ops[n], x)
               PROVE  Good(u, kept)
  BY DEF u
<1>5. \A j \in Len(t.ops) + 1 .. Len(u.ops) : j = n
  BY <1>1, <1>2
<1>6. \A i \in Len(t.ops) + 1 .. Len(u.ops) : \A k \in DOMAIN u.ops[i].args : Reads(u.ops, i, k)
  BY <1>1, <1>3, <1>5
<1>7. \A j \in Len(t.ops) + 1 .. Len(u.ops) : \A x : Key(x) \in kept => ~ Touches(u.ops[j], x)
  BY <1>4, <1>5
<1> QED BY <1>1, <1>6, <1>7, GrownIsGood

-----------------------------------------------------------------------------
(* Lookup finds an entry of one of the scopes.                             *)
LEMMA Found ==
  ASSUME NEW t, IsList(t.scopes), NEW key, has_symbol(t, key)
  PROVE  \E i \in 1 .. Len(t.scopes) :
           key \in DOMAIN t.scopes[i] /\ get_symbol(t, key) = t.scopes[i][key]
<1> DEFINE T == {i \in DOMAIN t.scopes : key \in DOMAIN t.scopes[i]}
<1>1. DOMAIN t.scopes = 1 .. Len(t.scopes) /\ Len(t.scopes) \in Nat
  BY DEF IsList
<1>2. T \in SUBSET Nat /\ T # {} /\ \A i \in T : i <= Len(t.scopes)
  BY <1>1 DEF has_symbol
<1>3. PICK m \in T : \A i \in T : i <= m
  <2> HIDE DEF T
  <2> QED BY <1>1, <1>2, GreatestNatural
<1>4. Max(T) \in T
  <2>1. \E h \in T : \A i \in T : h >= i
    BY <1>1, <1>3
  <2> HIDE DEF T
  <2> QED BY <2>1, Zenon DEF Max
<1>5. get_symbol(t, key) = t.scopes[Max(T)][key]
  BY Zenon DEF get_symbol
<1> QED BY <1>1, <1>4, <1>5

(* A region with nothing after it is in itself.                            *)
LEMMA HereIsWithin ==
  ASSUME NEW t, Shape(t)
  PROVE  /\ IsList(t.region) /\ Within(t.region, t.region) /\ Within(<<>>, t.region)
         /\ RegionOf(t, Len(t.scopes)) = t.region
         /\ Len(t.scopes) \in Nat /\ Len(t.scopes) >= 1 /\ DOMAIN t.scopes = 1 .. Len(t.scopes)
         /\ Len(t.blocks) \in Nat /\ DOMAIN t.blocks = 1 .. Len(t.blocks)
         /\ \A i \in 1 .. Len(t.scopes) : Within(RegionOf(t, i), t.region)
<1>1. /\ Len(t.scopes) \in Nat /\ Len(t.scopes) >= 1 /\ DOMAIN t.scopes = 1 .. Len(t.scopes)
      /\ Len(t.blocks) \in Nat /\ DOMAIN t.blocks = 1 .. Len(t.blocks)
  BY DEF Shape, IsList
<1>2. RegionOf(t, Len(t.scopes)) = t.region
  BY DEF RegionOf
<1>3. \A i \in 1 .. Len(t.scopes) : Within(RegionOf(t, i), t.region)
  BY <1>1, <1>2 DEF Shape
<1>4. Within(t.region, t.region)
  BY <1>1, <1>2, <1>3
<1>5. IsList(t.region)
  BY <1>4 DEF Within
<1> QED BY <1>1, <1>2, <1>3, <1>4, <1>5, WithinTheProgram

(* A qubit of a register extracted.                                        *)
LEMMA ExtractIsGood ==
  ASSUME NEW t, NEW fresh, Good(t, fresh), NEW text, NEW via
  PROVE  LET u == Extract(t, text, via)
         IN  /\ Good(u, fresh) /\ SameTables(t, u) /\ Extracts(t, u)
             /\ Carries(u, LastValue(u), text) /\ LastValue(u)[1] = Len(t.ops) + 1
             /\ LastValue(u) = <<Len(t.ops) + 1, 1>>
             /\ LastValue(u) \notin DOMAIN u.keyOf
             /\ u.ops[LastValue(u)[1]].kind = "extract"
             /\ u.ops[LastValue(u)[1]].region = t.region
<1> DEFINE u == Extract(t, text, via)
           n == Len(u.ops)
<1>1. /\ SameTables(t, u) /\ Longer(t.ops, u.ops) /\ n = Len(t.ops) + 1
      /\ u.ops[n] = [kind |-> "extract", region |-> t.region, args |-> <<Register>>,
                     on |-> <<text>>, via |-> via]
  BY Emitted DEF Good, Shape, OpsInv, Extract
<1> HIDE DEF u
<1>2. Len(t.ops) \in Nat /\ Len(t.ops) >= 2 /\ t.ops[1].region = <<>>
  BY DEF Good, OpsInv, IsList
<1>3. ~ Acts(u.ops[n])
  BY <1>1 DEF Acts
<1>4. \A i \in Len(t.ops) + 1 .. Len(u.ops) : i = n
  BY <1>1, <1>2
<1>5. ASSUME NEW k \in DOMAIN u.ops[n].args PROVE Reads(u.ops, n, k)
  <2>1. u.ops[n].args[k] = <<1, 1>> /\ u.ops[1].region = <<>>
    BY <1>1, <1>2 DEF Register, Longer, Alike
  <2>2. Within(u.ops[1].region, u.ops[n].region)
    BY <1>1, <2>1, HereIsWithin DEF Good
  <2> QED BY <1>1, <1>2, <1>3, <2>1, <2>2 DEF Reads
<1>6. Good(u, fresh)
  <2>1. \A i \in Len(t.ops) + 1 .. Len(u.ops) : \A k \in DOMAIN u.ops[i].args : Reads(u.ops, i, k)
    BY <1>4, <1>5
  <2>2. \A j \in Len(t.ops) + 1 .. Len(u.ops) : \A x : Key(x) \in fresh => ~ Touches(u.ops[j], x)
    BY <1>3, <1>4 DEF Touches, IsTold
  <2> QED BY <1>1, <2>1, <2>2, GrownIsGood
<1>7. Extracts(t, u)
  BY <1>1, <1>3, <1>4 DEF Extracts, SameTables
<1>8. LastValue(u) = <<n, 1>> /\ LastValue(u)[1] = n /\ LastValue(u)[2] = 1
  BY DEF LastValue
<1>9. LastValue(u) \notin DOMAIN u.keyOf
  BY <1>1, <1>2, <1>8 DEF Good, Symbols, IsValue, SameTables
<1>10. Carries(u, LastValue(u), text)
  <2>1. IsValue(u.ops, LastValue(u)) /\ TextOf(u.ops, LastValue(u)) = text
    BY <1>1, <1>2, <1>8 DEF IsValue, TextOf
  <2>2. Within(u.ops[n].region, u.region)
    BY <1>1, HereIsWithin DEF Good, SameTables
  <2> QED BY <1>3, <1>8, <2>1, <2>2 DEF Carries, Untouched
<1> QED BY <1>1, <1>6, <1>7, <1>8, <1>9, <1>10 DEF u

(* A qubit just extracted gets its name, in the innermost scope.           *)
LEMMA AddIsGood ==
  ASSUME NEW t, NEW fresh, Good(t, fresh), NEW text, NEW v, Carries(t, v, text),
         v \notin DOMAIN t.keyOf, Within(t.ops[v[1]].region, t.region)
  PROVE  LET u == add_symbol(t, Key(text), v)
         IN  /\ Good(u, fresh) /\ Extracts(t, u) /\ v \in DOMAIN u.keyOf
             /\ u.ops = t.ops /\ u.region = t.region
             /\ \A key : has_symbol(u, key) => has_symbol(t, key) \/ key = Key(text)
<1> DEFINE u == add_symbol(t, Key(text), v)
           m == Len(t.scopes)
<1>1. /\ DOMAIN u = DOMAIN t /\ u.ops = t.ops /\ u.region = t.region /\ u.blocks = t.blocks
      /\ u.scopes = [t.scopes EXCEPT ![m] = Assigned(@, Key(text), v)]
      /\ u.keyOf = Assigned(t.keyOf, v, Key(text))
  BY DEF add_symbol, Inserted, Good, Shape
<1> HIDE DEF u
<1>2. m \in Nat /\ m >= 1 /\ DOMAIN t.scopes = 1 .. m /\ RegionOf(t, m) = t.region
  BY HereIsWithin DEF Good
<1>3. /\ IsList(u.scopes) /\ Len(u.scopes) = m
      /\ \A i \in 1 .. m : i # m => u.scopes[i] = t.scopes[i]
      /\ DOMAIN u.scopes[m] = DOMAIN t.scopes[m] \cup {Key(text)}
      /\ u.scopes[m][Key(text)] = v
      /\ \A key \in DOMAIN t.scopes[m] : key # Key(text) => u.scopes[m][key] = t.scopes[m][key]
  <2>1. u.scopes = [i \in 1 .. m |-> IF i = m THEN Assigned(t.scopes[m], Key(text), v) ELSE t.scopes[i]]
    BY <1>1, <1>2
  <2>2. IsList(u.scopes) /\ Len(u.scopes) = m
    BY <1>2, <2>1 DEF IsList
  <2>3. u.scopes[m] = Assigned(t.scopes[m], Key(text), v)
    BY <1>2, <2>1
  <2>4. \A i \in 1 .. m : i # m => u.scopes[i] = t.scopes[i]
    BY <2>1
  <2> QED BY <2>2, <2>3, <2>4 DEF Assigned
<1>4. /\ DOMAIN u.keyOf = DOMAIN t.keyOf \cup {v} /\ u.keyOf[v] = Key(text)
      /\ \A w \in DOMAIN t.keyOf : u.keyOf[w] = t.keyOf[w]
  BY <1>1 DEF Assigned
<1>5. \A i \in 1 .. m : RegionOf(u, i) = RegionOf(t, i)
  BY <1>1, <1>3 DEF RegionOf
<1>6. Shape(u)
  BY <1>1, <1>3, <1>5 DEF Good, Shape
<1>7. OpsInv(u)
  BY <1>1 DEF Good, OpsInv
<1>8. ASSUME NEW i \in 1 .. Len(u.scopes), NEW key \in DOMAIN u.scopes[i]
      PROVE  Entry(u, i, key, fresh)
  <2>1. CASE i = m /\ key = Key(text)
    BY <1>1, <1>2, <1>3, <1>4, <1>5, <2>1 DEF Entry, Carries
  <2>2. CASE ~ (i = m /\ key = Key(text))
    <3>1. /\ i \in 1 .. Len(t.scopes) /\ key \in DOMAIN t.scopes[i]
          /\ u.scopes[i][key] = t.scopes[i][key]
      BY <1>3, <2>2
    <3>2. Entry(t, i, key, fresh)
      BY <3>1 DEF Good, Symbols
    <3> QED BY <1>1, <1>4, <1>5, <3>1, <3>2 DEF Entry
  <2> QED BY <2>1, <2>2
<1>9. Symbols(u, fresh)
  <2>1. ScalarName \in DOMAIN u.scopes[1]
    BY <1>2, <1>3 DEF Good, Symbols
  <2>2. \A w \in DOMAIN u.keyOf : IsValue(u.ops, w) /\ u.keyOf[w] = Key(TextOf(u.ops, w))
    BY <1>1, <1>4 DEF Good, Symbols, Carries
  <2> QED BY <1>8, <2>1, <2>2, Zenon DEF Symbols
<1>10. Extracts(t, u)
  BY <1>1, <1>4, ExtractsNothing DEF Good, OpsInv
<1>11. \A key : has_symbol(u, key) => has_symbol(t, key) \/ key = Key(text)
  <2>1. DOMAIN u.scopes = 1 .. m
    BY <1>3 DEF IsList
  <2> QED BY <1>2, <1>3, <2>1 DEF has_symbol
<1> QED BY <1>1, <1>4, <1>6, <1>7, <1>9, <1>10, <1>11 DEF u, Good

(* Names of qubits are forgotten: there is nothing left to be the last.    *)
LEMMA EraseIsGood ==
  ASSUME NEW t, NEW fresh, Good(t, fresh), NEW keys, ScalarName \notin keys
  PROVE  LET u == erase_symbols(t, keys)
         IN  /\ Good(u, fresh \cup keys) /\ Extracts(t, u)
             /\ u.ops = t.ops /\ u.region = t.region /\ u.keyOf = t.keyOf
             /\ \A key : has_symbol(u, key) <=> has_symbol(t, key) /\ key \notin keys
<1> DEFINE u == erase_symbols(t, keys)
           m == Len(t.scopes)
<1>1. /\ DOMAIN u = DOMAIN t /\ u.ops = t.ops /\ u.region = t.region /\ u.blocks = t.blocks
      /\ u.keyOf = t.keyOf
      /\ u.scopes = [i \in DOMAIN t.scopes |->
                       Restrict(t.scopes[i], DOMAIN t.scopes[i] \ keys)]
  BY DEF erase_symbols, Good, Shape
<1> HIDE DEF u
<1>2. m \in Nat /\ m >= 1 /\ DOMAIN t.scopes = 1 .. m
  BY HereIsWithin DEF Good
<1>3. /\ IsList(u.scopes) /\ Len(u.scopes) = m /\ DOMAIN u.scopes = 1 .. m
      /\ \A i \in 1 .. m : /\ DOMAIN u.scopes[i] = DOMAIN t.scopes[i] \ keys
                           /\ \A key \in DOMAIN u.scopes[i] : u.scopes[i][key] = t.scopes[i][key]
  <2>1. IsList(u.scopes) /\ Len(u.scopes) = m /\ DOMAIN u.scopes = 1 .. m
    BY <1>1, <1>2 DEF IsList
  <2>2. \A i \in 1 .. m : u.scopes[i] = Restrict(t.scopes[i], DOMAIN t.scopes[i] \ keys)
    BY <1>1, <1>2
  <2> QED BY <2>1, <2>2 DEF Restrict
<1>4. \A i \in 1 .. m : RegionOf(u, i) = RegionOf(t, i)
  BY <1>1, <1>3 DEF RegionOf
<1>5. Shape(u) /\ OpsInv(u)
  BY <1>1, <1>3, <1>4 DEF Good, Shape, OpsInv
<1>6. ASSUME NEW i \in 1 .. Len(u.scopes), NEW key \in DOMAIN u.scopes[i]
      PROVE  Entry(u, i, key, fresh \cup keys)
  <2>1. /\ i \in 1 .. m /\ key \in DOMAIN t.scopes[i] /\ key \notin keys
        /\ u.scopes[i][key] = t.scopes[i][key]
    BY <1>3
  <2>2. Entry(t, i, key, fresh)
    BY <2>1 DEF Good, Symbols
  <2> QED BY <1>1, <1>4, <2>1, <2>2 DEF Entry
<1>7. Symbols(u, fresh \cup keys)
  <2>1. ScalarName \in DOMAIN u.scopes[1]
    BY <1>2, <1>3 DEF Good, Symbols
  <2>2. \A w \in DOMAIN u.keyOf : IsValue(u.ops, w) /\ u.keyOf[w] = Key(TextOf(u.ops, w))
    BY <1>1 DEF Good, Symbols
  <2> QED BY <1>6, <2>1, <2>2, Zenon DEF Symbols
<1>8. Extracts(t, u)
  BY <1>1, ExtractsNothing DEF Good, OpsInv
<1>9. \A key : has_symbol(u, key) <=> has_symbol(t, key) /\ key \notin keys
  BY <1>2, <1>3 DEF has_symbol
<1> QED BY <1>1, <1>5, <1>7, <1>8, <1>9 DEF u, Good

(* The name of a value is given to one that the last operation returned in *)
(* its place: the key of the qubit, if the table has it, is fresh.         *)
LEMMA ReplaceIsGood ==
  ASSUME NEW t, NEW fresh, Good(t, fresh), NEW text, NEW old, NEW new,
         IsValue(t.ops, old), TextOf(t.ops, old) = text,
         IsValue(t.ops, new), TextOf(t.ops, new) = text,
         new[1] = Len(t.ops), t.ops[new[1]].kind # "extract"
  PROVE  LET u == replace_symbol(t, old, new)
         IN  /\ Good(u, IF old \in DOMAIN t.keyOf THEN fresh \cup {Key(text)} ELSE fresh)
             /\ u.ops = t.ops /\ u.region = t.region
             /\ DOMAIN t.keyOf \subseteq DOMAIN u.keyOf
             /\ \A key : has_symbol(u, key) <=> has_symbol(t, key)
             /\ old \in DOMAIN t.keyOf /\ has_symbol(t, Key(text)) => new \in DOMAIN u.keyOf
<1> DEFINE u == replace_symbol(t, old, new)
           m == Len(t.scopes)
           after == IF old \in DOMAIN t.keyOf THEN fresh \cup {Key(text)} ELSE fresh
<1>1. m \in Nat /\ m >= 1 /\ DOMAIN t.scopes = 1 .. m
  BY HereIsWithin DEF Good
<1>2. \A i \in 1 .. m : \A key \in DOMAIN t.scopes[i] : Entry(t, i, key, fresh)
  BY DEF Good, Symbols
<1>3. \A i \in 1 .. m : Anonymous \notin DOMAIN t.scopes[i]
  BY <1>2, KeysDiffer DEF Entry, Good, Symbols
<1>4. CASE old \notin DOMAIN t.keyOf
  <2>1. ~ has_symbol(t, Anonymous)
    BY <1>1, <1>3 DEF has_symbol
  <2>2. u = t
    BY <1>4, <2>1 DEF replace_symbol, get_symbol_var_name
  <2> QED BY <1>4, <2>2
<1>5. CASE old \in DOMAIN t.keyOf
  <2>1. get_symbol_var_name(t, old) = Key(text)
    BY <1>5 DEF get_symbol_var_name, Good, Symbols
  <2>2. CASE ~ has_symbol(t, Key(text))
    <3>1. u = t
      BY <2>1, <2>2 DEF replace_symbol
    <3>2. \A i \in 1 .. m : Key(text) \notin DOMAIN t.scopes[i]
      BY <1>1, <2>2 DEF has_symbol
    <3>3. Symbols(t, after)
      BY <1>2, <1>5, <3>2 DEF Good, Symbols, Entry
    <3> QED BY <2>2, <3>1, <3>3 DEF Good
  <2>3. CASE has_symbol(t, Key(text))
    <3>1. /\ DOMAIN u = DOMAIN t /\ u.ops = t.ops /\ u.region = t.region /\ u.blocks = t.blocks
          /\ u.scopes = [i \in DOMAIN t.scopes |->
                           IF Key(text) \in DOMAIN t.scopes[i]
                           THEN [t.scopes[i] EXCEPT ![Key(text)] = new] ELSE t.scopes[i]]
          /\ u.keyOf = Assigned(t.keyOf, new, Key(text))
      BY <2>1, <2>3 DEF replace_symbol, Good, Shape
    <3> HIDE DEF u
    <3>2. /\ IsList(u.scopes) /\ Len(u.scopes) = m /\ DOMAIN u.scopes = 1 .. m
          /\ \A i \in 1 .. m :
               /\ DOMAIN u.scopes[i] = DOMAIN t.scopes[i]
               /\ \A key \in DOMAIN u.scopes[i] :
                    u.scopes[i][key] = IF key = Key(text) THEN new ELSE t.scopes[i][key]
      <4>1. IsList(u.scopes) /\ Len(u.scopes) = m /\ DOMAIN u.scopes = 1 .. m
        BY <1>1, <3>1 DEF IsList
      <4>2. \A i \in 1 .. m : u.scopes[i] = IF Key(text) \in DOMAIN t.scopes[i]
                           THEN [t.scopes[i] EXCEPT ![Key(text)] = new] ELSE t.scopes[i]
        BY <1>1, <3>1
      <4> QED BY <4>1, <4>2
    <3>3. /\ DOMAIN u.keyOf = DOMAIN t.keyOf \cup {new} /\ u.keyOf[new] = Key(text)
          /\ \A w \in DOMAIN t.keyOf : u.keyOf[w] = t.keyOf[w]
      <4>1. new \in DOMAIN t.keyOf => t.keyOf[new] = Key(text)
        BY DEF Good, Symbols
      <4> QED BY <3>1, <4>1 DEF Assigned
    <3>4. \A i \in 1 .. m : RegionOf(u, i) = RegionOf(t, i)
      BY <3>1, <3>2 DEF RegionOf
    <3>5. Shape(u) /\ OpsInv(u)
      BY <3>1, <3>2, <3>4 DEF Good, Shape, OpsInv
    <3>6. ASSUME NEW i \in 1 .. Len(u.scopes), NEW key \in DOMAIN u.scopes[i]
          PROVE  Entry(u, i, key, after)
      <4>1. /\ i \in 1 .. m /\ key \in DOMAIN t.scopes[i]
            /\ u.scopes[i][key] = IF key = Key(text) THEN new ELSE t.scopes[i][key]
        BY <3>2
      <4>2. CASE key = Key(text)
        <5>1. Untouched(u.ops, new, TextOf(u.ops, new))
          <6>1. Len(t.ops) \in Nat
            BY DEF Good, OpsInv, IsList
          <6> QED BY <3>1, <6>1 DEF Untouched
        <5> QED BY <3>1, <3>3, <4>1, <4>2, <5>1 DEF Entry
      <4>3. CASE key # Key(text)
        <5>1. Entry(t, i, key, fresh) /\ u.scopes[i][key] = t.scopes[i][key]
          BY <1>2, <4>1, <4>3
        <5> QED BY <3>1, <3>3, <3>4, <4>1, <4>3, <5>1 DEF Entry
      <4> QED BY <4>2, <4>3
    <3>7. Symbols(u, after)
      <4>1. ScalarName \in DOMAIN u.scopes[1]
        BY <1>1, <3>2 DEF Good, Symbols
      <4>2. \A w \in DOMAIN u.keyOf : IsValue(u.ops, w) /\ u.keyOf[w] = Key(TextOf(u.ops, w))
        BY <3>1, <3>3 DEF Good, Symbols
      <4> HIDE DEF after
      <4> QED BY <3>6, <4>1, <4>2, Zenon DEF Symbols
    <3>8. \A key : has_symbol(u, key) <=> has_symbol(t, key)
      BY <1>1, <3>2 DEF has_symbol
    <3> QED BY <3>1, <3>3, <3>5, <3>7, <3>8 DEF u, Good
  <2> QED BY <2>2, <2>3
<1> QED BY <1>4, <1>5

-----------------------------------------------------------------------------
(* Extracting a qubit, and naming the value if the qubit has none.         *)
LEMMA FreshIsGood ==
  ASSUME NEW t, NEW fresh, Good(t, fresh), NEW text, text # "s", NEW via
  PROVE  LET q == Fresh(t, text, via)
         IN  /\ Good(q.unit, fresh) /\ Extracts(t, q.unit) /\ Carries(q.unit, q.value, text)
             /\ ~ has_symbol(t, Key(text)) => q.value \in DOMAIN q.unit.keyOf
             /\ \A key : has_symbol(q.unit, key) => has_symbol(t, key) \/ key = Key(text)
<1> DEFINE u == Extract(t, text, via)
           v == LastValue(u)
           w == add_symbol(u, Key(text), v)
           q == Fresh(t, text, via)
<1>1. /\ Good(u, fresh) /\ SameTables(t, u) /\ Extracts(t, u) /\ Carries(u, v, text)
      /\ v \notin DOMAIN u.keyOf /\ u.ops[v[1]].region = t.region
  BY ExtractIsGood
<1>2. q = Qubit(IF has_symbol(u, Key(text)) THEN u ELSE w, v)
  BY Zenon DEF Fresh, Key
<1> HIDE DEF u, v, q
<1>3. \A key : has_symbol(u, key) <=> has_symbol(t, key)
  BY <1>1, Zenon DEF SameTables, has_symbol
<1>4. Within(u.ops[v[1]].region, u.region)
  BY <1>1, HereIsWithin DEF Good, SameTables
<1>5. CASE has_symbol(t, Key(text))
  <2>1. q.unit = u /\ q.value = v
    BY <1>2, <1>3, <1>5 DEF Qubit
  <2> QED BY <1>1, <1>3, <1>5, <2>1 DEF q
<1>6. CASE ~ has_symbol(t, Key(text))
  <2>1. q.unit = w /\ q.value = v
    BY <1>2, <1>3, <1>6 DEF Qubit
  <2>2. /\ Good(w, fresh) /\ Extracts(u, w) /\ v \in DOMAIN w.keyOf
        /\ \A key : has_symbol(w, key) => has_symbol(u, key) \/ key = Key(text)
    BY <1>1, <1>4, AddIsGood
  <2> HIDE DEF w
  <2>3. Extracts(t, w)
    BY <1>1, <2>2, ExtractsOneMore
  <2>4. Carries(w, v, text)
    BY <1>1, <2>2, CarriesStays
  <2> QED BY <1>3, <2>1, <2>2, <2>3, <2>4 DEF q
<1> QED BY <1>5, <1>6

(* What the table has for a fresh key is the qubit as the last operation   *)
(* left it.                                                                *)
LEMMA FoundIsLast ==
  ASSUME NEW t, NEW fresh, Good(t, fresh), NEW text, Key(text) \in fresh,
         has_symbol(t, Key(text)),
         text = "s" \/ verify_qubit_ssa_dominance_property(t, get_symbol(t, Key(text)))
  PROVE  LET v == get_symbol(t, Key(text))
         IN  Carries(t, v, text) /\ v \in DOMAIN t.keyOf
<1> DEFINE v == get_symbol(t, Key(text))
<1>1. PICK i \in 1 .. Len(t.scopes) : Key(text) \in DOMAIN t.scopes[i] /\ v = t.scopes[i][Key(text)]
  BY Found DEF Good, Shape
<1> HIDE DEF v
<1>2. Entry(t, i, Key(text), fresh)
  BY <1>1 DEF Good, Symbols
<1>3. v \in DOMAIN t.keyOf /\ IsValue(t.ops, v) /\ Key(text) = Key(TextOf(t.ops, v))
  BY <1>1, <1>2 DEF Entry, Good, Symbols
<1>4. TextOf(t.ops, v) = text
  BY <1>3, KeysDiffer
<1>5. Untouched(t.ops, v, text)
  BY <1>1, <1>2, <1>4 DEF Entry
<1>6. \/ t.ops[v[1]].kind \in {"call", "modified"} \/ text = "s"
      \/ Within(t.ops[v[1]].region, t.region)
  <2>1. CASE t.ops[v[1]].kind = "extract"
    <3>1. Within(t.ops[v[1]].region, RegionOf(t, i))
      BY <1>1, <1>2, <2>1 DEF Entry
    <3>2. Within(RegionOf(t, i), t.region)
      BY HereIsWithin DEF Good
    <3> QED BY <3>1, <3>2, WithinOneMore
  <2>2. CASE t.ops[v[1]].kind = "gate" /\ text # "s"
    <3>1. t.ops[v[1]].region = t.region
      BY <2>2 DEF v, verify_qubit_ssa_dominance_property
    <3> QED BY <3>1, HereIsWithin DEF Good
  <2> QED BY <1>3, <2>1, <2>2 DEF IsValue
<1> QED BY <1>3, <1>4, <1>5, <1>6 DEF Carries, v

(* get_or_extract_qubit: the value in the table if it may be read here, a  *)
(* new one, under the same name, if not.                                   *)
LEMMA GetIsGood ==
  ASSUME NEW t, NEW fresh, Good(t, fresh), NEW text \in Constants, Key(text) \in fresh
  PROVE  LET q == get_or_extract_qubit(t, text)
         IN  /\ Good(q.unit, fresh) /\ Extracts(t, q.unit) /\ Carries(q.unit, q.value, text)
             /\ q.value \in DOMAIN q.unit.keyOf
             /\ \A key : has_symbol(q.unit, key) => has_symbol(t, key) \/ key = Key(text)
<1> DEFINE q == get_or_extract_qubit(t, text)
           e == erase_symbol(t, Key(text))
<1>1. text # "s" /\ array_qubit_symbol_name(text) = Key(text)
  BY TextsDiffer, KeysDiffer
<1>2. q = IF ~ has_symbol(t, Key(text)) THEN Fresh(t, text, "name")
          ELSE IF verify_qubit_ssa_dominance_property(t, get_symbol(t, Key(text)))
               THEN Qubit(t, get_symbol(t, Key(text)))
               ELSE Fresh(e, text, "name")
  BY <1>1, Zenon DEF get_or_extract_qubit
<1> HIDE DEF q
<1>3. CASE ~ has_symbol(t, Key(text))
  <2>1. q = Fresh(t, text, "name")
    BY <1>2, <1>3
  <2> QED BY <1>1, <1>3, <2>1, FreshIsGood DEF q
<1>4. CASE has_symbol(t, Key(text))
           /\ verify_qubit_ssa_dominance_property(t, get_symbol(t, Key(text)))
  <2>1. q.unit = t /\ q.value = get_symbol(t, Key(text))
    BY <1>2, <1>4 DEF Qubit
  <2>2. Carries(t, get_symbol(t, Key(text)), text) /\ get_symbol(t, Key(text)) \in DOMAIN t.keyOf
    BY <1>4, FoundIsLast
  <2>3. Extracts(t, t)
    BY ExtractsNothing DEF Good, OpsInv
  <2> QED BY <2>1, <2>2, <2>3 DEF q
<1>5. CASE has_symbol(t, Key(text))
           /\ ~ verify_qubit_ssa_dominance_property(t, get_symbol(t, Key(text)))
  <2>1. q = Fresh(e, text, "name")
    BY <1>2, <1>5
  <2>2. ScalarName \notin {Key(text)}
    BY <1>1, KeysDiffer
  <2>3. /\ Good(e, fresh \cup {Key(text)}) /\ Extracts(t, e)
        /\ \A key : has_symbol(e, key) <=> has_symbol(t, key) /\ key \notin {Key(text)}
    BY <2>2, EraseIsGood DEF erase_symbol
  <2> HIDE DEF e
  <2>4. fresh \cup {Key(text)} = fresh
    OBVIOUS
  <2>5. Good(e, fresh) /\ ~ has_symbol(e, Key(text))
    BY <2>3, <2>4
  <2>6. /\ Good(q.unit, fresh) /\ Extracts(e, q.unit) /\ Carries(q.unit, q.value, text)
        /\ q.value \in DOMAIN q.unit.keyOf
        /\ \A key : has_symbol(q.unit, key) => has_symbol(e, key) \/ key = Key(text)
    BY <1>1, <2>1, <2>5, FreshIsGood
  <2>7. Extracts(t, q.unit)
    BY <2>3, <2>6, ExtractsOneMore
  <2> QED BY <2>3, <2>6, <2>7 DEF q
<1> QED BY <1>3, <1>4, <1>5

(* invalidate_qubit_extracts: no constant index has a value.               *)
LEMMA InvalidateIsGood ==
  ASSUME NEW t, NEW fresh, Good(t, fresh)
  PROVE  LET u == invalidate_qubit_extracts(t)
         IN  /\ Good(u, fresh \cup {Key(x) : x \in Constants}) /\ Extracts(t, u) /\ u.ops = t.ops
             /\ \A x \in Constants : ~ has_symbol(u, Key(x))
             /\ \A key : has_symbol(u, key) => has_symbol(t, key)
<1> DEFINE K == {Key(x) : x \in Constants}
<1>1. {array_qubit_symbol_name(IndexText[k]) : k \in DOMAIN IndexText} = K
  <2>1. \A k \in DOMAIN IndexText : array_qubit_symbol_name(IndexText[k]) = Key(IndexText[k])
    BY KeysDiffer, TextsDiffer, Zenon
  <2> QED BY <2>1 DEF Constants
<1>2. invalidate_qubit_extracts(t) = erase_symbols(t, K)
  BY <1>1, Zenon DEF invalidate_qubit_extracts
<1>3. ScalarName \notin K
  BY KeysDiffer, TextsDiffer
<1>4. \A x \in Constants : Key(x) \in K
  OBVIOUS
<1> HIDE DEF K
<1>5. /\ Good(erase_symbols(t, K), fresh \cup K) /\ Extracts(t, erase_symbols(t, K))
      /\ erase_symbols(t, K).ops = t.ops
      /\ \A key : has_symbol(erase_symbols(t, K), key) <=> has_symbol(t, key) /\ key \notin K
  BY <1>3, EraseIsGood
<1> QED BY <1>2, <1>4, <1>5 DEF K

-----------------------------------------------------------------------------
(* The operand a gate names, with the table kept.  At the loop's variable  *)
(* no constant index is left in it.                                        *)
LEMMA OperandIsGood ==
  ASSUME NEW t, Good(t, Keys), NEW text \in Texts
  PROVE  LET q == Operand(t, text)
         IN  /\ Good(q.unit, Keys) /\ Extracts(t, q.unit) /\ Carries(q.unit, q.value, text)
             /\ text \in Named => q.value \in DOMAIN q.unit.keyOf
             /\ \A key : has_symbol(q.unit, key) => has_symbol(t, key) \/ key = Key(text)
             /\ text = "i" => \A x \in Constants : ~ has_symbol(q.unit, Key(x))
<1> DEFINE q == Operand(t, text)
           e == invalidate_qubit_extracts(t)
<1>1. /\ "s" \notin Constants /\ "i" \notin Constants /\ "n-i" \notin Constants
      /\ Named = Constants \cup {"s"} /\ text \in Constants \cup {"s", "i", "n-i"}
  BY TextsDiffer DEF Texts
<1>2. CASE text = "s"
  <2>0. ~ IsConstant(text)
    BY <1>1, <1>2, TextsDiffer
  <2>1. q.unit = t /\ q.value = get_symbol(t, ScalarName)
    BY <1>2, <2>0 DEF Operand, Qubit
  <2>2. ScalarName = Key(text) /\ Key(text) \in Keys
    BY <1>2, KeysDiffer DEF Keys
  <2>3. has_symbol(t, Key(text))
    <3>1. 1 \in DOMAIN t.scopes
      BY HereIsWithin DEF Good
    <3> QED BY <2>2, <3>1 DEF Good, Symbols, has_symbol
  <2>4. Carries(t, q.value, text) /\ q.value \in DOMAIN t.keyOf
    BY <1>2, <2>1, <2>2, <2>3, FoundIsLast
  <2>5. Extracts(t, t)
    BY ExtractsNothing DEF Good, OpsInv
  <2> HIDE DEF q
  <2> QED BY <1>1, <1>2, <2>1, <2>4, <2>5 DEF q
<1>3. CASE text \in Constants
  <2>1. IsConstant(text) /\ text # "s" /\ text # "i" /\ Key(text) \in Keys
    BY <1>1, <1>3, TextsDiffer DEF Keys
  <2>2. q = get_or_extract_qubit(t, text)
    BY <2>1 DEF Operand
  <2> HIDE DEF q
  <2> QED BY <1>1, <1>3, <2>1, <2>2, GetIsGood DEF q
<1>4. CASE text = "i"
  <2>1. ~ IsConstant(text) /\ text # "s"
    BY <1>1, <1>4, TextsDiffer
  <2>2. q = Fresh(e, text, "variable")
    BY <1>4, <2>1 DEF Operand
  <2>3. /\ Good(e, Keys \cup {Key(x) : x \in Constants}) /\ Extracts(t, e)
        /\ \A x \in Constants : ~ has_symbol(e, Key(x))
        /\ \A key : has_symbol(e, key) => has_symbol(t, key)
    BY InvalidateIsGood
  <2>4. Keys \cup {Key(x) : x \in Constants} = Keys
    BY DEF Keys
  <2> HIDE DEF q, e
  <2>5. Good(e, Keys)
    BY <2>3, <2>4
  <2>6. /\ Good(q.unit, Keys) /\ Extracts(e, q.unit) /\ Carries(q.unit, q.value, text)
        /\ \A key : has_symbol(q.unit, key) => has_symbol(e, key) \/ key = Key(text)
    BY <2>1, <2>2, <2>5, FreshIsGood
  <2>7. Extracts(t, q.unit)
    BY <2>3, <2>6, ExtractsOneMore
  <2>8. \A x \in Constants : Key(x) # Key(text)
    BY <1>1, <1>4, KeysDiffer
  <2> QED BY <1>1, <1>4, <2>3, <2>6, <2>7, <2>8 DEF q
<1>5. CASE text = "n-i"
  <2>1. ~ IsConstant(text) /\ text # "s" /\ text # "i"
    BY <1>1, <1>5, TextsDiffer
  <2>2. q = Fresh(t, text, "expression")
    BY <2>1 DEF Operand
  <2> HIDE DEF q
  <2> QED BY <1>1, <1>5, <2>1, <2>2, FreshIsGood DEF q
<1> QED BY <1>1, <1>2, <1>3, <1>4, <1>5

(* The operands read so far: one value for each text, still good; and once *)
(* the loop's variable is among them, the table has no other constant.     *)
ReadSoFar(t, on, k, c) ==
  /\ Good(c.unit, Keys) /\ Extracts(t, c.unit)
  /\ IsList(c.values) /\ Len(c.values) = k
  /\ \A n \in 1 .. k : /\ Carries(c.unit, c.values[n], on[n])
                       /\ on[n] \in Named => c.values[n] \in DOMAIN c.unit.keyOf
  /\ (\E n \in 1 .. k : on[n] = "i") =>
       \A x \in Constants : has_symbol(c.unit, Key(x)) => \E n \in 1 .. k : on[n] = x

(* One operand more.                                                       *)
LEMMA ReadOneMore ==
  ASSUME NEW t, NEW on, NEW k \in Nat, on[k + 1] \in Texts, NEW c, ReadSoFar(t, on, k, c)
  PROVE  LET q == Operand(c.unit, on[k + 1])
         IN  ReadSoFar(t, on, k + 1, [unit |-> q.unit, values |-> Append(c.values, q.value)])
<1> DEFINE text == on[k + 1]
           q == Operand(c.unit, text)
           vs == Append(c.values, q.value)
<1>1. /\ Good(q.unit, Keys) /\ Extracts(c.unit, q.unit) /\ Carries(q.unit, q.value, text)
      /\ text \in Named => q.value \in DOMAIN q.unit.keyOf
      /\ \A key : has_symbol(q.unit, key) => has_symbol(c.unit, key) \/ key = Key(text)
      /\ text = "i" => \A x \in Constants : ~ has_symbol(q.unit, Key(x))
  BY OperandIsGood DEF ReadSoFar
<1> HIDE DEF q
<1>2. Extracts(t, q.unit)
  BY <1>1, ExtractsOneMore DEF ReadSoFar
<1>3. /\ IsList(vs) /\ Len(vs) = k + 1 /\ vs[k + 1] = q.value
      /\ \A n \in 1 .. k : vs[n] = c.values[n]
  BY ListAppends DEF ReadSoFar
<1> HIDE DEF vs
<1>4. ASSUME NEW n \in 1 .. k + 1
      PROVE  Carries(q.unit, vs[n], on[n]) /\ (on[n] \in Named => vs[n] \in DOMAIN q.unit.keyOf)
  <2>1. CASE n = k + 1
    BY <1>1, <1>3, <2>1
  <2>2. CASE n \in 1 .. k
    <3>1. Carries(c.unit, c.values[n], on[n])
          /\ (on[n] \in Named => c.values[n] \in DOMAIN c.unit.keyOf)
      BY <2>2 DEF ReadSoFar
    <3>2. Carries(q.unit, vs[n], on[n])
      BY <1>1, <1>3, <2>2, <3>1, CarriesStays
    <3> QED BY <1>1, <1>3, <2>2, <3>1, <3>2 DEF Extracts
  <2> QED BY <2>1, <2>2
<1>5. ASSUME \E n \in 1 .. k + 1 : on[n] = "i", NEW x \in Constants, has_symbol(q.unit, Key(x))
      PROVE  \E n \in 1 .. k + 1 : on[n] = x
  <2>1. CASE x = text
    BY <2>1
  <2>2. CASE x # text
    <3>1. text # "i" /\ has_symbol(c.unit, Key(x))
      BY <1>1, <1>5, <2>2, KeysDiffer
    <3>2. \E n \in 1 .. k : on[n] = "i"
      BY <1>5, <3>1
    <3>3. \E n \in 1 .. k : on[n] = x
      BY <3>1, <3>2 DEF ReadSoFar
    <3> QED BY <3>3
  <2> QED BY <2>1, <2>2
<1> QED BY <1>1, <1>2, <1>3, <1>4, <1>5 DEF ReadSoFar, q, vs

(* The next operand.                                                       *)
ReadNext(c, text) ==
  LET q == Operand(c.unit, text) IN [unit |-> q.unit, values |-> Append(c.values, q.value)]

(* The recursion that reads operands one after the other.                  *)
LEMMA ReadingSteps ==
  ASSUME NEW t, NEW on, Len(on) \in Nat
  PROVE  /\ Reading(t, on)[0] = [unit |-> t, values |-> <<>>]
         /\ \A k \in 1 .. Len(on) : Reading(t, on)[k] = ReadNext(Reading(t, on)[k - 1], on[k])
<1> DEFINE One(c, k) == ReadNext(c, on[k])
           base == [unit |-> t, values |-> <<>>]
           Unfolds(f, n) == f = [k \in 0 .. n |-> IF k = 0 THEN base ELSE One(f[k - 1], k)]
           T == {n \in 0 .. Len(on) : \E f : Unfolds(f, n)}
<1> HIDE DEF One, base
<1>1. 0 \in T
  <2>1. Unfolds([k \in 0 .. 0 |-> base], 0)
    OBVIOUS
  <2>2. 0 \in 0 .. Len(on)
    OBVIOUS
  <2> HIDE DEF Unfolds
  <2> QED BY <2>1, <2>2
<1>2. ASSUME NEW n \in 1 .. Len(on), n - 1 \in T
      PROVE  n \in T
  <2>1. PICK f : Unfolds(f, n - 1)
    BY <1>2
  <2> DEFINE g == [k \in 0 .. n |-> IF k = n THEN One(f[n - 1], n) ELSE f[k]]
  <2>2. ASSUME NEW k \in 0 .. n PROVE g[k] = IF k = 0 THEN base ELSE One(g[k - 1], k)
    <3>1. CASE k = n
      <4>1. n - 1 \in 0 .. n /\ n - 1 # n /\ k # 0
        BY <3>1
      <4>2. g[n - 1] = f[n - 1] /\ g[k] = One(f[n - 1], n)
        BY <3>1, <4>1
      <4> QED BY <3>1, <4>1, <4>2
    <3>2. CASE k = 0
      <4>1. g[0] = f[0] /\ f[0] = base
        BY <2>1
      <4> QED BY <3>2, <4>1
    <3>3. CASE k # 0 /\ k # n
      <4>1. k \in 1 .. n - 1 /\ k - 1 \in 0 .. n /\ k - 1 # n /\ k - 1 \in 0 .. n - 1
        BY <3>3
      <4>2. g[k] = f[k] /\ g[k - 1] = f[k - 1]
        BY <3>3, <4>1
      <4>3. f[k] = One(f[k - 1], k)
        BY <2>1, <4>1
      <4> QED BY <3>3, <4>2, <4>3
    <3> QED BY <3>1, <3>2, <3>3
  <2>3. g = [k \in 0 .. n |-> IF k = 0 THEN base ELSE One(g[k - 1], k)]
    <3>1. g = [k \in 0 .. n |-> g[k]]
      OBVIOUS
    <3> HIDE DEF g
    <3> QED BY <2>2, <3>1, Zenon
  <2> HIDE DEF g
  <2> QED BY <2>3
<1>3. \E f : Unfolds(f, Len(on))
  <2>1. \A n \in 0 .. Len(on) : n \in T
    <3> HIDE DEF T
    <3> QED BY <1>1, <1>2, CountingUp
  <2> QED BY <2>1
<1>4. Reading(t, on) = CHOOSE f : Unfolds(f, Len(on))
  BY Zenon DEF Reading, ReadNext, One, base
<1>5. Unfolds(Reading(t, on), Len(on))
  BY <1>3, <1>4, Zenon
<1>6. \A k \in 0 .. Len(on) : Reading(t, on)[k] = IF k = 0 THEN base ELSE One(Reading(t, on)[k - 1], k)
  BY <1>5, Zenon
<1>7. Reading(t, on)[0] = base
  BY <1>6
<1>8. \A k \in 1 .. Len(on) : Reading(t, on)[k] = One(Reading(t, on)[k - 1], k)
  BY <1>6
<1> QED BY <1>7, <1>8, Zenon DEF One, base

(* All operands of a statement.                                            *)
LEMMA OperandsAreGood ==
  ASSUME NEW t, Good(t, Keys), NEW on \in Seq(Texts)
  PROVE  ReadSoFar(t, on, Len(on), Operands(t, on))
<1> DEFINE R == Reading(t, on)
           T == {k \in 0 .. Len(on) : ReadSoFar(t, on, k, R[k])}
<1>0. Len(on) \in Nat
  OBVIOUS
<1>1. /\ R[0] = [unit |-> t, values |-> <<>>]
      /\ \A k \in 1 .. Len(on) : R[k] = ReadNext(R[k - 1], on[k])
  BY <1>0, ReadingSteps
<1> HIDE DEF R
<1>2. 0 \in T
  <2>1. Extracts(t, t) /\ IsList(<<>>) /\ Len(<<>>) = 0
    BY ExtractsNothing DEF Good, OpsInv, IsList
  <2>2. R[0].unit = t /\ R[0].values = <<>>
    BY <1>1
  <2>3. ReadSoFar(t, on, 0, R[0])
    BY <2>1, <2>2 DEF ReadSoFar
  <2> QED BY <2>3
<1>3. ASSUME NEW k \in 1 .. Len(on), k - 1 \in T
      PROVE  k \in T
  <2>1. k - 1 \in Nat /\ k - 1 + 1 = k /\ on[k] \in Texts /\ ReadSoFar(t, on, k - 1, R[k - 1])
    BY <1>3
  <2>2. ReadSoFar(t, on, k, R[k])
    <3> DEFINE h == k - 1
    <3>1. h \in Nat /\ h + 1 = k /\ ReadSoFar(t, on, h, R[h]) /\ on[h + 1] \in Texts
      BY <2>1
    <3>2. R[k] = ReadNext(R[h], on[k])
      BY <1>1
    <3> HIDE DEF h
    <3>3. ReadSoFar(t, on, h + 1, ReadNext(R[h], on[h + 1]))
      BY <3>1, ReadOneMore DEF ReadNext
    <3> QED BY <3>1, <3>2, <3>3
  <2> QED BY <2>2
<1>4. \A k \in 0 .. Len(on) : k \in T
  <2> HIDE DEF T
  <2> QED BY <1>0, <1>2, <1>3, CountingUp
<1>5. Operands(t, on) = R[Len(on)]
  BY DEF Operands, R
<1> QED BY <1>4, <1>5

-----------------------------------------------------------------------------
(* Fewer keys are fresh, or those the table has no entry for are as well.  *)
LEMMA GoodWithFewer ==
  ASSUME NEW t, NEW fresh, Good(t, fresh), NEW kept,
         \A key \in kept : has_symbol(t, key) => key \in fresh
  PROVE  Good(t, kept)
<1>1. \A i \in 1 .. Len(t.scopes) : \A key \in DOMAIN t.scopes[i] :
        Entry(t, i, key, fresh) /\ has_symbol(t, key)
  BY HereIsWithin DEF Good, Symbols, has_symbol
<1>2. \A i \in 1 .. Len(t.scopes) : \A key \in DOMAIN t.scopes[i] : Entry(t, i, key, kept)
  BY <1>1 DEF Entry
<1> QED BY <1>2 DEF Good, Symbols

(* The recursion that renames results one after the other.                 *)
LEMMA RenamingSteps ==
  ASSUME NEW u, NEW args, NEW values, Len(args) \in Nat
  PROVE  /\ Renaming(u, args, values)[0] = u
         /\ \A k \in 1 .. Len(args) :
              Renaming(u, args, values)[k] =
                replace_symbol(Renaming(u, args, values)[k - 1], args[k], values[k])
<1> DEFINE One(c, k) == replace_symbol(c, args[k], values[k])
           Unfolds(f, n) == f = [k \in 0 .. n |-> IF k = 0 THEN u ELSE One(f[k - 1], k)]
           T == {n \in 0 .. Len(args) : \E f : Unfolds(f, n)}
           R == Renaming(u, args, values)
<1> HIDE DEF One, R
<1>1. 0 \in T
  <2>1. Unfolds([k \in 0 .. 0 |-> u], 0)
    OBVIOUS
  <2>2. 0 \in 0 .. Len(args)
    OBVIOUS
  <2> HIDE DEF Unfolds
  <2> QED BY <2>1, <2>2
<1>2. ASSUME NEW n \in 1 .. Len(args), n - 1 \in T
      PROVE  n \in T
  <2>1. PICK f : Unfolds(f, n - 1)
    BY <1>2
  <2> DEFINE g == [k \in 0 .. n |-> IF k = n THEN One(f[n - 1], n) ELSE f[k]]
  <2>2. ASSUME NEW k \in 0 .. n PROVE g[k] = IF k = 0 THEN u ELSE One(g[k - 1], k)
    <3>1. CASE k = n
      <4>1. n - 1 \in 0 .. n /\ n - 1 # n /\ k # 0
        BY <3>1
      <4>2. g[n - 1] = f[n - 1] /\ g[k] = One(f[n - 1], n)
        BY <3>1, <4>1
      <4> QED BY <3>1, <4>1, <4>2
    <3>2. CASE k = 0
      <4>1. g[0] = f[0] /\ f[0] = u
        BY <2>1
      <4> QED BY <3>2, <4>1
    <3>3. CASE k # 0 /\ k # n
      <4>1. k \in 1 .. n - 1 /\ k - 1 \in 0 .. n /\ k - 1 # n /\ k - 1 \in 0 .. n - 1
        BY <3>3
      <4>2. g[k] = f[k] /\ g[k - 1] = f[k - 1]
        BY <3>3, <4>1
      <4>3. f[k] = One(f[k - 1], k)
        BY <2>1, <4>1
      <4> QED BY <3>3, <4>2, <4>3
    <3> QED BY <3>1, <3>2, <3>3
  <2>3. g = [k \in 0 .. n |-> IF k = 0 THEN u ELSE One(g[k - 1], k)]
    <3>1. g = [k \in 0 .. n |-> g[k]]
      OBVIOUS
    <3> HIDE DEF g
    <3> QED BY <2>2, <3>1, Zenon
  <2> HIDE DEF g
  <2> QED BY <2>3
<1>3. \E f : Unfolds(f, Len(args))
  <2>1. \A n \in 0 .. Len(args) : n \in T
    <3> HIDE DEF T
    <3> QED BY <1>1, <1>2, CountingUp
  <2> QED BY <2>1
<1>4. R = CHOOSE f : Unfolds(f, Len(args))
  BY Zenon DEF Renaming, One, R
<1>5. Unfolds(R, Len(args))
  BY <1>3, <1>4, Zenon
<1>6. \A k \in 0 .. Len(args) : R[k] = IF k = 0 THEN u ELSE One(R[k - 1], k)
  BY <1>5, Zenon
<1>7. R[0] = u
  BY <1>6
<1>8. \A k \in 1 .. Len(args) : R[k] = One(R[k - 1], k)
  BY <1>6
<1> QED BY <1>7, <1>8, Zenon DEF One, R

(* The results renamed so far: the qubits among them are fresh again, and  *)
(* the names that the table has are given to the results.                  *)
RenamedSoFar(u, on, fresh, k, c) ==
  /\ Good(c, fresh \cup {Key(on[n]) : n \in {n \in 1 .. k : on[n] \in Named}})
  /\ c.ops = u.ops /\ c.region = u.region
  /\ \A v \in DOMAIN u.keyOf : v \in DOMAIN c.keyOf
  /\ \A key : has_symbol(c, key) <=> has_symbol(u, key)
  /\ \A n \in 1 .. k : on[n] \in Named /\ has_symbol(u, Key(on[n])) =>
                         <<Len(u.ops), n>> \in DOMAIN c.keyOf

(* All results of an operation.                                            *)
LEMMA RenamingIsGood ==
  ASSUME NEW u, NEW fresh, Good(u, fresh), NEW args, NEW on, Len(args) \in Nat, Len(on) \in Nat,
         Len(on) = Len(args), DOMAIN on = 1 .. Len(on), DOMAIN args = 1 .. Len(args),
         u.ops[Len(u.ops)].kind \in {"gate", "call", "modified"}, u.ops[Len(u.ops)].on = on,
         \A n \in 1 .. Len(args) : /\ IsValue(u.ops, args[n]) /\ TextOf(u.ops, args[n]) = on[n]
                                   /\ on[n] \in Named => args[n] \in DOMAIN u.keyOf
  PROVE  RenamedSoFar(u, on, fresh, Len(args), Renaming(u, args, Results(u, args))[Len(args)])
<1> DEFINE R == Renaming(u, args, Results(u, args))
           N(k) == {n \in 1 .. k : on[n] \in Named}
           F(k) == fresh \cup {Key(on[n]) : n \in N(k)}
           T == {k \in 0 .. Len(args) : RenamedSoFar(u, on, fresh, k, R[k])}
<1>1. /\ R[0] = u
      /\ \A k \in 1 .. Len(args) :
           R[k] = replace_symbol(R[k - 1], args[k], <<Len(u.ops), k>>)
  <2>1. \A k \in 1 .. Len(args) : Results(u, args)[k] = <<Len(u.ops), k>>
    BY DEF Results
  <2>2. /\ R[0] = u
        /\ \A k \in 1 .. Len(args) :
             R[k] = replace_symbol(R[k - 1], args[k], Results(u, args)[k])
    BY RenamingSteps
  <2> QED BY <2>1, <2>2
<1> HIDE DEF R
<1>2. 0 \in T
  <2>1. F(0) = fresh
    OBVIOUS
  <2>2. Good(u, F(0))
    BY <2>1
  <2>3. RenamedSoFar(u, on, fresh, 0, R[0])
    BY <1>1, <2>2 DEF RenamedSoFar
  <2> QED BY <2>3
<1>3. ASSUME NEW k \in 1 .. Len(args), k - 1 \in T
      PROVE  k \in T
  <2> DEFINE c == R[k - 1]
             new == <<Len(u.ops), k>>
             d == replace_symbol(c, args[k], new)
             before == F(k - 1)
             after == IF args[k] \in DOMAIN c.keyOf THEN before \cup {Key(on[k])} ELSE before
  <2>1. RenamedSoFar(u, on, fresh, k - 1, c) /\ R[k] = d
    BY <1>1, <1>3
  <2>2. Good(c, before) /\ c.ops = u.ops /\ c.region = u.region
        /\ \A v \in DOMAIN u.keyOf : v \in DOMAIN c.keyOf
    BY <2>1 DEF RenamedSoFar
  <2>3. IsValue(c.ops, new) /\ TextOf(c.ops, new) = on[k] /\ new[1] = Len(c.ops)
        /\ c.ops[new[1]].kind # "extract"
    <3>1. new[1] = Len(u.ops) /\ new[2] = k
      OBVIOUS
    <3>2. Len(u.ops) \in 1 .. Len(u.ops)
      BY DEF Good, OpsInv, IsList
    <3> HIDE DEF new
    <3> QED BY <2>2, <3>1, <3>2 DEF IsValue, TextOf
  <2>4. IsValue(c.ops, args[k]) /\ TextOf(c.ops, args[k]) = on[k]
    BY <2>2
  <2> HIDE DEF F, new, c, before
  <2>5. /\ Good(d, after) /\ d.ops = c.ops /\ d.region = c.region
        /\ DOMAIN c.keyOf \subseteq DOMAIN d.keyOf
        /\ \A key : has_symbol(d, key) <=> has_symbol(c, key)
        /\ args[k] \in DOMAIN c.keyOf /\ has_symbol(c, Key(on[k])) => new \in DOMAIN d.keyOf
    <3> DEFINE text == on[k]
               old  == args[k]
    <3>1. /\ Good(c, before) /\ IsValue(c.ops, new) /\ TextOf(c.ops, new) = text
          /\ new[1] = Len(c.ops) /\ c.ops[new[1]].kind # "extract"
          /\ IsValue(c.ops, old) /\ TextOf(c.ops, old) = text
      BY <2>2, <2>3, <2>4
    <3> HIDE DEF text, old
    <3>2. LET next == replace_symbol(c, old, new)
          IN  /\ Good(next, IF old \in DOMAIN c.keyOf THEN before \cup {Key(text)} ELSE before)
              /\ next.ops = c.ops /\ next.region = c.region
              /\ DOMAIN c.keyOf \subseteq DOMAIN next.keyOf
              /\ \A key : has_symbol(next, key) <=> has_symbol(c, key)
              /\ old \in DOMAIN c.keyOf /\ has_symbol(c, Key(text)) => new \in DOMAIN next.keyOf
      BY <3>1, ReplaceIsGood
    <3> QED BY <3>2 DEF text, old
  <2> HIDE DEF d
  <2>6. Good(d, F(k))
    <3>1. \A key \in F(k) : key \in before \/ (key = Key(on[k]) /\ on[k] \in Named)
      BY DEF F, before
    <3>2. on[k] \in Named => args[k] \in DOMAIN c.keyOf
      BY <2>2
    <3>3. \A key \in F(k) : key \in after
      BY <3>1, <3>2
    <3> HIDE DEF after
    <3> QED BY <2>5, <3>3, GoodWithFewer
  <2>7. ASSUME NEW n \in 1 .. k, on[n] \in Named, has_symbol(u, Key(on[n]))
        PROVE  <<Len(u.ops), n>> \in DOMAIN d.keyOf
    <3>1. CASE n = k
      <4>1. args[k] \in DOMAIN c.keyOf /\ has_symbol(c, Key(on[k]))
        BY <2>1, <2>2, <2>7, <3>1 DEF RenamedSoFar
      <4> QED BY <2>5, <3>1, <4>1 DEF new
    <3>2. CASE n \in 1 .. k - 1
      BY <2>1, <2>5, <2>7, <3>2 DEF RenamedSoFar
    <3> QED BY <3>1, <3>2
  <2>8. \A key : has_symbol(d, key) <=> has_symbol(u, key)
    BY <2>1, <2>5 DEF RenamedSoFar
  <2>9. RenamedSoFar(u, on, fresh, k, d)
    BY <2>2, <2>5, <2>6, <2>7, <2>8 DEF RenamedSoFar, F
  <2> QED BY <2>1, <2>9
<1>4. \A k \in 0 .. Len(args) : k \in T
  <2> HIDE DEF T
  <2> QED BY <1>2, <1>3, CountingUp
<1> QED BY <1>4 DEF R

(* A gate on operands that stand for the qubits it is written on: after    *)
(* it, all that the table has is the last again, and its results stand for *)
(* the qubits of q and s that are named.                                   *)
LEMMA ApplyIsGood ==
  ASSUME NEW t, NEW kind \in {"gate", "call", "modified"}, NEW on, IsList(on), NEW values, NEW via,
         NEW start, ReadSoFar(start, on, Len(on), [unit |-> t, values |-> values])
  PROVE  LET u == Emit(t, kind, values, on, via)
             w == ApplyGate(t, kind, values, on, via)
         IN  /\ Good(w, Keys) /\ w.ops = u.ops /\ w.region = t.region
             /\ Len(u.ops) = Len(t.ops) + 1
             /\ DOMAIN u.ops[Len(u.ops)] = {"kind", "region", "args", "on", "via"}
             /\ \A n \in 1 .. Len(on) : on[n] = "s" =>
                  Carries(w, <<Len(w.ops), n>>, "s") /\ <<Len(w.ops), n>> \in DOMAIN w.keyOf
<1> DEFINE u == Emit(t, kind, values, on, via)
           w == ApplyGate(t, kind, values, on, via)
           op == u.ops[Len(u.ops)]
           F == {key \in Keys : \A x : key = Key(x) => ~ Touches(op, x)}
           N == {n \in 1 .. Len(on) : on[n] \in Named}
           G == F \cup {Key(on[n]) : n \in N}
<1>1. /\ Good(t, Keys) /\ IsList(values) /\ Len(values) = Len(on)
      /\ \A n \in 1 .. Len(on) : /\ Carries(t, values[n], on[n])
                                 /\ on[n] \in Named => values[n] \in DOMAIN t.keyOf
      /\ (\E n \in 1 .. Len(on) : on[n] = "i") =>
           \A x \in Constants : has_symbol(t, Key(x)) => \E n \in 1 .. Len(on) : on[n] = x
  BY DEF ReadSoFar
<1>2. /\ Len(on) \in Nat /\ DOMAIN on = 1 .. Len(on) /\ DOMAIN values = 1 .. Len(on)
  BY <1>1 DEF IsList
<1>3. /\ SameTables(t, u) /\ Longer(t.ops, u.ops) /\ Len(u.ops) = Len(t.ops) + 1
      /\ op = [kind |-> kind, region |-> t.region, args |-> values, on |-> on, via |-> via]
  BY <1>1, Emitted DEF Good, Shape, OpsInv
<1>4. Good(u, F)
  <2>1. \A x : Key(x) \in F => ~ Touches(op, x)
    OBVIOUS
  <2>2. \A k \in DOMAIN values : Carries(t, values[k], on[k])
    BY <1>1, <1>2
  <2>3. F \in SUBSET Keys
    OBVIOUS
  <2> HIDE DEF F
  <2> QED BY <1>1, <2>1, <2>2, <2>3, OperationIsGood
<1>5. w = Renaming(u, values, Results(u, values))[Len(values)]
  BY Zenon DEF ApplyGate
<1> HIDE DEF u, w
<1>6. op.kind \in {"gate", "call", "modified"} /\ op.on = on
  BY <1>3
<1>7. \A n \in 1 .. Len(values) : /\ IsValue(u.ops, values[n]) /\ TextOf(u.ops, values[n]) = on[n]
                                  /\ on[n] \in Named => values[n] \in DOMAIN u.keyOf
  BY <1>1, <1>3, ValuesStay DEF Carries, SameTables
<1>8. RenamedSoFar(u, on, F, Len(values), w)
  <2> HIDE DEF F
  <2> QED BY <1>1, <1>2, <1>4, <1>5, <1>6, <1>7, RenamingIsGood
<1>9. Good(w, G) /\ w.ops = u.ops /\ w.region = u.region
      /\ \A key : has_symbol(w, key) <=> has_symbol(u, key)
  BY <1>1, <1>8 DEF RenamedSoFar
<1>10. ASSUME NEW key \in Keys, has_symbol(w, key)
       PROVE  key \in G
  <2>1. PICK x \in Constants \cup {"s"} : key = Key(x)
    BY DEF Keys
  <2>2. CASE ~ Touches(op, x)
    BY <2>1, <2>2, KeysDiffer
  <2>3. CASE Touches(op, x)
    <3>1. \E n \in 1 .. Len(on) : on[n] = x \/ (on[n] = "i" /\ x # "s")
      BY <1>2, <1>6, <2>3 DEF Touches
    <3>2. has_symbol(t, Key(x))
      BY <1>3, <1>9, <1>10, <2>1 DEF has_symbol, SameTables
    <3>3. \E n \in 1 .. Len(on) : on[n] = x
      BY <1>1, <2>1, <3>1, <3>2
    <3>4. x \in Named
      BY <2>1, TextsDiffer
    <3> QED BY <2>1, <3>3, <3>4
  <2> QED BY <2>2, <2>3
<1>11. Good(w, Keys)
  <2> HIDE DEF G
  <2> QED BY <1>9, <1>10, GoodWithFewer
<1>12. ASSUME NEW n \in 1 .. Len(on), on[n] = "s"
       PROVE  Carries(w, <<Len(w.ops), n>>, "s") /\ <<Len(w.ops), n>> \in DOMAIN w.keyOf
  <2>1. Len(t.ops) \in Nat
    BY <1>1 DEF Good, OpsInv, IsList
  <2>2. on[n] \in Named /\ Key(on[n]) = ScalarName
    BY <1>12, TextsDiffer, KeysDiffer
  <2>3. has_symbol(u, ScalarName)
    <3>1. 1 \in DOMAIN u.scopes
      BY <1>4, HereIsWithin DEF Good
    <3> QED BY <1>4, <3>1 DEF Good, Symbols, has_symbol
  <2>4. <<Len(u.ops), n>> \in DOMAIN w.keyOf
    BY <1>1, <1>8, <2>2, <2>3 DEF RenamedSoFar
  <2> DEFINE v == <<Len(u.ops), n>>
  <2>5. v[1] = Len(u.ops) /\ v[2] = n
    OBVIOUS
  <2> HIDE DEF v
  <2>6. Carries(w, v, "s")
    BY <1>2, <1>3, <1>6, <1>9, <1>12, <2>1, <2>5 DEF Carries, IsValue, TextOf, Untouched
  <2> QED BY <1>9, <2>4, <2>6 DEF v
<1>13. DOMAIN op = {"kind", "region", "args", "on", "via"}
  BY <1>3
<1> QED BY <1>3, <1>9, <1>11, <1>12, <1>13 DEF u, w, SameTables

-----------------------------------------------------------------------------
(* A gate, a call of a user's gate or a gate with modifiers.               *)
LEMMA GateIsGood ==
  ASSUME NEW t, Good(t, Keys), NEW kind \in {"gate", "call", "modified"}, NEW on \in Seq(Texts)
  PROVE  LET w == GateOn(t, kind, on)
         IN  /\ Good(w, Keys) /\ w.region = t.region /\ Len(w.ops) >= 1
             /\ DOMAIN w.ops[Len(w.ops)] = {"kind", "region", "args", "on", "via"}
<1> DEFINE c == Operands(t, on)
           u == Emit(c.unit, kind, c.values, on, "name")
<1>1. ReadSoFar(t, on, Len(on), c) /\ IsList(on)
  BY OperandsAreGood, SequencesAreLists
<1>2. GateOn(t, kind, on) = ApplyGate(c.unit, kind, c.values, on, "name")
  BY DEF GateOn
<1> HIDE DEF c
<1>4. ReadSoFar(t, on, Len(on), [unit |-> c.unit, values |-> c.values])
  BY <1>1 DEF ReadSoFar
<1>5. LET w == ApplyGate(c.unit, kind, c.values, on, "name")
      IN  Good(w, Keys) /\ w.ops = u.ops /\ w.region = c.unit.region
          /\ Len(u.ops) = Len(c.unit.ops) + 1
          /\ DOMAIN u.ops[Len(u.ops)] = {"kind", "region", "args", "on", "via"}
  BY <1>1, <1>4, ApplyIsGood, SMTT(60)
<1>6. c.unit.region = t.region /\ Len(c.unit.ops) \in Nat
  BY <1>1 DEF ReadSoFar, Extracts, Longer, IsList
<1> QED BY <1>2, <1>5, <1>6

(* A gate with modifiers is a gate with a region of its own.               *)
LEMMA ModifiedIsGood ==
  ASSUME NEW t, Good(t, Keys), NEW st, st.on \in Seq(Texts)
  PROVE  Good(Modified(t, st), Keys)
<1> DEFINE u == GateOn(t, "modified", st.on)
           n == Len(u.ops)
           w == Modified(t, st)
           Told(op) == Assigned(Assigned(op, "modifiers", st.modifiers), "gates", st.gates)
<1>1. Good(u, Keys) /\ n >= 1 /\ DOMAIN u.ops[n] = {"kind", "region", "args", "on", "via"}
  BY GateIsGood
<1>2. w = [u EXCEPT !.ops[n] = Told(@)]
  BY DEF Modified
<1> HIDE DEF u, w
<1>3. IsList(u.ops) /\ n \in Nat /\ DOMAIN u.ops = 1 .. n
  BY <1>1 DEF Good, OpsInv, IsList
<1>4. /\ SameTables(u, w)
      /\ w.ops = [i \in 1 .. n |-> IF i = n THEN Told(u.ops[n]) ELSE u.ops[i]]
  <2> HIDE DEF Told
  <2> QED BY <1>1, <1>2, <1>3 DEF SameTables, Good, Shape
<1>6. ASSUME NEW i \in 1 .. n PROVE Alike(w.ops[i], u.ops[i])
  <2>1. CASE i = n
    BY <1>1, <1>4, <2>1 DEF Alike, Assigned
  <2>2. CASE i # n
    BY <1>4, <2>2 DEF Alike
  <2> QED BY <2>1, <2>2
<1>7. IsList(w.ops) /\ Len(w.ops) = n
  <2> HIDE DEF Told
  <2> QED BY <1>3, <1>4 DEF IsList
<1>8. Longer(u.ops, w.ops)
  BY <1>3, <1>6, <1>7 DEF Longer
<1>9. /\ \A i \in Len(u.ops) + 1 .. Len(w.ops) : \A k \in DOMAIN w.ops[i].args : Reads(w.ops, i, k)
      /\ \A j \in Len(u.ops) + 1 .. Len(w.ops) : \A x : Key(x) \in Keys => ~ Touches(w.ops[j], x)
      /\ Keys \in SUBSET Keys
  BY <1>3, <1>7
<1> QED BY <1>1, <1>4, <1>8, <1>9, GrownIsGood DEF w

-----------------------------------------------------------------------------
(* The recursion that broadcasts a gate.                                   *)
BroadcastNext(c, k, with) ==
  LET q == get_or_extract_qubit(c.unit, IndexText[k - 1])
      u == ApplyGate(q.unit, "gate", <<q.value>> \o c.values, <<IndexText[k - 1]>> \o with, "name")
  IN  [unit |-> u, values |-> [n \in DOMAIN c.values |-> <<Len(u.ops), 2>>]]
LEMMA BroadcastingSteps ==
  ASSUME NEW t, NEW with
  PROVE  /\ Broadcasting(t, with)[0] = Operands(t, with)
         /\ \A k \in 1 .. RegisterSize :
              Broadcasting(t, with)[k] = BroadcastNext(Broadcasting(t, with)[k - 1], k, with)
<1> DEFINE One(c, k) == BroadcastNext(c, k, with)
           base == Operands(t, with)
           Unfolds(f, n) == f = [k \in 0 .. n |-> IF k = 0 THEN base ELSE One(f[k - 1], k)]
           T == {n \in 0 .. RegisterSize : \E f : Unfolds(f, n)}
           R == Broadcasting(t, with)
<1> HIDE DEF One, base, R
<1>0. RegisterSize \in Nat
  BY RegisterSizeAssumption
<1>1. 0 \in T
  <2>1. Unfolds([k \in 0 .. 0 |-> base], 0)
    OBVIOUS
  <2>2. 0 \in 0 .. RegisterSize
    BY <1>0
  <2> HIDE DEF Unfolds
  <2> QED BY <2>1, <2>2
<1>2. ASSUME NEW n \in 1 .. RegisterSize, n - 1 \in T
      PROVE  n \in T
  <2>1. PICK f : Unfolds(f, n - 1)
    BY <1>2
  <2> DEFINE g == [k \in 0 .. n |-> IF k = n THEN One(f[n - 1], n) ELSE f[k]]
  <2>2. ASSUME NEW k \in 0 .. n PROVE g[k] = IF k = 0 THEN base ELSE One(g[k - 1], k)
    <3>1. CASE k = n
      <4>1. n - 1 \in 0 .. n /\ n - 1 # n /\ k # 0
        BY <3>1
      <4>2. g[n - 1] = f[n - 1] /\ g[k] = One(f[n - 1], n)
        BY <3>1, <4>1
      <4> QED BY <3>1, <4>1, <4>2
    <3>2. CASE k = 0
      <4>1. g[0] = f[0] /\ f[0] = base
        BY <2>1
      <4> QED BY <3>2, <4>1
    <3>3. CASE k # 0 /\ k # n
      <4>1. k \in 1 .. n - 1 /\ k - 1 \in 0 .. n /\ k - 1 # n /\ k - 1 \in 0 .. n - 1
        BY <3>3
      <4>2. g[k] = f[k] /\ g[k - 1] = f[k - 1]
        BY <3>3, <4>1
      <4>3. f[k] = One(f[k - 1], k)
        BY <2>1, <4>1
      <4> QED BY <3>3, <4>2, <4>3
    <3> QED BY <3>1, <3>2, <3>3
  <2>3. g = [k \in 0 .. n |-> IF k = 0 THEN base ELSE One(g[k - 1], k)]
    <3>1. g = [k \in 0 .. n |-> g[k]]
      OBVIOUS
    <3> HIDE DEF g
    <3> QED BY <2>2, <3>1, Zenon
  <2> HIDE DEF g
  <2> QED BY <2>3, <1>0
<1>3. \E f : Unfolds(f, RegisterSize)
  <2>1. \A n \in 0 .. RegisterSize : n \in T
    <3> HIDE DEF T
    <3> QED BY <1>0, <1>1, <1>2, CountingUp
  <2> QED BY <1>0, <2>1
<1>4. R = CHOOSE f : Unfolds(f, RegisterSize)
  BY Zenon DEF Broadcasting, BroadcastNext, One, base, R
<1>5. Unfolds(R, RegisterSize)
  BY <1>3, <1>4, Zenon
<1>6. \A k \in 0 .. RegisterSize : R[k] = IF k = 0 THEN base ELSE One(R[k - 1], k)
  BY <1>5, Zenon
<1>7. R[0] = base
  BY <1>0, <1>6
<1>8. \A k \in 1 .. RegisterSize : R[k] = One(R[k - 1], k)
  BY <1>0, <1>6
<1> QED BY <1>7, <1>8, Zenon DEF One, base, R

(* An element in front of a list.                                          *)
LEMMA ListPrepends ==
  ASSUME NEW s, IsList(s), NEW e
  PROVE  /\ IsList(<<e>> \o s) /\ Len(<<e>> \o s) = Len(s) + 1 /\ (<<e>> \o s)[1] = e
         /\ \A i \in 1 .. Len(s) : (<<e>> \o s)[i + 1] = s[i]
<1> DEFINE A == { s[i] : i \in 1 .. Len(s) } \cup {e}
<1>1. s \in Seq({ s[i] : i \in 1 .. Len(s) })
  BY ListsAreSequences
<1>2. s \in Seq(A) /\ <<e>> \in Seq(A)
  BY <1>1
<1> HIDE DEF A
<1>3. <<e>> \o s \in Seq(A) /\ Len(<<e>> \o s) = Len(s) + 1
  BY <1>2
<1>4. (<<e>> \o s)[1] = e /\ \A i \in 1 .. Len(s) : (<<e>> \o s)[i + 1] = s[i]
  BY <1>2
<1>5. IsList(<<e>> \o s)
  BY <1>3, SequencesAreLists, Zenon
<1> QED BY <1>3, <1>4, <1>5

(* What a broadcast gate is on besides.                                    *)
LEMMA WithLists ==
  ASSUME NEW with \in {<<>>, <<"s">>}
  PROVE  /\ IsList(with) /\ Len(with) \in {0, 1} /\ \A n \in 1 .. Len(with) : with[n] = "s"
         /\ \A S : "s" \in S => with \in Seq(S)
<1>1. CASE with = <<>>
  <2>1. Len(with) = 0 /\ with = [i \in 1 .. 0 |-> with[i]] /\ \A S : with \in Seq(S)
    BY <1>1
  <2> QED BY <2>1 DEF IsList
<1>2. CASE with = <<"s">>
  <2>1. Len(with) = 1 /\ with[1] = "s" /\ with \in Seq({"s"})
    BY <1>2
  <2>2. IsList(with)
    BY <2>1, SequencesAreLists
  <2>3. \A S : "s" \in S => with \in Seq(S)
    BY <1>2
  <2> QED BY <2>1, <2>2, <2>3
<1> QED BY <1>1, <1>2

(* The broadcast so far: s, if it is an operand, is handed on.             *)
BroadcastSoFar(t, with, c) ==
  /\ Good(c.unit, Keys) /\ c.unit.region = t.region
  /\ IsList(c.values) /\ Len(c.values) = Len(with)
  /\ \A n \in 1 .. Len(with) :
       Carries(c.unit, c.values[n], "s") /\ c.values[n] \in DOMAIN c.unit.keyOf

(* The gate on one qubit more.                                             *)
LEMMA BroadcastOneMore ==
  ASSUME NEW t, NEW with \in {<<>>, <<"s">>}, NEW c, BroadcastSoFar(t, with, c),
         NEW k \in 1 .. RegisterSize
  PROVE  BroadcastSoFar(t, with, BroadcastNext(c, k, with))
<1> DEFINE text == IndexText[k - 1]
           q    == get_or_extract_qubit(c.unit, text)
           args == <<q.value>> \o c.values
           on   == <<text>> \o with
           w    == ApplyGate(q.unit, "gate", args, on, "name")
           vs   == [n \in DOMAIN c.values |-> <<Len(w.ops), 2>>]
<1>1. text \in Constants /\ text # "i" /\ text # "s" /\ Key(text) \in Keys
  <2>1. k - 1 \in DOMAIN IndexText
    BY RegisterSizeAssumption, TextsDiffer
  <2>2. IndexText[k - 1] \in Constants
    BY <2>1, TextsDiffer
  <2> HIDE DEF text
  <2>3. text \in Constants
    BY <2>2 DEF text
  <2> QED BY <2>3, TextsDiffer DEF Keys
<1>2. BroadcastNext(c, k, with) = [unit |-> w, values |-> vs]
  BY DEF BroadcastNext
<1> HIDE DEF text
<1>3. /\ Good(q.unit, Keys) /\ Extracts(c.unit, q.unit) /\ Carries(q.unit, q.value, text)
      /\ q.value \in DOMAIN q.unit.keyOf
  BY <1>1, GetIsGood DEF BroadcastSoFar
<1> HIDE DEF q
<1>4. /\ IsList(args) /\ Len(args) = Len(with) + 1 /\ args[1] = q.value
      /\ \A n \in 1 .. Len(with) : args[n + 1] = c.values[n]
  BY ListPrepends DEF BroadcastSoFar
<1>5. /\ IsList(with) /\ Len(with) \in {0, 1} /\ \A n \in 1 .. Len(with) : with[n] = "s"
  BY WithLists
<1>6. /\ IsList(on) /\ Len(on) = Len(with) + 1 /\ on[1] = text
      /\ \A n \in 1 .. Len(with) : on[n + 1] = "s"
  BY <1>5, ListPrepends
<1> HIDE DEF args, on
<1>7. ASSUME NEW n \in 1 .. Len(on)
      PROVE  Carries(q.unit, args[n], on[n]) /\ args[n] \in DOMAIN q.unit.keyOf /\ on[n] # "i"
  <2>1. CASE n = 1
    BY <1>1, <1>3, <1>4, <1>6, <2>1
  <2>2. CASE n = 2 /\ Len(with) = 1
    <3>1. args[n] = c.values[1] /\ on[n] = "s"
      BY <1>4, <1>6, <2>2
    <3>2. Carries(c.unit, c.values[1], "s") /\ c.values[1] \in DOMAIN c.unit.keyOf
      BY <2>2 DEF BroadcastSoFar
    <3>3. Carries(q.unit, c.values[1], "s")
      BY <1>3, <3>2, CarriesStays
    <3> QED BY <1>3, <3>1, <3>2, <3>3 DEF Extracts
  <2> QED BY <1>5, <1>6, <2>1, <2>2
<1>8. ReadSoFar(q.unit, on, Len(on), [unit |-> q.unit, values |-> args])
  <2>1. Extracts(q.unit, q.unit)
    BY <1>3, ExtractsNothing DEF Good, OpsInv
  <2> QED BY <1>3, <1>4, <1>6, <1>7, <2>1 DEF ReadSoFar
<1>9. /\ Good(w, Keys) /\ w.region = q.unit.region
      /\ \A n \in 1 .. Len(on) : on[n] = "s" =>
           Carries(w, <<Len(w.ops), n>>, "s") /\ <<Len(w.ops), n>> \in DOMAIN w.keyOf
  BY <1>6, <1>8, ApplyIsGood
<1> HIDE DEF w
<1>10. /\ IsList(vs) /\ Len(vs) = Len(with)
       /\ \A n \in 1 .. Len(with) : vs[n] = <<Len(w.ops), 2>>
  BY <1>5 DEF BroadcastSoFar, IsList
<1>11. ASSUME NEW n \in 1 .. Len(with)
       PROVE  Carries(w, vs[n], "s") /\ vs[n] \in DOMAIN w.keyOf
  <2>1. 2 \in 1 .. Len(on) /\ on[2] = "s"
    BY <1>5, <1>6
  <2> HIDE DEF vs
  <2> QED BY <1>9, <1>10, <2>1
<1>12. w.region = t.region
  BY <1>3, <1>9 DEF Extracts, BroadcastSoFar
<1> HIDE DEF vs
<1> QED BY <1>2, <1>9, <1>10, <1>11, <1>12 DEF BroadcastSoFar

(* A gate broadcast over the register, with s or without.                  *)
LEMMA BroadcastIsGood ==
  ASSUME NEW t, Good(t, Keys), NEW with \in {<<>>, <<"s">>}
  PROVE  Good(Broadcast(t, with), Keys)
<1> DEFINE R == Broadcasting(t, with)
           T == {k \in 0 .. RegisterSize : BroadcastSoFar(t, with, R[k])}
<1>1. /\ R[0] = Operands(t, with)
      /\ \A k \in 1 .. RegisterSize : R[k] = BroadcastNext(R[k - 1], k, with)
  BY BroadcastingSteps
<1>2. /\ with \in Seq(Texts) /\ Len(with) \in {0, 1} /\ "s" \in Named
      /\ \A n \in 1 .. Len(with) : with[n] = "s"
  <2>1. "s" \in Named /\ "s" \in Texts
    BY TextsDiffer DEF Texts
  <2> QED BY <2>1, WithLists
<1>3. ReadSoFar(t, with, Len(with), R[0])
  BY <1>1, <1>2, OperandsAreGood
<1> HIDE DEF R
<1>4. 0 \in T
  <2>1. BroadcastSoFar(t, with, R[0])
    BY <1>2, <1>3 DEF ReadSoFar, BroadcastSoFar, Extracts
  <2> QED BY <2>1, RegisterSizeAssumption
<1>5. ASSUME NEW k \in 1 .. RegisterSize, k - 1 \in T PROVE k \in T
  <2>1. BroadcastSoFar(t, with, R[k - 1]) /\ R[k] = BroadcastNext(R[k - 1], k, with)
    BY <1>1, <1>5
  <2>2. BroadcastSoFar(t, with, R[k])
    BY <2>1, BroadcastOneMore
  <2> QED BY <2>2, RegisterSizeAssumption
<1>6. RegisterSize \in T
  <2> HIDE DEF T
  <2> QED BY <1>4, <1>5, CountingUp, RegisterSizeAssumption
<1> QED BY <1>6 DEF BroadcastSoFar, Broadcast, R

-----------------------------------------------------------------------------
(* What a subroutine does to a qubit the table is not told of.             *)
LEMMA SubroutineIsGood ==
  ASSUME NEW t, Good(t, Keys), NEW on \in Constants \cup {"q"}, NEW does
  PROVE  Good(Subroutine(t, on, does), Keys)
<1> DEFINE q    == IF on = "q" THEN [unit |-> Extract(t, "0", "subroutine"),
                                     value |-> <<Len(t.ops) + 1, 1>>]
                               ELSE get_or_extract_qubit(t, on)
           text == IF on = "q" THEN "0" ELSE on
           w    == Emit(q.unit, does, <<q.value>>, <<text>>, "subroutine")
<1>1. Subroutine(t, on, does) = w
  BY Zenon DEF Subroutine
<1>2. Good(q.unit, Keys) /\ Carries(q.unit, q.value, text)
  <2>1. CASE on = "q"
    <3>1. LET u == Extract(t, "0", "subroutine")
          IN  /\ Good(u, Keys) /\ Carries(u, LastValue(u), "0")
              /\ LastValue(u) = <<Len(t.ops) + 1, 1>>
      BY ExtractIsGood
    <3> QED BY <2>1, <3>1
  <2>2. CASE on # "q"
    <3>1. on \in Constants /\ Key(on) \in Keys
      BY <2>2 DEF Keys
    <3> QED BY <2>2, <3>1, GetIsGood
  <2> QED BY <2>1, <2>2
<1> HIDE DEF q, text
<1>3. w.ops[Len(w.ops)].via = "subroutine"
  BY <1>2, EmittedLast
<1>4. \A x : Key(x) \in Keys => ~ Touches(w.ops[Len(w.ops)], x)
  <2> HIDE DEF w
  <2> QED BY <1>3 DEF Touches, IsTold
<1>5. \A k \in DOMAIN <<q.value>> : Carries(q.unit, <<q.value>>[k], <<text>>[k])
  BY <1>2
<1>6. Good(w, Keys)
  BY <1>2, <1>4, <1>5, OperationIsGood
<1> QED BY <1>1, <1>6

(* A measurement, which the table is told of at a constant index.          *)
LEMMA MzIsGood ==
  ASSUME NEW q, NEW fresh, Good(q.unit, fresh), NEW text \in Texts,
         Carries(q.unit, q.value, text), NEW kept \in SUBSET fresh,
         text \in Constants => Key(text) \notin kept
  PROVE  LET w == Mz(q, text) IN Good(w, kept) /\ SameTables(q.unit, w)
<1> DEFINE w == Mz(q, text)
           op == w.ops[Len(w.ops)]
<1>1. w = Emit(q.unit, "mz", <<q.value>>, <<text>>, "name")
  BY DEF Mz
<1>2. SameTables(q.unit, w) /\ op.kind = "mz" /\ op.on = <<text>>
  BY <1>1, EmittedLast
<1>3. \A x : Key(x) \in kept => ~ Touches(op, x)
  <2> SUFFICES ASSUME NEW x, Key(x) \in kept, Touches(op, x) PROVE FALSE
    OBVIOUS
  <2> HIDE DEF w
  <2>1. IsTold(op) /\ \E n \in DOMAIN <<text>> : <<text>>[n] = x \/ (<<text>>[n] = "i" /\ x # "s")
    BY <1>2 DEF Touches
  <2>2. text \notin {"s", "i", "n-i"}
    BY <1>2, <2>1 DEF IsTold
  <2>3. text = x
    BY <2>1, <2>2
  <2> QED BY <2>2, <2>3, TextsDiffer DEF Texts
<1>4. \A k \in DOMAIN <<q.value>> : Carries(q.unit, <<q.value>>[k], <<text>>[k])
  OBVIOUS
<1>5. Good(w, kept)
  BY <1>1, <1>3, <1>4, OperationIsGood
<1> QED BY <1>2, <1>5

(* The measurement of one qubit.                                           *)
LEMMA MeasureOneIsGood ==
  ASSUME NEW t, Good(t, Keys), NEW text \in Texts
  PROVE  Good(MeasureOne(t, text), Keys)
<1> DEFINE q   == IF text = "i" THEN Qubit(Extract(t, text, "variable"), <<Len(t.ops) + 1, 1>>)
                                ELSE Operand(t, text)
           key == get_symbol_var_name(q.unit, q.value)
           w   == Mz(q, text)
           F   == IF text \in Constants THEN Keys \ {Key(text)} ELSE Keys
<1>1. MeasureOne(t, text) = IF key \in {Anonymous, ScalarName} THEN w ELSE erase_symbol(w, key)
  BY Zenon DEF MeasureOne
<1>2. /\ Good(q.unit, Keys) /\ Carries(q.unit, q.value, text)
      /\ text \in Constants => q.value \in DOMAIN q.unit.keyOf
  <2>1. CASE text = "i"
    <3>1. LET u == Extract(t, text, "variable")
          IN  Good(u, Keys) /\ Carries(u, LastValue(u), text)
              /\ LastValue(u) = <<Len(t.ops) + 1, 1>>
      BY ExtractIsGood
    <3> QED BY <2>1, <3>1, TextsDiffer DEF Qubit
  <2>2. CASE text # "i"
    BY <2>2, OperandIsGood, TextsDiffer
  <2> QED BY <2>1, <2>2
<1> HIDE DEF q
<1>3. key = IF q.value \in DOMAIN q.unit.keyOf THEN Key(text) ELSE Anonymous
  BY <1>2 DEF get_symbol_var_name, Good, Symbols, Carries
<1> HIDE DEF key
<1>4. Good(w, F)
  BY <1>2, MzIsGood
<1> HIDE DEF w
<1>5. CASE key \in {Anonymous, ScalarName}
  <2>1. text \notin Constants
    BY <1>2, <1>3, <1>5, KeysDiffer, TextsDiffer
  <2> QED BY <1>1, <1>4, <1>5, <2>1
<1>6. CASE key \notin {Anonymous, ScalarName}
  <2>1. key = Key(text) /\ ScalarName \notin {key}
    BY <1>3, <1>6
  <2> HIDE DEF F
  <2>2. Good(erase_symbol(w, key), F \cup {key})
    BY <1>4, <2>1, EraseIsGood DEF erase_symbol
  <2>3. \A k \in Keys : k \in F \cup {key}
    BY <2>1 DEF F
  <2> QED BY <1>1, <1>6, <2>2, <2>3, GoodWithFewer
<1> QED BY <1>5, <1>6

-----------------------------------------------------------------------------
(* The recursion that measures a register.                                 *)
MeasureNext(c, k, forgets) ==
  LET text == IndexText[k - 1]
      u    == Mz(get_or_extract_qubit(c, text), text)
  IN  IF forgets THEN erase_symbol(u, array_qubit_symbol_name(text)) ELSE u
LEMMA MeasuringSteps ==
  ASSUME NEW t, NEW forgets
  PROVE  /\ Measuring(t, forgets)[0] = t
         /\ \A k \in 1 .. RegisterSize :
              Measuring(t, forgets)[k] = MeasureNext(Measuring(t, forgets)[k - 1], k, forgets)
<1> DEFINE One(c, k) == MeasureNext(c, k, forgets)
           base == t
           Unfolds(f, n) == f = [k \in 0 .. n |-> IF k = 0 THEN base ELSE One(f[k - 1], k)]
           T == {n \in 0 .. RegisterSize : \E f : Unfolds(f, n)}
           R == Measuring(t, forgets)
<1> HIDE DEF One, base, R
<1>0. RegisterSize \in Nat
  BY RegisterSizeAssumption
<1>1. 0 \in T
  <2>1. Unfolds([k \in 0 .. 0 |-> base], 0)
    OBVIOUS
  <2>2. 0 \in 0 .. RegisterSize
    BY <1>0
  <2> HIDE DEF Unfolds
  <2> QED BY <2>1, <2>2
<1>2. ASSUME NEW n \in 1 .. RegisterSize, n - 1 \in T
      PROVE  n \in T
  <2>1. PICK f : Unfolds(f, n - 1)
    BY <1>2
  <2> DEFINE g == [k \in 0 .. n |-> IF k = n THEN One(f[n - 1], n) ELSE f[k]]
  <2>2. ASSUME NEW k \in 0 .. n PROVE g[k] = IF k = 0 THEN base ELSE One(g[k - 1], k)
    <3>1. CASE k = n
      <4>1. n - 1 \in 0 .. n /\ n - 1 # n /\ k # 0
        BY <3>1
      <4>2. g[n - 1] = f[n - 1] /\ g[k] = One(f[n - 1], n)
        BY <3>1, <4>1
      <4> QED BY <3>1, <4>1, <4>2
    <3>2. CASE k = 0
      <4>1. g[0] = f[0] /\ f[0] = base
        BY <2>1
      <4> QED BY <3>2, <4>1
    <3>3. CASE k # 0 /\ k # n
      <4>1. k \in 1 .. n - 1 /\ k - 1 \in 0 .. n /\ k - 1 # n /\ k - 1 \in 0 .. n - 1
        BY <3>3
      <4>2. g[k] = f[k] /\ g[k - 1] = f[k - 1]
        BY <3>3, <4>1
      <4>3. f[k] = One(f[k - 1], k)
        BY <2>1, <4>1
      <4> QED BY <3>3, <4>2, <4>3
    <3> QED BY <3>1, <3>2, <3>3
  <2>3. g = [k \in 0 .. n |-> IF k = 0 THEN base ELSE One(g[k - 1], k)]
    <3>1. g = [k \in 0 .. n |-> g[k]]
      OBVIOUS
    <3> HIDE DEF g
    <3> QED BY <2>2, <3>1, Zenon
  <2> HIDE DEF g
  <2> QED BY <2>3, <1>0
<1>3. \E f : Unfolds(f, RegisterSize)
  <2>1. \A n \in 0 .. RegisterSize : n \in T
    <3> HIDE DEF T
    <3> QED BY <1>0, <1>1, <1>2, CountingUp
  <2> QED BY <1>0, <2>1
<1>4. R = CHOOSE f : Unfolds(f, RegisterSize)
  BY Zenon DEF Measuring, MeasureNext, One, base, R
<1>5. Unfolds(R, RegisterSize)
  BY <1>3, <1>4, Zenon
<1>6. \A k \in 0 .. RegisterSize : R[k] = IF k = 0 THEN base ELSE One(R[k - 1], k)
  BY <1>5, Zenon
<1>7. R[0] = base
  BY <1>0, <1>6
<1>8. \A k \in 1 .. RegisterSize : R[k] = One(R[k - 1], k)
  BY <1>0, <1>6
<1> QED BY <1>7, <1>8, Zenon DEF One, base, R

(* What is fresh while a register is measured.                             *)
StillFresh(forgets, k) ==
  IF forgets THEN Keys ELSE Keys \ {Key(IndexText[j]) : j \in 0 .. k - 1}

(* The measurement of one qubit more.                                      *)
LEMMA MeasureOneMore ==
  ASSUME NEW c, NEW forgets \in BOOLEAN, NEW k \in 1 .. RegisterSize,
         Good(c, StillFresh(forgets, k - 1))
  PROVE  Good(MeasureNext(c, k, forgets), StillFresh(forgets, k))
<1> DEFINE text  == IndexText[k - 1]
           q     == get_or_extract_qubit(c, text)
           w     == Mz(q, text)
           fresh == StillFresh(forgets, k - 1)
           kept  == fresh \ {Key(text)}
<1>0. RegisterSize \in Nat /\ k - 1 \in DOMAIN IndexText
  BY RegisterSizeAssumption, TextsDiffer
<1>1. text \in Constants
  BY <1>0, TextsDiffer
<1>2. Key(text) \in fresh
  <2>1. Key(text) \in Keys
    BY <1>1 DEF Keys
  <2>2. \A j \in 0 .. k - 1 - 1 : j \in DOMAIN IndexText /\ j # k - 1
    BY <1>0, TextsDiffer
  <2>3. \A j \in 0 .. k - 1 - 1 : IndexText[j] # text
    BY <1>0, <2>2, TextsDiffer
  <2>4. \A j \in 0 .. k - 1 - 1 : Key(IndexText[j]) # Key(text)
    BY <2>3, KeysDiffer
  <2> QED BY <2>1, <2>4 DEF StillFresh
<1>3. MeasureNext(c, k, forgets) =
        IF forgets THEN erase_symbol(w, array_qubit_symbol_name(text)) ELSE w
  BY Zenon DEF MeasureNext
<1>4. \A key \in StillFresh(forgets, k) : key \in fresh /\ (~ forgets => key # Key(text))
  BY <1>0, RegisterSizeAssumption DEF StillFresh
<1> HIDE DEF text, fresh
<1>5. Good(q.unit, fresh) /\ Carries(q.unit, q.value, text)
  BY <1>1, <1>2, GetIsGood DEF fresh
<1> HIDE DEF q
<1>6. Good(w, kept)
  <2>1. text \in Texts /\ kept \in SUBSET fresh /\ Key(text) \notin kept
    BY <1>1, TextsDiffer DEF Texts
  <2> HIDE DEF kept
  <2> QED BY <1>5, <2>1, MzIsGood
<1> HIDE DEF w
<1>7. CASE ~ forgets
  <2>1. \A key \in StillFresh(forgets, k) : key \in kept
    BY <1>4, <1>7
  <2> HIDE DEF kept
  <2> QED BY <1>3, <1>6, <1>7, <2>1, GoodWithFewer
<1>8. CASE forgets
  <2>1. array_qubit_symbol_name(text) = Key(text) /\ ScalarName \notin {Key(text)}
    BY <1>1, KeysDiffer, TextsDiffer
  <2>2. \A key \in StillFresh(forgets, k) : key \in kept \cup {Key(text)}
    BY <1>4, <1>8
  <2> HIDE DEF kept
  <2>3. Good(erase_symbol(w, Key(text)), kept \cup {Key(text)})
    BY <1>6, <2>1, EraseIsGood DEF erase_symbol
  <2> QED BY <1>3, <1>8, <2>1, <2>2, <2>3, GoodWithFewer
<1> QED BY <1>7, <1>8

(* The measurement of all qubits of q, in a range or as a register.        *)
LEMMA MeasureAllIsGood ==
  ASSUME NEW t, Good(t, Keys)
  PROVE  Good(MeasureRange(t), Keys) /\ Good(MeasureRegister(t), Keys)
<1>1. ASSUME NEW forgets \in BOOLEAN
      PROVE  Good(Measuring(t, forgets)[RegisterSize], StillFresh(forgets, RegisterSize))
  <2> DEFINE R == Measuring(t, forgets)
             T == {k \in 0 .. RegisterSize : Good(R[k], StillFresh(forgets, k))}
  <2>0. RegisterSize \in Nat
    BY RegisterSizeAssumption
  <2>1. R[0] = t /\ \A k \in 1 .. RegisterSize : R[k] = MeasureNext(R[k - 1], k, forgets)
    BY MeasuringSteps
  <2> HIDE DEF R
  <2>2. 0 \in T
    <3>1. StillFresh(forgets, 0) = Keys
      BY DEF StillFresh
    <3> QED BY <2>0, <2>1, <3>1
  <2>3. ASSUME NEW k \in 1 .. RegisterSize, k - 1 \in T PROVE k \in T
    <3>1. Good(R[k - 1], StillFresh(forgets, k - 1)) /\ R[k] = MeasureNext(R[k - 1], k, forgets)
      BY <2>1, <2>3
    <3>2. Good(R[k], StillFresh(forgets, k))
      BY <3>1, MeasureOneMore
    <3> QED BY <2>0, <3>2
  <2>4. RegisterSize \in T
    <3> HIDE DEF T
    <3> QED BY <2>0, <2>2, <2>3, CountingUp
  <2> QED BY <2>4 DEF R
<1>2. Good(MeasureRange(t), Keys)
  BY <1>1 DEF MeasureRange, StillFresh
<1>3. Good(MeasureRegister(t), Keys)
  <2> DEFINE u == Measuring(t, FALSE)[RegisterSize]
             F == StillFresh(FALSE, RegisterSize)
             C == {Key(x) : x \in Constants}
  <2>1. Good(u, F)
    BY <1>1
  <2>2. \A key \in Keys : key \in F \cup C
    <3>1. \A x \in Constants : Key(x) \in C
      OBVIOUS
    <3>2. \A j \in 0 .. RegisterSize - 1 : Key(IndexText[j]) \in C
      BY <3>1, TextsDiffer
    <3> QED BY <3>2 DEF StillFresh
  <2> HIDE DEF u, F
  <2>3. Good(invalidate_qubit_extracts(u), F \cup C)
    BY <2>1, InvalidateIsGood
  <2> HIDE DEF C
  <2>4. Good(invalidate_qubit_extracts(u), Keys)
    BY <2>2, <2>3, GoodWithFewer
  <2> QED BY <2>4 DEF MeasureRegister, u
<1> QED BY <1>2, <1>3

-----------------------------------------------------------------------------
(* Every statement the front end takes.                                    *)
LEMMA TranslatedIsGood ==
  ASSUME NEW t, Good(t, Keys), NEW st, IsStatement(st), st.kind \in Simple
  PROVE  Good(Translated(t, st), Keys)
<1>0. Named \subseteq Texts /\ Range(IndexText) = Constants
  BY TextsDiffer DEF Texts
<1>1. CASE st.kind \in {"gate", "call"}
  <2>1. st.on \in Seq(Texts) /\ Translated(t, st) = GateOn(t, st.kind, st.on)
    BY <1>1 DEF IsStatement, Translated
  <2> QED BY <1>1, <2>1, GateIsGood
<1>2. CASE st.kind = "modified"
  <2>1. st.on \in Seq(Named) /\ Translated(t, st) = Modified(t, st)
    BY <1>2 DEF IsStatement, Translated
  <2>2. st.on \in Seq(Texts)
    BY <1>0, <2>1
  <2> QED BY <2>1, <2>2, ModifiedIsGood
<1>3. CASE st.kind = "broadcast"
  <2>1. st.on \in {<<>>, <<"s">>} /\ Translated(t, st) = Broadcast(t, st.on)
    BY <1>3 DEF IsStatement, Translated
  <2> QED BY <2>1, BroadcastIsGood
<1>4. CASE st.kind = "subroutine"
  <2>1. st.on[1] \in Constants \cup {"q"} /\ Translated(t, st) = Subroutine(t, st.on[1], st.does)
    BY <1>0, <1>4 DEF IsStatement, Translated
  <2> QED BY <2>1, SubroutineIsGood
<1>5. CASE st.kind = "measure"
  <2>1. st.on[1] \in Texts /\ Translated(t, st) = MeasureOne(t, st.on[1])
    BY <1>5 DEF IsStatement, Translated
  <2> QED BY <2>1, MeasureOneIsGood
<1>6. CASE st.kind \in {"measure range", "measure register"}
  <2>1. Translated(t, st) \in {MeasureRange(t), MeasureRegister(t)}
    BY <1>6 DEF Translated
  <2> QED BY <2>1, MeasureAllIsGood
<1> QED BY <1>1, <1>2, <1>3, <1>4, <1>5, <1>6 DEF Simple

-----------------------------------------------------------------------------
(* Scopes are opened and closed round the same operations: what is left of *)
(* the table is where it was, or in a region inside.                       *)
LEMMA RescopedIsGood ==
  ASSUME NEW t, Good(t, Keys), NEW u, Shape(u), u.ops = t.ops, u.keyOf = t.keyOf,
         \A i \in 1 .. Len(u.scopes) :
           \/ u.scopes[i] = <<>> /\ i # 1
           \/ /\ i \in 1 .. Len(t.scopes) /\ u.scopes[i] = t.scopes[i]
              /\ Within(RegionOf(t, i), RegionOf(u, i))
  PROVE  Good(u, Keys)
<1>1. ASSUME NEW i \in 1 .. Len(u.scopes), NEW key \in DOMAIN u.scopes[i]
      PROVE  Entry(u, i, key, Keys)
  <2>1. /\ i \in 1 .. Len(t.scopes) /\ u.scopes[i] = t.scopes[i]
        /\ Within(RegionOf(t, i), RegionOf(u, i))
    <3>1. DOMAIN <<>> = {}
      OBVIOUS
    <3> QED BY <3>1
  <2>2. Entry(t, i, key, Keys)
    BY <2>1 DEF Good, Symbols
  <2> QED BY <2>1, <2>2, WithinOneMore DEF Entry
<1>2. ScalarName \in DOMAIN u.scopes[1]
  <2>1. 1 \in 1 .. Len(u.scopes)
    BY HereIsWithin
  <2> QED BY <2>1 DEF Good, Symbols
<1>3. Symbols(u, Keys)
  <2>1. \A v \in DOMAIN u.keyOf : IsValue(u.ops, v) /\ u.keyOf[v] = Key(TextOf(u.ops, v))
    BY DEF Good, Symbols
  <2> QED BY <1>1, <1>2, <2>1, Zenon DEF Symbols
<1> QED BY <1>3 DEF Good, OpsInv

(* The regions a block opens are inside the one around it.                 *)
LEMMA IntoIsWithin ==
  ASSUME NEW t, IsList(t.region), NEW kinds, IsList(kinds), NEW condition,
         DOMAIN t = {"ops", "region", "opened", "scopes", "keyOf", "blocks"}
  PROVE  LET u == Into(t, kinds, condition)
         IN  /\ DOMAIN u = DOMAIN t /\ Within(t.region, u.region)
             /\ u.ops = t.ops /\ u.scopes = t.scopes /\ u.keyOf = t.keyOf /\ u.blocks = t.blocks
<1> DEFINE new == [n \in DOMAIN kinds |->
                     [kind |-> kinds[n], id |-> t.opened + n,
                      condition |-> IF n = 1 THEN condition ELSE "whole"]]
           u == Into(t, kinds, condition)
<1>1. IsList(new)
  <2>1. DOMAIN kinds = 1 .. Len(kinds) /\ Len(kinds) \in Nat
    BY DEF IsList
  <2>2. DOMAIN new = 1 .. Len(kinds)
    BY <2>1
  <2>3. new = [n \in 1 .. Len(kinds) |-> new[n]]
    BY <2>1
  <2> HIDE DEF new
  <2>4. Len(new) = Len(kinds)
    BY <2>1, <2>3
  <2> QED BY <2>1, <2>3, <2>4 DEF IsList
<1>2. /\ DOMAIN u = DOMAIN t /\ u.region = t.region \o new
      /\ u.ops = t.ops /\ u.scopes = t.scopes /\ u.keyOf = t.keyOf /\ u.blocks = t.blocks
  <2>1. u = [t EXCEPT !.opened = @ + Len(kinds), !.region = @ \o new]
    BY DEF Into
  <2> HIDE DEF new, u
  <2> QED BY <2>1
<1> HIDE DEF new
<1> QED BY <1>1, <1>2, WithinOpened

(* The fields of a block.                                                  *)
IsBlock(b) == DOMAIN b = {"kind", "breakable", "region", "from", "directive", "other"}

(* The regions of the blocks, one in the other, are what the shape is      *)
(* about: those of the scopes kept, and one more in the last of them.      *)
LEMMA ShapeGrows ==
  ASSUME NEW t, Shape(t), NEW u, DOMAIN u = DOMAIN t, IsList(u.scopes), IsList(u.blocks),
         Len(u.scopes) = Len(u.blocks) + 1, Len(u.blocks) <= MaxDepth,
         NEW m \in 1 .. Len(t.scopes),
         Len(u.scopes) \in {m, m + 1},
         \A i \in 1 .. Len(u.blocks) : IsBlock(u.blocks[i]),
         \A i \in 1 .. Len(u.scopes) : i < Len(u.scopes) => u.blocks[i].region = RegionOf(t, i),
         Within(RegionOf(t, m), u.region)
  PROVE  /\ Shape(u)
         /\ \A i \in 1 .. m : Within(RegionOf(t, i), RegionOf(u, i))
<1> DEFINE n == Len(u.scopes)
<1>1. /\ Len(t.scopes) \in Nat /\ n \in Nat /\ m \in Nat /\ n \in {m, m + 1} /\ n >= 1
      /\ \A i \in 1 .. m : i \in 1 .. Len(t.scopes)
  BY HereIsWithin
<1>2. \A i \in 1 .. n : RegionOf(u, i) = IF i = n THEN u.region ELSE RegionOf(t, i)
  BY <1>1 DEF RegionOf
<1>3. \A i, j \in 1 .. m : i <= j => Within(RegionOf(t, i), RegionOf(t, j))
  BY <1>1 DEF Shape
<1>4. IsList(u.region)
  BY DEF Within
<1>5. ASSUME NEW i \in 1 .. n, NEW j \in 1 .. n, i <= j
      PROVE  Within(RegionOf(u, i), RegionOf(u, j))
  <2>1. CASE j # n
    <3>1. i # n /\ i \in 1 .. m /\ j \in 1 .. m
      BY <1>1, <1>5, <2>1
    <3> QED BY <1>2, <1>3, <1>5, <2>1, <3>1
  <2>2. CASE j = n /\ i = n
    BY <1>2, <1>4, <2>2, WithinItself
  <2>3. CASE j = n /\ i # n
    <3>1. i \in 1 .. m /\ i <= m /\ m \in 1 .. m
      BY <1>1, <1>5, <2>3
    <3>2. Within(RegionOf(t, i), RegionOf(t, m))
      BY <1>3, <3>1
    <3>3. Within(RegionOf(t, i), u.region)
      BY <3>2, WithinOneMore
    <3> QED BY <1>2, <2>3, <3>3
  <2> QED BY <2>1, <2>2, <2>3
<1>6. ASSUME NEW i \in 1 .. m
      PROVE  Within(RegionOf(t, i), RegionOf(u, i))
  <2>1. i \in 1 .. n /\ m \in 1 .. m /\ i <= m
    BY <1>1
  <2>2. CASE i = n
    <3>1. i = m
      BY <1>1, <2>1, <2>2
    <3> QED BY <1>2, <2>1, <2>2, <3>1
  <2>3. CASE i # n
    <3>1. Within(RegionOf(t, i), RegionOf(t, i))
      BY <1>3, <2>1
    <3> QED BY <1>2, <2>1, <2>3, <3>1
  <2> QED BY <2>2, <2>3
<1>7. Shape(u)
  BY <1>5 DEF Shape, IsBlock
<1> QED BY <1>6, <1>7

(* A block is opened.                                                      *)
LEMMA OpenedIsGood ==
  ASSUME NEW t, Good(t, Keys), Len(t.blocks) < MaxDepth, NEW kinds, IsList(kinds),
         NEW block, IsBlock(block), block.region = t.region
  PROVE  LET u == Opened(t, kinds, block)
         IN  Good(u, Keys) /\ Len(u.blocks) = Len(t.blocks) + 1
<1> DEFINE a == [t EXCEPT !.blocks = Append(@, block)]
           b == Into(a, kinds, "program")
           u == Opened(t, kinds, block)
           m == Len(t.scopes)
<1>1. /\ DOMAIN a = DOMAIN t /\ a.region = t.region /\ a.ops = t.ops /\ a.scopes = t.scopes
      /\ a.keyOf = t.keyOf /\ a.blocks = Append(t.blocks, block)
      /\ DOMAIN a = {"ops", "region", "opened", "scopes", "keyOf", "blocks"} /\ IsList(a.region)
  BY HereIsWithin DEF Good, Shape
<1>2. u = [b EXCEPT !.scopes = Append(@, <<>>)]
  BY DEF Opened, enter_new_scope
<1> HIDE DEF a, u
<1>3. /\ DOMAIN b = DOMAIN a /\ Within(a.region, b.region)
      /\ b.ops = a.ops /\ b.scopes = a.scopes /\ b.keyOf = a.keyOf /\ b.blocks = a.blocks
  BY <1>1, IntoIsWithin
<1> HIDE DEF b
<1>4. /\ DOMAIN u = DOMAIN t /\ Within(t.region, u.region) /\ u.ops = t.ops
      /\ u.keyOf = t.keyOf /\ u.blocks = Append(t.blocks, block)
      /\ u.scopes = Append(t.scopes, <<>>)
  BY <1>1, <1>2, <1>3
<1>5. /\ IsList(t.scopes) /\ IsList(t.blocks) /\ m = Len(t.blocks) + 1 /\ m \in 1 .. m
      /\ RegionOf(t, m) = t.region /\ Len(t.blocks) \in Nat
      /\ \A i \in 1 .. Len(t.blocks) : IsBlock(t.blocks[i])
  BY HereIsWithin DEF Good, Shape, IsBlock
<1>6. /\ IsList(u.blocks) /\ Len(u.blocks) = m /\ u.blocks[m] = block
      /\ \A i \in 1 .. Len(t.blocks) : u.blocks[i] = t.blocks[i]
      /\ Len(u.blocks) <= MaxDepth
  BY <1>4, <1>5, ListAppends, VocabulariesAssumption
<1>7. /\ IsList(u.scopes) /\ Len(u.scopes) = m + 1 /\ u.scopes[m + 1] = <<>>
      /\ \A i \in 1 .. m : u.scopes[i] = t.scopes[i]
  BY <1>4, <1>5, ListAppends
<1>8. \A i \in 1 .. Len(u.blocks) : IsBlock(u.blocks[i])
  BY <1>5, <1>6
<1>9. \A i \in 1 .. Len(u.scopes) : i < Len(u.scopes) => u.blocks[i].region = RegionOf(t, i)
  <2> SUFFICES ASSUME NEW i \in 1 .. m PROVE u.blocks[i].region = RegionOf(t, i)
    BY <1>5, <1>7
  <2>1. CASE i = m
    BY <1>5, <1>6, <2>1
  <2>2. CASE i # m
    <3>1. i \in 1 .. Len(t.blocks)
      BY <1>5, <2>2
    <3> QED BY <1>6, <2>2, <3>1 DEF RegionOf
  <2> QED BY <2>1, <2>2
<1>10. Shape(u) /\ \A i \in 1 .. m : Within(RegionOf(t, i), RegionOf(u, i))
  BY <1>4, <1>5, <1>6, <1>7, <1>8, <1>9, ShapeGrows DEF Good
<1>11. Good(u, Keys)
  <2>1. \A i \in 1 .. Len(u.scopes) :
           \/ u.scopes[i] = <<>> /\ i # 1
           \/ /\ i \in 1 .. Len(t.scopes) /\ u.scopes[i] = t.scopes[i]
              /\ Within(RegionOf(t, i), RegionOf(u, i))
    BY <1>5, <1>7, <1>10
  <2> QED BY <1>4, <1>10, <2>1, RescopedIsGood
<1> QED BY <1>5, <1>6, <1>11 DEF u

(* A region is opened without a block.                                     *)
LEMMA IntoIsGood ==
  ASSUME NEW t, Good(t, Keys), NEW kinds, IsList(kinds), NEW condition
  PROVE  LET u == Into(t, kinds, condition)
         IN  Good(u, Keys) /\ u.blocks = t.blocks
<1> DEFINE u == Into(t, kinds, condition)
           m == Len(t.scopes)
<1>1. /\ DOMAIN u = DOMAIN t /\ Within(t.region, u.region)
      /\ u.ops = t.ops /\ u.scopes = t.scopes /\ u.keyOf = t.keyOf /\ u.blocks = t.blocks
  <2>1. DOMAIN t = {"ops", "region", "opened", "scopes", "keyOf", "blocks"} /\ IsList(t.region)
    BY HereIsWithin DEF Good, Shape
  <2> QED BY <2>1, IntoIsWithin
<1> HIDE DEF u
<1>2. /\ IsList(t.scopes) /\ IsList(t.blocks) /\ m = Len(t.blocks) + 1 /\ m \in 1 .. m /\ m \in Nat
      /\ RegionOf(t, m) = t.region /\ Len(t.blocks) <= MaxDepth
      /\ \A i \in 1 .. Len(t.blocks) : IsBlock(t.blocks[i])
  BY HereIsWithin DEF Good, Shape, IsBlock
<1>3. \A i \in 1 .. m : i < m => u.blocks[i].region = RegionOf(t, i)
  BY <1>1, <1>2 DEF RegionOf
<1>4. Shape(u) /\ \A i \in 1 .. m : Within(RegionOf(t, i), RegionOf(u, i))
  BY <1>1, <1>2, <1>3, ShapeGrows DEF Good
<1>5. \A i \in 1 .. Len(u.scopes) :
        i \in 1 .. Len(t.scopes) /\ u.scopes[i] = t.scopes[i] /\ Within(RegionOf(t, i), RegionOf(u, i))
  BY <1>1, <1>4
<1>6. Good(u, Keys)
  BY <1>1, <1>4, <1>5, RescopedIsGood
<1> QED BY <1>1, <1>6 DEF u

(* The innermost scope is left, and the next operation goes round it.      *)
Left(t) ==
  [exit_scope(t) EXCEPT !.region = Last(t.blocks).region, !.blocks = Front(@)]
LEMMA LeftIsGood ==
  ASSUME NEW t, Good(t, Keys), t.blocks # <<>>
  PROVE  Good(Left(t), Keys) /\ Len(Left(t).blocks) = Len(t.blocks) - 1
<1> DEFINE u == Left(t)
           m == Len(t.blocks)
<1>1. /\ DOMAIN u = DOMAIN t /\ u.ops = t.ops /\ u.keyOf = t.keyOf
      /\ u.scopes = Front(t.scopes) /\ u.blocks = Front(t.blocks) /\ u.region = t.blocks[m].region
  BY DEF Left, exit_scope, Last, Good, Shape
<1> HIDE DEF u
<1>2. /\ IsList(t.scopes) /\ IsList(t.blocks) /\ Len(t.scopes) = m + 1 /\ m \in Nat
      /\ m <= MaxDepth /\ MaxDepth \in Nat
      /\ \A i \in 1 .. m : IsBlock(t.blocks[i]) /\ RegionOf(t, i) = t.blocks[i].region
      /\ \A i, j \in 1 .. m + 1 : i <= j => Within(RegionOf(t, i), RegionOf(t, j))
  BY HereIsWithin, VocabulariesAssumption DEF Good, Shape, IsBlock, RegionOf
<1>3. m >= 1
  <2>1. CASE m = 0
    <3>1. t.blocks = [i \in 1 .. 0 |-> t.blocks[i]]
      BY <1>2, <2>1 DEF IsList
    <3> QED BY <3>1
  <2> QED BY <1>2, <2>1
<1>4. /\ IsList(u.blocks) /\ Len(u.blocks) = m - 1
      /\ \A i \in 1 .. m - 1 : u.blocks[i] = t.blocks[i]
  BY <1>1, <1>2, <1>3, ListFront
<1>5. /\ IsList(u.scopes) /\ Len(u.scopes) = m
      /\ \A i \in 1 .. m : u.scopes[i] = t.scopes[i]
  <2>0. IsList(t.scopes) /\ Len(t.scopes) >= 1
    BY <1>2, <1>3
  <2>1. /\ IsList(Front(t.scopes)) /\ Len(Front(t.scopes)) = Len(t.scopes) - 1
        /\ \A i \in 1 .. Len(t.scopes) - 1 : Front(t.scopes)[i] = t.scopes[i]
    BY <2>0, ListFront
  <2>2. Len(t.scopes) - 1 = m
    BY <1>2
  <2> QED BY <1>1, <2>1, <2>2
<1>6. /\ m \in 1 .. Len(t.scopes) /\ Len(u.scopes) = Len(u.blocks) + 1
      /\ Len(u.blocks) <= MaxDepth
      /\ \A i \in 1 .. Len(u.blocks) : IsBlock(u.blocks[i])
      /\ \A i \in 1 .. Len(u.scopes) : i < Len(u.scopes) => u.blocks[i].region = RegionOf(t, i)
      /\ Within(RegionOf(t, m), u.region)
  <2>1. m \in 1 .. Len(t.scopes) /\ m \in 1 .. m /\ m <= m
    BY <1>2, <1>3
  <2>2. Within(RegionOf(t, m), u.region)
    <3>1. IsList(RegionOf(t, m)) /\ RegionOf(t, m) = u.region
      BY <1>1, <1>2, <2>1 DEF Within
    <3> QED BY <3>1, WithinItself
  <2>3. Len(u.scopes) = Len(u.blocks) + 1 /\ Len(u.blocks) <= MaxDepth
    BY <1>2, <1>3, <1>4, <1>5
  <2>4. \A i \in 1 .. m - 1 : i \in 1 .. m /\ i \in 1 .. Len(u.scopes) /\ i < Len(u.scopes)
    BY <1>2, <1>5
  <2>5. \A i \in 1 .. Len(u.blocks) : IsBlock(u.blocks[i])
    BY <1>2, <1>4, <2>4
  <2>6. \A i \in 1 .. Len(u.scopes) : i < Len(u.scopes) => u.blocks[i].region = RegionOf(t, i)
    <3> SUFFICES ASSUME NEW i \in 1 .. m - 1 PROVE u.blocks[i].region = RegionOf(t, i)
      BY <1>2, <1>5
    <3> QED BY <1>2, <1>4, <2>4
  <2> QED BY <2>1, <2>2, <2>3, <2>5, <2>6
<1>7. Shape(u) /\ \A i \in 1 .. m : Within(RegionOf(t, i), RegionOf(u, i))
  BY <1>1, <1>4, <1>5, <1>6, ShapeGrows DEF Good
<1>8. \A i \in 1 .. Len(u.scopes) :
        i \in 1 .. Len(t.scopes) /\ u.scopes[i] = t.scopes[i] /\ Within(RegionOf(t, i), RegionOf(u, i))
  BY <1>2, <1>5, <1>7
<1>9. Good(u, Keys)
  BY <1>1, <1>7, <1>8, RescopedIsGood
<1> QED BY <1>4, <1>9 DEF u

(* Blocks are marked; their regions stay.                                  *)
LEMMA MarkedIsGood ==
  ASSUME NEW t, Good(t, Keys), NEW u, DOMAIN u = DOMAIN t, u.ops = t.ops, u.region = t.region,
         u.scopes = t.scopes, u.keyOf = t.keyOf, IsList(u.blocks), Len(u.blocks) = Len(t.blocks),
         \A i \in 1 .. Len(t.blocks) :
           IsBlock(u.blocks[i]) /\ u.blocks[i].region = t.blocks[i].region
  PROVE  Good(u, Keys)
<1>1. /\ Len(t.scopes) = Len(t.blocks) + 1 /\ Len(t.blocks) \in Nat
      /\ \A i \in 1 .. Len(t.scopes) : Within(RegionOf(t, i), RegionOf(t, i))
  BY HereIsWithin DEF Good, Shape
<1>2. \A i \in 1 .. Len(t.scopes) : RegionOf(u, i) = RegionOf(t, i)
  BY <1>1 DEF RegionOf
<1>3. Shape(u)
  BY <1>1, <1>2 DEF Good, Shape, IsBlock
<1>4. \A i \in 1 .. Len(u.scopes) :
        i \in 1 .. Len(t.scopes) /\ u.scopes[i] = t.scopes[i] /\ Within(RegionOf(t, i), RegionOf(u, i))
  BY <1>1, <1>2
<1> QED BY <1>3, <1>4, RescopedIsGood

(* The second branch: a scope is left and another one entered in the same  *)
(* block, with a region of its own.                                        *)
Switched(t, kinds) ==
  enter_new_scope(Into([exit_scope(t) EXCEPT !.region = Last(t.blocks).region,
                                             !.blocks[Len(t.blocks)].other = TRUE],
                       kinds, "program"))
LEMMA SwitchedIsGood ==
  ASSUME NEW t, Good(t, Keys), t.blocks # <<>>, NEW kinds, IsList(kinds)
  PROVE  Good(Switched(t, kinds), Keys) /\ Len(Switched(t, kinds).blocks) = Len(t.blocks)
<1> DEFINE m == Len(t.blocks)
           a == [exit_scope(t) EXCEPT !.region = Last(t.blocks).region,
                                      !.blocks[Len(t.blocks)].other = TRUE]
           b == Into(a, kinds, "program")
           u == Switched(t, kinds)
<1>1. /\ IsList(t.scopes) /\ IsList(t.blocks) /\ Len(t.scopes) = m + 1 /\ m \in Nat
      /\ m <= MaxDepth /\ MaxDepth \in Nat
      /\ DOMAIN t.blocks = 1 .. m
      /\ DOMAIN t = {"ops", "region", "opened", "scopes", "keyOf", "blocks"}
      /\ \A i \in 1 .. m : IsBlock(t.blocks[i]) /\ RegionOf(t, i) = t.blocks[i].region
      /\ \A i, j \in 1 .. m + 1 : i <= j => Within(RegionOf(t, i), RegionOf(t, j))
  BY HereIsWithin, VocabulariesAssumption DEF Good, Shape, IsBlock, RegionOf
<1>2. m >= 1
  <2>1. CASE m = 0
    <3>1. t.blocks = [i \in 1 .. 0 |-> t.blocks[i]]
      BY <1>1, <2>1 DEF IsList
    <3> QED BY <3>1
  <2> QED BY <1>1, <2>1
<1>3. /\ DOMAIN a = DOMAIN t /\ a.region = t.blocks[m].region /\ a.ops = t.ops
      /\ a.scopes = Front(t.scopes) /\ a.keyOf = t.keyOf
      /\ a.blocks = [t.blocks EXCEPT ![m].other = TRUE]
      /\ DOMAIN a = {"ops", "region", "opened", "scopes", "keyOf", "blocks"}
  BY <1>1 DEF exit_scope, Last
<1>4. u = [b EXCEPT !.scopes = Append(@, <<>>)]
  BY DEF Switched, enter_new_scope
<1> HIDE DEF a, u
<1>5. /\ DOMAIN b = DOMAIN a /\ Within(a.region, b.region)
      /\ b.ops = a.ops /\ b.scopes = a.scopes /\ b.keyOf = a.keyOf /\ b.blocks = a.blocks
  <2>1. /\ IsList(a.region)
        /\ DOMAIN a = {"ops", "region", "opened", "scopes", "keyOf", "blocks"}
    BY <1>1, <1>2, <1>3 DEF Within
  <2> QED BY <2>1, IntoIsWithin
<1> HIDE DEF b
<1>6. /\ DOMAIN u = DOMAIN t /\ Within(RegionOf(t, m), u.region) /\ u.ops = t.ops
      /\ u.keyOf = t.keyOf /\ u.blocks = [t.blocks EXCEPT ![m].other = TRUE]
      /\ u.scopes = Append(Front(t.scopes), <<>>)
  BY <1>1, <1>2, <1>3, <1>4, <1>5
<1>7. /\ IsList(u.blocks) /\ Len(u.blocks) = m
      /\ \A i \in 1 .. m : IsBlock(u.blocks[i]) /\ u.blocks[i].region = RegionOf(t, i)
  <2>1. u.blocks = [i \in 1 .. m |-> IF i = m THEN [t.blocks[m] EXCEPT !.other = TRUE] ELSE t.blocks[i]]
    BY <1>1, <1>2, <1>6
  <2>2. IsList(u.blocks) /\ Len(u.blocks) = m
    BY <1>1, <2>1 DEF IsList
  <2>3. ASSUME NEW i \in 1 .. m PROVE IsBlock(u.blocks[i]) /\ u.blocks[i].region = RegionOf(t, i)
    <3>1. IsBlock(t.blocks[i]) /\ RegionOf(t, i) = t.blocks[i].region
      BY <1>1
    <3>2. CASE i = m
      <4>1. u.blocks[i] = [t.blocks[i] EXCEPT !.other = TRUE]
        BY <2>1, <3>2
      <4> QED BY <3>1, <4>1 DEF IsBlock
    <3>3. CASE i # m
      BY <2>1, <3>1, <3>3
    <3> QED BY <3>2, <3>3
  <2> QED BY <2>2, <2>3
<1>8. /\ IsList(u.scopes) /\ Len(u.scopes) = m + 1 /\ u.scopes[m + 1] = <<>>
      /\ \A i \in 1 .. m : u.scopes[i] = t.scopes[i]
  <2> DEFINE f == Front(t.scopes)
  <2>1. /\ IsList(f) /\ Len(f) = Len(t.scopes) - 1
        /\ \A i \in 1 .. Len(t.scopes) - 1 : f[i] = t.scopes[i]
    BY <1>1, <1>2, ListFront
  <2>2. Len(f) = m /\ \A i \in 1 .. m : f[i] = t.scopes[i]
    BY <1>1, <2>1
  <2> HIDE DEF f
  <2>3. /\ IsList(Append(f, <<>>)) /\ Len(Append(f, <<>>)) = Len(f) + 1
        /\ Append(f, <<>>)[Len(f) + 1] = <<>>
        /\ \A i \in 1 .. Len(f) : Append(f, <<>>)[i] = f[i]
    BY <2>1, ListAppends
  <2> QED BY <1>6, <2>2, <2>3 DEF f
<1>9. /\ m \in 1 .. Len(t.scopes) /\ Len(u.scopes) = Len(u.blocks) + 1
      /\ Len(u.blocks) <= MaxDepth
      /\ Len(u.scopes) \in {m, m + 1}
      /\ \A i \in 1 .. Len(u.blocks) : IsBlock(u.blocks[i])
      /\ \A i \in 1 .. Len(u.scopes) : i < Len(u.scopes) => u.blocks[i].region = RegionOf(t, i)
  BY <1>1, <1>2, <1>7, <1>8
<1>10. Shape(u) /\ \A i \in 1 .. m : Within(RegionOf(t, i), RegionOf(u, i))
  BY <1>6, <1>7, <1>8, <1>9, ShapeGrows DEF Good
<1>11. Good(u, Keys)
  <2>1. \A i \in 1 .. Len(u.scopes) :
           \/ u.scopes[i] = <<>> /\ i # 1
           \/ /\ i \in 1 .. Len(t.scopes) /\ u.scopes[i] = t.scopes[i]
              /\ Within(RegionOf(t, i), RegionOf(u, i))
    BY <1>1, <1>2, <1>8, <1>10
  <2> QED BY <1>6, <1>10, <2>1, RescopedIsGood
<1> QED BY <1>7, <1>11 DEF u

-----------------------------------------------------------------------------
(* The declarations.                                                       *)
LEMMA DeclaredIsGood == Good(Declared, Keys)
<1> DEFINE t == Declared
           v == <<3, 1>>
           names == Assigned(<<>>, ScalarName, v)
<1>1. /\ DOMAIN t = {"ops", "region", "opened", "scopes", "keyOf", "blocks"}
      /\ t.region = <<>> /\ t.blocks = <<>> /\ t.scopes = <<names>>
      /\ t.keyOf = Assigned(<<>>, v, ScalarName)
  BY DEF Declared
<1>2. /\ IsList(t.ops) /\ Len(t.ops) = 3
      /\ t.ops[1].region = <<>> /\ t.ops[1].args = <<>>
      /\ t.ops[2].region = <<>> /\ t.ops[2].args = <<>>
      /\ t.ops[3].region = <<>> /\ t.ops[3].args = <<ScalarRegister>>
      /\ t.ops[3].kind = "extract" /\ t.ops[3].on = <<"s">>
  BY DEF Declared, IsList
<1>3. /\ DOMAIN names = {ScalarName} /\ names[ScalarName] = v
      /\ DOMAIN t.keyOf = {v} /\ t.keyOf[v] = ScalarName
  <2>1. DOMAIN <<>> = {}
    OBVIOUS
  <2> QED BY <1>1, <2>1, Zenon DEF Assigned
<1> HIDE DEF t, names
<1>4. IsList(<<>>) /\ Within(<<>>, <<>>)
  <2>1. IsList(<<>>)
    BY DEF IsList
  <2> QED BY <2>1, WithinItself
<1>5. /\ IsList(t.scopes) /\ Len(t.scopes) = 1 /\ t.scopes[1] = names
      /\ IsList(t.blocks) /\ Len(t.blocks) = 0
  BY <1>1, <1>4 DEF IsList
<1>6. Shape(t)
  <2>1. \A i \in 1 .. Len(t.scopes) : RegionOf(t, i) = <<>>
    BY <1>1, <1>5 DEF RegionOf
  <2> QED BY <1>1, <1>4, <1>5, <2>1, VocabulariesAssumption DEF Shape
<1>7. OpsInv(t)
  <2>1. ASSUME NEW i \in 1 .. Len(t.ops), NEW k \in DOMAIN t.ops[i].args
        PROVE  Reads(t.ops, i, k)
    <3>1. DOMAIN <<>> = {} /\ DOMAIN <<ScalarRegister>> = {1} /\ <<ScalarRegister>>[1] = <<2, 1>>
      BY DEF ScalarRegister
    <3>2. i = 3 /\ k = 1
      BY <1>2, <3>1
    <3>3. t.ops[3].args[1] = <<2, 1>> /\ ~ Acts(t.ops[3])
      BY <1>2, <3>1 DEF Acts
    <3> QED BY <1>2, <1>4, <3>2, <3>3 DEF Reads
  <2> QED BY <1>2, <2>1 DEF OpsInv
<1>8. /\ IsValue(t.ops, v) /\ TextOf(t.ops, v) = "s" /\ Key("s") = ScalarName
      /\ ~ Acts(t.ops[v[1]]) /\ t.ops[v[1]].region = <<>>
  BY <1>2 DEF IsValue, TextOf, Key, Acts
<1>9. Symbols(t, Keys)
  <2>1. ASSUME NEW i \in 1 .. Len(t.scopes), NEW key \in DOMAIN t.scopes[i]
        PROVE  Entry(t, i, key, Keys)
    <3>1. i = 1 /\ key = ScalarName /\ t.scopes[i][key] = v /\ RegionOf(t, i) = <<>>
      BY <1>1, <1>3, <1>5 DEF RegionOf
    <3> QED BY <1>3, <1>4, <1>8, <3>1 DEF Entry, Untouched
  <2> QED BY <1>3, <1>5, <1>8, <2>1 DEF Symbols
<1> QED BY <1>6, <1>7, <1>9 DEF Good, t

(* Operations without operands that the symbol table is not told of.       *)
LEMMA DirectiveIsGood ==
  ASSUME NEW t, Good(t, Keys), NEW kind \in {"break", "continue"}
  PROVE  LET u == Emit(t, kind, <<>>, <<>>, "name")
         IN  Good(u, Keys) /\ SameTables(t, u)
<1> DEFINE none == <<>>
           name == "name"
<1>1. PICK u : u = Emit(t, kind, none, none, name)
  OBVIOUS
<1>2. DOMAIN none = {}
  OBVIOUS
<1> HIDE DEF none, name
<1>3. SameTables(t, u) /\ u.ops[Len(u.ops)].kind = kind
  BY <1>1, EmittedLast
<1>4. \A x : ~ Touches(u.ops[Len(u.ops)], x)
  BY <1>3 DEF Touches, IsTold, Acts
<1>5. Good(u, Keys)
  <2>1. (\A k \in DOMAIN none : Carries(t, none[k], none[k])) /\ Keys \in SUBSET Keys
    BY <1>2
  <2>2. LET w == Emit(t, kind, none, none, name)
        IN  (\A x : Key(x) \in Keys => ~ Touches(w.ops[Len(w.ops)], x)) => Good(w, Keys)
    BY <2>1, OperationIsGood
  <2> QED BY <1>1, <1>4, <2>2, Zenon
<1> QED BY <1>1, <1>3, <1>5 DEF none, name

-----------------------------------------------------------------------------
(* The inductive invariant: the program in the source is one of those in   *)
(* question, and the unit is sound.                                        *)
IInv ==
  /\ vocabulary \in Vocabularies /\ length \in 0 .. vocabulary.limit
  /\ Good(unit, Keys)

(* The declarations satisfy it.                                            *)
LEMMA InitIsGood ==
  ASSUME Init
  PROVE  IInv
<1>1. vocabulary.limit \in Nat
  BY VocabulariesAssumption DEF Init
<1> QED BY <1>1, DeclaredIsGood DEF Init, IInv

(* A line of the program is one more.                                      *)
LEMMA WritesAreCounted ==
  ASSUME IInv, Write, Good(unit', Keys)
  PROVE  IInv'
<1>1. vocabulary.limit \in Nat
  BY VocabulariesAssumption DEF IInv
<1>2. length' \in 0 .. vocabulary.limit
  BY <1>1 DEF IInv, Write
<1> QED BY <1>2 DEF IInv, Write

(* A statement.                                                            *)
LEMMA StatementIsGood ==
  ASSUME IInv, Statement
  PROVE  IInv'
<1>1. PICK st \in vocabulary.statements :
        st.kind \in Simple /\ Write /\ unit' = Translated(unit, st)
  BY DEF Statement
<1>2. IsStatement(st)
  BY VocabulariesAssumption DEF IInv
<1>3. Good(unit', Keys)
  BY <1>1, <1>2, TranslatedIsGood DEF IInv
<1> QED BY <1>1, <1>3, WritesAreCounted

(* A branch or a loop begins.                                              *)
LEMMA OpenIsGood ==
  ASSUME IInv, Open
  PROVE  IInv'
<1>1. PICK st \in vocabulary.statements :
        /\ Len(unit.blocks) < MaxDepth /\ Write
        /\ unit' = Opened(unit, IF st.kind \in For /\ st.breakable THEN <<st.kind, "if">>
                                                                   ELSE <<st.kind>>,
                          [kind |-> st.kind, breakable |-> st.breakable, region |-> unit.region,
                           from |-> Len(unit.ops), directive |-> FALSE, other |-> FALSE])
  BY DEF Open
<1> DEFINE kinds == IF st.kind \in For /\ st.breakable THEN <<st.kind, "if">> ELSE <<st.kind>>
           block == [kind |-> st.kind, breakable |-> st.breakable, region |-> unit.region,
                     from |-> Len(unit.ops), directive |-> FALSE, other |-> FALSE]
<1>2. IsList(kinds)
  BY DEF IsList
<1>3. IsBlock(block) /\ block.region = unit.region
  BY DEF IsBlock
<1>4. unit' = Opened(unit, kinds, block)
  BY <1>1
<1> HIDE DEF kinds, block
<1>5. Good(unit', Keys)
  BY <1>1, <1>2, <1>3, <1>4, OpenedIsGood DEF IInv
<1> QED BY <1>1, <1>5, WritesAreCounted

(* The second branch of a condition begins.                                *)
LEMMA ElseIsGood ==
  ASSUME IInv, Else
  PROVE  IInv'
<1> DEFINE kinds == <<"else">>
<1>1. Write /\ unit.blocks # <<>> /\ unit' = Switched(unit, kinds)
  BY DEF Else, Switched
<1>2. IsList(kinds)
  BY DEF IsList
<1> HIDE DEF kinds
<1>3. Good(unit', Keys)
  BY <1>1, <1>2, SwitchedIsGood DEF IInv
<1> QED BY <1>1, <1>3, WritesAreCounted

(* A loop is left from a branch.                                           *)
LEMMA LeaveIsGood ==
  ASSUME IInv, Leave
  PROVE  IInv'
<1>1. PICK st \in vocabulary.statements :
        /\ st.kind \in {"break", "continue"} /\ Write
        /\ unit' = [Emit(unit, st.kind, <<>>, <<>>, "name") EXCEPT !.blocks = [i \in DOMAIN @ |->
             IF i = Len(@) THEN [@[i] EXCEPT !.directive = Front(unit.region) = unit.blocks[i].region]
             ELSE IF i \in Loops THEN [@[i] EXCEPT !.directive = TRUE] ELSE @[i]]]
  BY Zenon DEF Leave
<1> DEFINE t == Emit(unit, st.kind, <<>>, <<>>, "name")
<1>2. Good(t, Keys)
  BY <1>1, DirectiveIsGood DEF IInv
<1>3. unit' = [t EXCEPT !.blocks = [i \in DOMAIN t.blocks |->
             IF i = Len(t.blocks)
             THEN [t.blocks[i] EXCEPT !.directive = Front(unit.region) = unit.blocks[i].region]
             ELSE IF i \in Loops THEN [t.blocks[i] EXCEPT !.directive = TRUE] ELSE t.blocks[i]]]
  BY <1>1
<1> HIDE DEF t
<1> DEFINE marked == [i \in DOMAIN t.blocks |->
             IF i = Len(t.blocks)
             THEN [t.blocks[i] EXCEPT !.directive = Front(unit.region) = unit.blocks[i].region]
             ELSE IF i \in Loops THEN [t.blocks[i] EXCEPT !.directive = TRUE] ELSE t.blocks[i]]
           n == Len(t.blocks)
<1>4. /\ DOMAIN t = {"ops", "region", "opened", "scopes", "keyOf", "blocks"}
      /\ n \in Nat /\ DOMAIN t.blocks = 1 .. n
      /\ \A i \in 1 .. n : IsBlock(t.blocks[i])
  BY <1>2, HereIsWithin DEF Good, Shape, IsBlock
<1>5. /\ DOMAIN marked = 1 .. n
      /\ \A i \in 1 .. n : IsBlock(marked[i]) /\ marked[i].region = t.blocks[i].region
  <2>1. DOMAIN marked = 1 .. n
    BY <1>4
  <2>2. ASSUME NEW i \in 1 .. n
        PROVE  IsBlock(marked[i]) /\ marked[i].region = t.blocks[i].region
    <3>1. IsBlock(t.blocks[i])
      BY <1>4
    <3>2. \/ \E d : marked[i] = [t.blocks[i] EXCEPT !.directive = d]
          \/ marked[i] = t.blocks[i]
      BY <1>4, Zenon
    <3> HIDE DEF marked
    <3> QED BY <3>1, <3>2 DEF IsBlock
  <2> QED BY <2>1, <2>2
<1>6. /\ DOMAIN unit' = DOMAIN t /\ unit'.ops = t.ops /\ unit'.region = t.region
      /\ unit'.scopes = t.scopes /\ unit'.keyOf = t.keyOf /\ unit'.blocks = marked
  <2>1. unit' = [t EXCEPT !.blocks = marked]
    BY <1>3
  <2> HIDE DEF marked
  <2> QED BY <1>4, <2>1
<1>7. IsList(marked) /\ Len(marked) = n
  <2>1. marked = [i \in 1 .. n |-> marked[i]]
    BY <1>4
  <2> HIDE DEF marked
  <2>2. Len(marked) = n
    BY <1>4, <2>1
  <2> QED BY <1>4, <2>1, <2>2 DEF IsList
<1> HIDE DEF marked
<1>8. Good(unit', Keys)
  BY <1>2, <1>5, <1>6, <1>7, MarkedIsGood
<1> QED BY <1>1, <1>8, WritesAreCounted

(* A block ends.                                                           *)
LEMMA CloseIsGood ==
  ASSUME IInv, Close
  PROVE  IInv'
<1> DEFINE b     == Last(unit.blocks)
           u     == Left(unit)
           kinds == <<"if">>
<1>1. /\ unit.blocks # <<>> /\ Write
      /\ unit' = IF b.kind = "if" /\ b.directive THEN Into(u, kinds, "block") ELSE u
  BY DEF Close, Left
<1>2. Good(u, Keys)
  BY <1>1, LeftIsGood DEF IInv
<1>3. IsList(kinds)
  BY DEF IsList
<1> HIDE DEF b, u, kinds
<1>4. \A condition : Good(Into(u, kinds, condition), Keys)
  BY <1>2, <1>3, IntoIsGood
<1>5. Good(unit', Keys)
  BY <1>1, <1>2, <1>4
<1> QED BY <1>1, <1>5, WritesAreCounted

(* Every step keeps it.                                                    *)
LEMMA StepIsGood ==
  ASSUME IInv, [Next]_vars
  PROVE  IInv'
<1>1. CASE Statement
  BY <1>1, StatementIsGood
<1>2. CASE Open
  BY <1>2, OpenIsGood
<1>3. CASE Else
  BY <1>3, ElseIsGood
<1>4. CASE Leave
  BY <1>4, LeaveIsGood
<1>5. CASE Close
  BY <1>5, CloseIsGood
<1>6. CASE Simplify
  BY <1>6 DEF Simplify, IInv
<1>7. CASE UNCHANGED vars
  BY <1>7 DEF vars, IInv
<1> QED BY <1>1, <1>2, <1>3, <1>4, <1>5, <1>6, <1>7 DEF Next

-----------------------------------------------------------------------------
(* Every operand, as the operation that takes it reads it.                 *)
LEMMA OperandsAreRead ==
  ASSUME IInv, NEW i \in DOMAIN unit.ops, NEW k \in DOMAIN unit.ops[i].args
  PROVE  Reads(unit.ops, i, k) /\ i \in Nat
<1>1. DOMAIN unit.ops = 1 .. Len(unit.ops) /\ Len(unit.ops) \in Nat
  BY DEF IInv, Good, OpsInv, IsList
<1> QED BY <1>1 DEF IInv, Good, OpsInv

(* The types of the variables: a scope for every open block, and every     *)
(* operand is a value of an operation before.                              *)
LEMMA GoodIsTyped ==
  ASSUME IInv
  PROVE  TypeOK
<1>1. IsInOrder(unit.ops)
  <2> SUFFICES ASSUME NEW i \in DOMAIN unit.ops, NEW k \in DOMAIN unit.ops[i].args
               PROVE  unit.ops[i].args[k][1] < i
    BY DEF IsInOrder
  <2> QED BY OperandsAreRead DEF Reads
<1> QED BY <1>1 DEF TypeOK, IInv, Good, Shape

(* The value a gate reads was extracted or returned on the same qubit.     *)
LEMMA GoodIsWhereWritten ==
  ASSUME IInv
  PROVE  GatesActWhereWritten
<1> SUFFICES ASSUME NEW i \in DOMAIN unit.ops, Acts(unit.ops[i]), NEW k \in DOMAIN unit.ops[i].args
             PROVE  LET from == unit.ops[i].args[k]
                    IN  unit.ops[i].on[k] = unit.ops[from[1]].on[from[2]]
  BY DEF GatesActWhereWritten
<1> QED BY OperandsAreRead DEF Reads, TextOf

(* The region of the operation that defines a value is round the reader's. *)
LEMMA GoodIsDominated ==
  ASSUME IInv
  PROVE  ValuesAreDominated
<1> SUFFICES ASSUME NEW i \in DOMAIN unit.ops, NEW k \in DOMAIN unit.ops[i].args
             PROVE  LET from == unit.ops[unit.ops[i].args[k][1]]
                    IN  from.kind \in {"call", "modified"} \/ unit.ops[i].on[k] = "s"
                          \/ IsPrefix(from.region, unit.ops[i].region)
  BY DEF ValuesAreDominated
<1> QED BY OperandsAreRead DEF Reads, Within

(* No operation between the two ends of a link touches the qubit.          *)
LEMMA GoodSkipsNothing ==
  ASSUME IInv
  PROVE  TranslatedLinksSkipNothing
<1> SUFFICES ASSUME NEW link \in Links(unit.ops), NEW j \in Between(unit.ops, link),
                    IsTold(unit.ops[j]), NEW n \in DOMAIN unit.ops[j].on
             PROVE  LET text == unit.ops[link[1]].on[link[2]]
                    IN  unit.ops[j].on[n] # text /\ (unit.ops[j].on[n] = "i" => text = "s")
  BY DEF TranslatedLinksSkipNothing
<1>0. PICK i \in DOMAIN unit.ops : \E k \in DOMAIN unit.ops[i].args :
        Acts(unit.ops[i]) /\ Acts(unit.ops[unit.ops[i].args[k][1]]) /\ link = <<i, k>>
  BY DEF Links
<1>1. PICK k \in DOMAIN unit.ops[i].args :
        Acts(unit.ops[i]) /\ Acts(unit.ops[unit.ops[i].args[k][1]]) /\ link = <<i, k>>
  BY <1>0
<1>2. link[1] = i /\ link[2] = k
  BY <1>1
<1>3. j \in unit.ops[i].args[k][1] + 1 .. i - 1
  BY <1>2 DEF Between
<1>4. ~ Touches(unit.ops[j], unit.ops[i].on[k])
  BY <1>1, <1>3, OperandsAreRead DEF Reads
<1> QED BY <1>2, <1>4 DEF Touches

-----------------------------------------------------------------------------
(* Every unit under translation is sound.                                  *)
THEOREM UnitIsSound == Spec => []IInv
<1>1. Init => IInv
  BY InitIsGood
<1>2. IInv /\ [Next]_vars => IInv'
  BY StepIsGood
<1> QED BY <1>1, <1>2, PTL DEF Spec

(* visitQuantumGateCall and the rest of the visitor, for every program of  *)
(* statements and blocks, every register and depth: a scope for every open *)
(* block, and every operand a value of an operation before.                *)
THEOREM TypesHold == Spec => []TypeOK
<1>1. IInv => TypeOK
  BY GoodIsTyped
<1> QED BY <1>1, UnitIsSound, PTL

(* get_or_extract_qubit and replace_symbol: however names were forgotten,  *)
(* replaced and extracted again, a gate or a measurement reads a value     *)
(* that was extracted or returned on the qubit the statement names.        *)
THEOREM GatesActOnTheirQubits == Spec => []GatesActWhereWritten
<1>1. IInv => GatesActWhereWritten
  BY GoodIsWhereWritten
<1> QED BY <1>1, UnitIsSound, PTL

(* verify_qubit_ssa_dominance_property: a value that a gate made or that   *)
(* was extracted in a region is not used outside it.                       *)
THEOREM RegionsDominate == Spec => []ValuesAreDominated
<1>1. IInv => ValuesAreDominated
  BY GoodIsDominated
<1> QED BY <1>1, UnitIsSound, PTL

(* invalidate_qubit_extracts: a gate is linked to the gate before it on    *)
(* its qubit past no access to it that the symbol table was told of.       *)
THEOREM LinksSkipNothing == Spec => []TranslatedLinksSkipNothing
<1>1. IInv => TranslatedLinksSkipNothing
  BY GoodSkipsNothing
<1> QED BY <1>1, UnitIsSound, PTL

-----------------------------------------------------------------------------
(* Simplification.  Two values of the same qubit; where no gate reads a    *)
(* value of another region, also of the same region.                       *)
IsSealed(ops) ==
  \A i \in {i \in DOMAIN ops : Acts(ops[i])} : \A k \in DOMAIN ops[i].args :
    ops[ops[i].args[k][1]].region = ops[i].region
Fields == {"kind", "region", "args", "known", "wires"}
IsResult(ops, v) == v[1] \in 1 .. Len(ops) /\ v[2] \in DOMAIN ops[v[1]].wires
Matches(ops, sealed, v, w) ==
  /\ ops[v[1]].wires[v[2]] = ops[w[1]].wires[w[2]]
  /\ sealed => ops[v[1]].region = ops[w[1]].region

(* Operand k of operation i may be v.                                      *)
Suits(ops, sealed, i, k, v) ==
  /\ v \in (1 .. i - 1) \X Nat
  /\ Acts(ops[i]) => IsResult(ops, v) /\ Matches(ops, sealed, v, <<i, k>>)
  /\ sealed => ops[v[1]].region = ops[ops[i].args[k][1]].region

(* "out" is the same operations, on operands that suit them.               *)
SameOp(op, new) ==
  /\ DOMAIN op = Fields /\ DOMAIN new = Fields
  /\ new.kind = op.kind /\ new.region = op.region
  /\ new.known = op.known /\ new.wires = op.wires
  /\ IsList(op.args) /\ IsList(new.args) /\ Len(new.args) = Len(op.args)
Relinked(ops, sealed, out) ==
  /\ IsList(ops) /\ IsList(out) /\ Len(out) = Len(ops)
  /\ \A i \in 1 .. Len(ops) :
       /\ SameOp(ops[i], out[i])
       /\ Acts(ops[i]) => DOMAIN ops[i].wires = DOMAIN ops[i].args
       /\ ops[i].kind = "extract" => DOMAIN ops[i].wires = {1}
       /\ ops[i].kind = "gate" /\ Len(ops[i].args) = 2 => ops[i].wires[1] # ops[i].wires[2]
       /\ \A k \in 1 .. Len(ops[i].args) : Suits(ops, sealed, i, k, out[i].args[k])

(* A program is itself on operands that suit it.                           *)
LEMMA ProgramsAreLinked ==
  ASSUME NEW Op, NEW ops \in Seq(Op), IsProgram(ops)
  PROVE  Relinked(ops, IsSealed(ops), ops)
<1>1. IsList(ops)
  BY SequencesAreLists
<1>2. DOMAIN ops = 1 .. Len(ops) /\ Len(ops) \in Nat
  OBVIOUS
<1>3. ASSUME NEW i \in 1 .. Len(ops)
      PROVE  /\ SameOp(ops[i], ops[i])
             /\ Acts(ops[i]) => DOMAIN ops[i].wires = DOMAIN ops[i].args
             /\ ops[i].kind = "extract" => DOMAIN ops[i].wires = {1}
             /\ ops[i].kind = "gate" /\ Len(ops[i].args) = 2 => ops[i].wires[1] # ops[i].wires[2]
             /\ \A k \in 1 .. Len(ops[i].args) : Suits(ops, IsSealed(ops), i, k, ops[i].args[k])
  <2>1. /\ DOMAIN ops[i] = Fields
        /\ ops[i].args \in Seq((1 .. i - 1) \X Nat)
        /\ Acts(ops[i]) => DOMAIN ops[i].wires = DOMAIN ops[i].args
        /\ ops[i].kind = "extract" => DOMAIN ops[i].wires = {1}
        /\ ops[i].kind = "gate" /\ Len(ops[i].args) = 2 => ops[i].wires[1] # ops[i].wires[2]
    BY <1>2, Zenon DEF IsProgram, Fields
  <2>2. IsList(ops[i].args)
    BY <2>1, SequencesAreLists
  <2>3. SameOp(ops[i], ops[i])
    BY <2>1, <2>2, Zenon DEF SameOp
  <2>4. ASSUME NEW k \in 1 .. Len(ops[i].args)
        PROVE  Suits(ops, IsSealed(ops), i, k, ops[i].args[k])
    <3>1. ops[i].args[k] \in (1 .. i - 1) \X Nat /\ k \in DOMAIN ops[i].args
      BY <2>1
    <3>2. ops[i].args[k][1] \in 1 .. i - 1 /\ ops[i].args[k][2] \in Nat
      BY <3>1
    <3>3. ops[i].args[k][1] \in 1 .. Len(ops)
      BY <3>2, <1>2
    <3>4. ASSUME Acts(ops[i])
          PROVE  IsResult(ops, ops[i].args[k]) /\ Matches(ops, IsSealed(ops), ops[i].args[k], <<i, k>>)
      <4>1. i \in {j \in DOMAIN ops : Acts(ops[j])}
        BY <3>4, <1>2
      <4>2. /\ ops[i].args[k][2] \in DOMAIN ops[ops[i].args[k][1]].wires
            /\ ops[i].wires[k] = ops[ops[i].args[k][1]].wires[ops[i].args[k][2]]
        BY <4>1, <3>1, Zenon DEF IsProgram, IsOnItsQubits
      <4>3. IsSealed(ops) => ops[ops[i].args[k][1]].region = ops[i].region
        BY <4>1, <3>1, Zenon DEF IsSealed
      <4>4. <<i, k>>[1] = i /\ <<i, k>>[2] = k
        OBVIOUS
      <4> QED BY <4>2, <4>3, <4>4, <3>3, Zenon DEF IsResult, Matches
    <3> QED BY <3>1, <3>4, Zenon DEF Suits
  <2> QED BY <2>1, <2>3, <2>4, Zenon
<1> QED BY <1>1, <1>3, Zenon DEF Relinked

(* The walk over the extracts, step by step.                               *)
LEMMA ExtractingSteps ==
  ASSUME NEW ops, Len(ops) \in Nat
  PROVE  /\ Extracting(ops)[0] = [first |-> <<>>, same |-> <<>>]
         /\ \A k \in 1 .. Len(ops) :
              Extracting(ops)[k] = VisitExtract(Extracting(ops)[k - 1], ops[k], <<k, 1>>)
<1> DEFINE One(c, k) == VisitExtract(c, ops[k], <<k, 1>>)
           u == [first |-> <<>>, same |-> <<>>]
           Unfolds(f, n) == f = [k \in 0 .. n |-> IF k = 0 THEN u ELSE One(f[k - 1], k)]
           T == {n \in 0 .. Len(ops) : \E f : Unfolds(f, n)}
           R == Extracting(ops)
<1> HIDE DEF One, R, u
<1>1. 0 \in T
  <2>1. Unfolds([k \in 0 .. 0 |-> u], 0)
    OBVIOUS
  <2>2. 0 \in 0 .. Len(ops)
    OBVIOUS
  <2> HIDE DEF Unfolds
  <2> QED BY <2>1, <2>2
<1>2. ASSUME NEW n \in 1 .. Len(ops), n - 1 \in T
      PROVE  n \in T
  <2>1. PICK f : Unfolds(f, n - 1)
    BY <1>2
  <2> DEFINE g == [k \in 0 .. n |-> IF k = n THEN One(f[n - 1], n) ELSE f[k]]
  <2>2. ASSUME NEW k \in 0 .. n PROVE g[k] = IF k = 0 THEN u ELSE One(g[k - 1], k)
    <3>1. CASE k = n
      <4>1. n - 1 \in 0 .. n /\ n - 1 # n /\ k # 0
        BY <3>1
      <4>2. g[n - 1] = f[n - 1] /\ g[k] = One(f[n - 1], n)
        BY <3>1, <4>1
      <4> QED BY <3>1, <4>1, <4>2
    <3>2. CASE k = 0
      <4>1. g[0] = f[0] /\ f[0] = u
        BY <2>1
      <4> QED BY <3>2, <4>1
    <3>3. CASE k # 0 /\ k # n
      <4>1. k \in 1 .. n - 1 /\ k - 1 \in 0 .. n /\ k - 1 # n /\ k - 1 \in 0 .. n - 1
        BY <3>3
      <4>2. g[k] = f[k] /\ g[k - 1] = f[k - 1]
        BY <3>3, <4>1
      <4>3. f[k] = One(f[k - 1], k)
        BY <2>1, <4>1
      <4> QED BY <3>3, <4>2, <4>3
    <3> QED BY <3>1, <3>2, <3>3
  <2>3. g = [k \in 0 .. n |-> IF k = 0 THEN u ELSE One(g[k - 1], k)]
    <3>1. g = [k \in 0 .. n |-> g[k]]
      OBVIOUS
    <3> HIDE DEF g
    <3> QED BY <2>2, <3>1, Zenon
  <2> HIDE DEF g
  <2> QED BY <2>3
<1>3. \E f : Unfolds(f, Len(ops))
  <2>1. \A n \in 0 .. Len(ops) : n \in T
    <3> HIDE DEF T
    <3> QED BY <1>1, <1>2, CountingUp
  <2> QED BY <2>1
<1>4. R = CHOOSE f : Unfolds(f, Len(ops))
  BY Zenon DEF Extracting, One, R, u
<1>5. Unfolds(R, Len(ops))
  BY <1>3, <1>4, Zenon
<1>6. \A k \in 0 .. Len(ops) : R[k] = IF k = 0 THEN u ELSE One(R[k - 1], k)
  BY <1>5, Zenon
<1>7. R[0] = u
  BY <1>6
<1>8. \A k \in 1 .. Len(ops) : R[k] = One(R[k - 1], k)
  BY <1>6
<1> QED BY <1>7, <1>8, Zenon DEF One, R, u

(* The walk over the gates, step by step.                                  *)
LEMMA LinkingSteps ==
  ASSUME NEW ops, Len(ops) \in Nat
  PROVE  /\ Linking(ops)[0] = [ops |-> ops, root |-> <<>>, last |-> <<>>]
         /\ \A k \in 1 .. Len(ops) : Linking(ops)[k] = VisitGate(Linking(ops)[k - 1], k)
<1> DEFINE One(c, k) == VisitGate(c, k)
           u == [ops |-> ops, root |-> <<>>, last |-> <<>>]
           Unfolds(f, n) == f = [k \in 0 .. n |-> IF k = 0 THEN u ELSE One(f[k - 1], k)]
           T == {n \in 0 .. Len(ops) : \E f : Unfolds(f, n)}
           R == Linking(ops)
<1> HIDE DEF One, R, u
<1>1. 0 \in T
  <2>1. Unfolds([k \in 0 .. 0 |-> u], 0)
    OBVIOUS
  <2>2. 0 \in 0 .. Len(ops)
    OBVIOUS
  <2> HIDE DEF Unfolds
  <2> QED BY <2>1, <2>2
<1>2. ASSUME NEW n \in 1 .. Len(ops), n - 1 \in T
      PROVE  n \in T
  <2>1. PICK f : Unfolds(f, n - 1)
    BY <1>2
  <2> DEFINE g == [k \in 0 .. n |-> IF k = n THEN One(f[n - 1], n) ELSE f[k]]
  <2>2. ASSUME NEW k \in 0 .. n PROVE g[k] = IF k = 0 THEN u ELSE One(g[k - 1], k)
    <3>1. CASE k = n
      <4>1. n - 1 \in 0 .. n /\ n - 1 # n /\ k # 0
        BY <3>1
      <4>2. g[n - 1] = f[n - 1] /\ g[k] = One(f[n - 1], n)
        BY <3>1, <4>1
      <4> QED BY <3>1, <4>1, <4>2
    <3>2. CASE k = 0
      <4>1. g[0] = f[0] /\ f[0] = u
        BY <2>1
      <4> QED BY <3>2, <4>1
    <3>3. CASE k # 0 /\ k # n
      <4>1. k \in 1 .. n - 1 /\ k - 1 \in 0 .. n /\ k - 1 # n /\ k - 1 \in 0 .. n - 1
        BY <3>3
      <4>2. g[k] = f[k] /\ g[k - 1] = f[k - 1]
        BY <3>3, <4>1
      <4>3. f[k] = One(f[k - 1], k)
        BY <2>1, <4>1
      <4> QED BY <3>3, <4>2, <4>3
    <3> QED BY <3>1, <3>2, <3>3
  <2>3. g = [k \in 0 .. n |-> IF k = 0 THEN u ELSE One(g[k - 1], k)]
    <3>1. g = [k \in 0 .. n |-> g[k]]
      OBVIOUS
    <3> HIDE DEF g
    <3> QED BY <2>2, <3>1, Zenon
  <2> HIDE DEF g
  <2> QED BY <2>3
<1>3. \E f : Unfolds(f, Len(ops))
  <2>1. \A n \in 0 .. Len(ops) : n \in T
    <3> HIDE DEF T
    <3> QED BY <1>1, <1>2, CountingUp
  <2> QED BY <2>1
<1>4. R = CHOOSE f : Unfolds(f, Len(ops))
  BY Zenon DEF Linking, One, R, u
<1>5. Unfolds(R, Len(ops))
  BY <1>3, <1>4, Zenon
<1>6. \A k \in 0 .. Len(ops) : R[k] = IF k = 0 THEN u ELSE One(R[k - 1], k)
  BY <1>5, Zenon
<1>7. R[0] = u
  BY <1>6
<1>8. \A k \in 1 .. Len(ops) : R[k] = One(R[k - 1], k)
  BY <1>6
<1> QED BY <1>7, <1>8, Zenon DEF One, R, u

(* The extracts remembered are extracts of that place, and one is replaced *)
(* by an earlier one of the same place.                                    *)
OwnPlace(op) == Place(op, op.region)
IsEarlier(ops, n, v, w) ==
  \E i \in 1 .. n : \E j \in 1 .. i - 1 :
    /\ v = <<i, 1>> /\ w = <<j, 1>>
    /\ ops[i].kind = "extract" /\ ops[j].kind = "extract"
    /\ OwnPlace(ops[i]) = OwnPlace(ops[j])
FirstInv(ops, s, n) ==
  /\ \A p \in DOMAIN s.first : \E j \in 1 .. n :
       s.first[p] = <<j, 1>> /\ ops[j].kind = "extract" /\ OwnPlace(ops[j]) = p
  /\ \A v \in DOMAIN s.same : IsEarlier(ops, n, v, s.same[v])

(* An extract is remembered, or replaced by the one remembered.            *)
LEMMA VisitExtractKeeps ==
  ASSUME NEW ops, NEW n \in Nat \ {0}, NEW s, FirstInv(ops, s, n - 1)
  PROVE  FirstInv(ops, VisitExtract(s, ops[n], <<n, 1>>), n)
<1> DEFINE here == OwnPlace(ops[n])
           seen == here \in DOMAIN s.first
           first == IF seen THEN s.first ELSE Assigned(s.first, here, <<n, 1>>)
           same  == IF seen THEN Assigned(s.same, <<n, 1>>, s.first[here]) ELSE s.same
<1>0. 1 .. n - 1 \subseteq 1 .. n /\ n \in 1 .. n
  OBVIOUS
<1>3. \A v, w : IsEarlier(ops, n - 1, v, w) => IsEarlier(ops, n, v, w)
  BY <1>0 DEF IsEarlier
<1>4. \A j : j \in 1 .. n - 1 => j \in 1 .. n
  BY <1>0
<1>1. CASE ops[n].kind # "extract" \/ ~ ops[n].known[1]
  <2>1. VisitExtract(s, ops[n], <<n, 1>>) = s
    BY <1>1, Zenon DEF VisitExtract
  <2>2. \A v \in DOMAIN s.same : IsEarlier(ops, n, v, s.same[v])
    BY <1>3, Zenon DEF FirstInv
  <2>3. ASSUME NEW p \in DOMAIN s.first
        PROVE  \E j \in 1 .. n :
                 s.first[p] = <<j, 1>> /\ ops[j].kind = "extract" /\ OwnPlace(ops[j]) = p
    BY <1>4, Zenon DEF FirstInv
  <2> QED BY <2>1, <2>2, <2>3, Zenon DEF FirstInv
<1>2. CASE ~ (ops[n].kind # "extract" \/ ~ ops[n].known[1])
  <2>1. VisitExtract(s, ops[n], <<n, 1>>) = [first |-> Forgotten(first, ops[n]), same |-> same]
    BY <1>2, Zenon DEF VisitExtract, OwnPlace
  <2>2. ASSUME NEW p \in DOMAIN first
        PROVE  \E j \in 1 .. n :
                 first[p] = <<j, 1>> /\ ops[j].kind = "extract" /\ OwnPlace(ops[j]) = p
    <3>1. CASE p \in DOMAIN s.first
      <4>1. first[p] = s.first[p]
        <5>1. CASE seen
          BY <5>1, Zenon
        <5>2. CASE ~ seen
          <6>1. p # here
            BY <5>2, <3>1, Zenon
          <6> HIDE DEF here
          <6> QED BY <6>1, <5>2, <3>1 DEF Assigned
        <5> QED BY <5>1, <5>2, Zenon
      <4> HIDE DEF first
      <4> QED BY <4>1, <3>1, <1>0, Zenon DEF FirstInv
    <3>2. CASE p \notin DOMAIN s.first
      <4>1. ~ seen
        BY <3>2, Zenon
      <4>2. p = here /\ first[p] = <<n, 1>>
        <5> HIDE DEF here
        <5> QED BY <4>1, <3>2 DEF Assigned
      <4>3. ops[n].kind = "extract"
        BY <1>2
      <4> QED BY <4>2, <4>3, <1>0, Zenon
    <3> QED BY <3>1, <3>2, Zenon
  <2>3. ASSUME NEW p \in DOMAIN Forgotten(first, ops[n])
        PROVE  p \in DOMAIN first /\ Forgotten(first, ops[n])[p] = first[p]
    <3> HIDE DEF first
    <3>1. CASE ops[n].region = <<>>
      BY <3>1, Zenon DEF Forgotten
    <3>2. CASE ops[n].region # <<>>
      <4> DEFINE kept == DOMAIN first \ {Place(ops[n], Front(ops[n].region))}
      <4>1. Forgotten(first, ops[n]) = [x \in kept |-> first[x]]
        BY <3>2, Zenon DEF Forgotten, Restrict
      <4>2. kept \subseteq DOMAIN first
        BY Zenon
      <4> HIDE DEF kept
      <4> QED BY <4>1, <4>2
    <3> QED BY <3>1, <3>2, Zenon
  <2>4. ASSUME NEW v \in DOMAIN same
        PROVE  IsEarlier(ops, n, v, same[v])
    <3>1. CASE seen /\ v = <<n, 1>>
      <4>1. same[v] = s.first[here]
        <5> HIDE DEF here
        <5> QED BY <3>1 DEF Assigned
      <4>2. PICK j \in 1 .. n - 1 :
              s.first[here] = <<j, 1>> /\ ops[j].kind = "extract" /\ OwnPlace(ops[j]) = here
        BY <3>1, Zenon DEF FirstInv
      <4>3. ops[n].kind = "extract"
        BY <1>2
      <4> HIDE DEF same
      <4> QED BY <4>1, <4>2, <4>3, <3>1, <1>0, Zenon DEF IsEarlier
    <3>2. CASE ~ (seen /\ v = <<n, 1>>)
      <4>1. v \in DOMAIN s.same /\ same[v] = s.same[v]
        <5> HIDE DEF here
        <5> QED BY <3>2 DEF Assigned
      <4> HIDE DEF same
      <4> QED BY <4>1, <1>3, Zenon DEF FirstInv
    <3> QED BY <3>1, <3>2, Zenon
  <2>5. \A p \in DOMAIN Forgotten(first, ops[n]) : \E j \in 1 .. n :
          Forgotten(first, ops[n])[p] = <<j, 1>> /\ ops[j].kind = "extract" /\ OwnPlace(ops[j]) = p
    <3> HIDE DEF first
    <3> QED BY <2>2, <2>3, Zenon
  <2> HIDE DEF first, same
  <2>6. [first |-> Forgotten(first, ops[n]), same |-> same].first = Forgotten(first, ops[n])
        /\ [first |-> Forgotten(first, ops[n]), same |-> same].same = same
    OBVIOUS
  <2> QED BY <2>1, <2>4, <2>5, <2>6, Zenon DEF FirstInv
<1> QED BY <1>1, <1>2, Zenon

(* An extract is read as an earlier extract of its place.                  *)
LEMMA ExtractsAreOfTheirPlace ==
  ASSUME NEW ops, Len(ops) \in Nat, NEW v \in DOMAIN FirstExtracts(ops)
  PROVE  IsEarlier(ops, Len(ops), v, FirstExtracts(ops)[v])
<1> DEFINE T == {n \in 0 .. Len(ops) : FirstInv(ops, Extracting(ops)[n], n)}
<1>1. 0 \in T
  <2>1. Extracting(ops)[0].first = <<>> /\ Extracting(ops)[0].same = <<>>
    BY ExtractingSteps
  <2>2. DOMAIN Extracting(ops)[0].first = {} /\ DOMAIN Extracting(ops)[0].same = {}
    BY <2>1
  <2>3. FirstInv(ops, Extracting(ops)[0], 0)
    BY <2>2, Zenon DEF FirstInv
  <2> QED BY <2>3
<1>2. ASSUME NEW n \in 1 .. Len(ops), n - 1 \in T PROVE n \in T
  <2>1. n \in Nat \ {0} /\ n \in 0 .. Len(ops)
    OBVIOUS
  <2>2. FirstInv(ops, Extracting(ops)[n - 1], n - 1)
    BY <1>2
  <2>3. FirstInv(ops, Extracting(ops)[n], n)
    BY <2>1, <2>2, ExtractingSteps, VisitExtractKeeps, Zenon
  <2> QED BY <2>1, <2>3
<1>3. \A n \in 0 .. Len(ops) : n \in T
  <2> HIDE DEF T
  <2> QED BY <1>1, <1>2, CountingUp
<1>4. FirstInv(ops, Extracting(ops)[Len(ops)], Len(ops))
  BY <1>3
<1> QED BY <1>4, Zenon DEF FirstInv, FirstExtracts

(* Which are the values operands read then still suit.                     *)
LEMMA RenamingKeepsLinks ==
  ASSUME NEW ops, NEW sealed, Relinked(ops, sealed, ops)
  PROVE  Relinked(ops, sealed, Renamed(ops, FirstExtracts(ops)))
<1> DEFINE same == FirstExtracts(ops)
           out  == Renamed(ops, same)
           Arg(i, k) == IF ops[i].args[k] \in DOMAIN same THEN same[ops[i].args[k]] ELSE ops[i].args[k]
<1>0. Len(ops) \in Nat /\ DOMAIN ops = 1 .. Len(ops)
  BY DEF Relinked, IsList
<1>1. out = [i \in 1 .. Len(ops) |-> [ops[i] EXCEPT !.args = [k \in DOMAIN @ |-> Arg(i, k)]]]
  BY <1>0, Zenon DEF Renamed
<1> HIDE DEF out
<1>2. IsList(out) /\ Len(out) = Len(ops)
  BY <1>0, <1>1 DEF IsList
<1>3. ASSUME NEW i \in 1 .. Len(ops)
      PROVE  SameOp(ops[i], out[i]) /\ out[i].args = [k \in 1 .. Len(ops[i].args) |-> Arg(i, k)]
  <2>1. SameOp(ops[i], ops[i])
    BY <1>0, Zenon DEF Relinked
  <2>2. DOMAIN ops[i].args = 1 .. Len(ops[i].args) /\ Len(ops[i].args) \in Nat
    BY <2>1 DEF SameOp, IsList
  <2> DEFINE new == [k \in 1 .. Len(ops[i].args) |-> Arg(i, k)]
  <2>3. out[i] = [ops[i] EXCEPT !.args = new]
    BY <1>1, <2>2
  <2>4. IsList(new) /\ Len(new) = Len(ops[i].args)
    <3> HIDE DEF Arg
    <3> QED BY <2>2 DEF IsList
  <2> HIDE DEF new
  <2>5. SameOp(ops[i], out[i]) /\ out[i].args = new
    BY <2>1, <2>3, <2>4 DEF SameOp, Fields
  <2> QED BY <2>5 DEF new
<1>4. ASSUME NEW i \in 1 .. Len(ops), NEW k \in 1 .. Len(ops[i].args)
      PROVE  Suits(ops, sealed, i, k, out[i].args[k])
  <2> DEFINE v == ops[i].args[k]
  <2>1. out[i].args[k] = Arg(i, k)
    <3> HIDE DEF Arg
    <3> QED BY <1>3
  <2>2. Suits(ops, sealed, i, k, v)
    BY Zenon DEF Relinked
  <2>3. CASE v \notin DOMAIN same
    BY <2>1, <2>2, <2>3, Zenon
  <2>4. CASE v \in DOMAIN same
    <3>1. PICK i0 \in 1 .. Len(ops) : \E j \in 1 .. i0 - 1 :
            /\ v = <<i0, 1>> /\ same[v] = <<j, 1>>
            /\ ops[i0].kind = "extract" /\ ops[j].kind = "extract"
            /\ OwnPlace(ops[i0]) = OwnPlace(ops[j])
      BY <2>4, <1>0, ExtractsAreOfTheirPlace, Zenon DEF IsEarlier
    <3>2. PICK j \in 1 .. i0 - 1 :
            /\ v = <<i0, 1>> /\ same[v] = <<j, 1>>
            /\ ops[i0].kind = "extract" /\ ops[j].kind = "extract"
            /\ OwnPlace(ops[i0]) = OwnPlace(ops[j])
      BY <3>1, Zenon
    <3>3. ops[i0].region = ops[j].region /\ ops[i0].wires[1] = ops[j].wires[1]
      BY <3>2 DEF OwnPlace, Place
    <3>4. v[1] = i0 /\ v[2] = 1 /\ <<j, 1>>[1] = j /\ <<j, 1>>[2] = 1
      <4> HIDE DEF v
      <4> QED BY <3>2
    <3>5. j \in 1 .. i - 1 /\ j \in 1 .. Len(ops)
      <4> HIDE DEF v
      <4>1. v \in (1 .. i - 1) \X Nat
        BY <2>2, Zenon DEF Suits
      <4> QED BY <4>1, <3>4, <1>0
    <3>6. 1 \in DOMAIN ops[j].wires
      BY <3>2, <3>5 DEF Relinked
    <3>7. Arg(i, k) = <<j, 1>>
      BY <2>4, <3>2, Zenon
    <3>8. Suits(ops, sealed, i, k, <<j, 1>>)
      <4> HIDE DEF v
      <4>1. <<j, 1>> \in (1 .. i - 1) \X Nat
        BY <3>5
      <4>2. Acts(ops[i]) => IsResult(ops, <<j, 1>>) /\ Matches(ops, sealed, <<j, 1>>, <<i, k>>)
        BY <2>2, <3>3, <3>4, <3>5, <3>6, Zenon DEF Suits, IsResult, Matches
      <4>3. sealed => ops[<<j, 1>>[1]].region = ops[ops[i].args[k][1]].region
        BY <2>2, <3>3, <3>4, Zenon DEF Suits
      <4> QED BY <4>1, <4>2, <4>3, Zenon DEF Suits
    <3> QED BY <2>1, <3>7, <3>8, Zenon
  <2> QED BY <2>3, <2>4, Zenon
<1> QED BY <1>2, <1>3, <1>4, Zenon DEF Relinked, out

(* The chains: a value and its root are of one qubit, and so are a root    *)
(* and the last value of its chain, which is a result of an operation      *)
(* before i, or of i and before its operand k.                             *)
IsLast(ops, sealed, i, k, r, w) ==
  /\ IsResult(ops, w) /\ w \in Nat \X Nat /\ Matches(ops, sealed, w, r)
  /\ w[1] < i \/ (w[1] = i /\ w[2] < k)
ChainInv(ops, sealed, s, i, k) ==
  /\ Relinked(ops, sealed, s.ops)
  /\ \A v \in DOMAIN s.root : s.root[v] \in DOMAIN s.last /\ Matches(ops, sealed, s.root[v], v)
  /\ \A r \in DOMAIN s.last : IsLast(ops, sealed, i, k, r, s.last[r])

(* One operand replaced by one that suits the operation too.               *)
LEMMA ReplacingAnOperand ==
  ASSUME NEW ops, NEW sealed, NEW out, Relinked(ops, sealed, out),
         NEW i \in 1 .. Len(ops), NEW k \in 1 .. Len(ops[i].args), NEW w,
         Suits(ops, sealed, i, k, w)
  PROVE  Relinked(ops, sealed, [out EXCEPT ![i].args[k] = w])
<1> DEFINE args == [out[i].args EXCEPT ![k] = w]
           op   == [out[i] EXCEPT !.args = args]
           new  == [out EXCEPT ![i] = op]
<1>1. [out EXCEPT ![i].args[k] = w] = new
  OBVIOUS
<1>2. DOMAIN out = 1 .. Len(ops) /\ Len(ops) \in Nat /\ SameOp(ops[i], out[i])
  BY DEF Relinked, IsList
<1>3. DOMAIN out[i].args = 1 .. Len(ops[i].args) /\ Len(ops[i].args) \in Nat
  BY <1>2 DEF SameOp, IsList
<1>4. IsList(args) /\ Len(args) = Len(ops[i].args) /\ args[k] = w
      /\ \A l \in 1 .. Len(ops[i].args) : l # k => args[l] = out[i].args[l]
  BY <1>3 DEF IsList
<1> HIDE DEF args
<1>5. SameOp(ops[i], op) /\ op.args = args
  BY <1>2, <1>4 DEF SameOp, Fields
<1> HIDE DEF op
<1>6. IsList(new) /\ Len(new) = Len(ops) /\ new[i] = op
      /\ \A j \in 1 .. Len(ops) : j # i => new[j] = out[j]
  <2>1. new = [j \in 1 .. Len(ops) |-> IF j = i THEN op ELSE out[j]]
    BY <1>2
  <2> HIDE DEF new
  <2> QED BY <2>1, <1>2 DEF IsList
<1> HIDE DEF new
<1>7. ASSUME NEW j \in 1 .. Len(ops)
      PROVE  /\ SameOp(ops[j], new[j])
             /\ \A l \in 1 .. Len(ops[j].args) : Suits(ops, sealed, j, l, new[j].args[l])
  <2>1. CASE j # i
    BY <2>1, <1>6, Zenon DEF Relinked
  <2>2. CASE j = i
    <3>1. ASSUME NEW l \in 1 .. Len(ops[i].args) PROVE Suits(ops, sealed, i, l, args[l])
      <4>1. CASE l = k
        BY <4>1, <1>4, Zenon
      <4>2. CASE l # k
        BY <4>2, <1>4, Zenon DEF Relinked
      <4> QED BY <4>1, <4>2, Zenon
    <3> QED BY <2>2, <3>1, <1>5, <1>6, Zenon
  <2> QED BY <2>1, <2>2, Zenon
<1> QED BY <1>1, <1>6, <1>7, Zenon DEF Relinked

(* An operand joins its chain: it is read as the last value of it, and the *)
(* operation's result is the last one from there on.                       *)
LEMMA JoiningKeepsChains ==
  ASSUME NEW ops, NEW sealed, NEW s, NEW i \in 1 .. Len(ops), NEW k \in 1 .. Len(ops[i].args),
         NEW value, ChainInv(ops, sealed, s, i, k), Suits(ops, sealed, i, k, value),
         ops[i].kind = "gate",
         \A l \in 1 .. k - 1 : ops[i].wires[l] # ops[i].wires[k]
  PROVE  ChainInv(ops, sealed, Joined(s, i, k, value), i, k + 1)
<1> DEFINE here == <<i, k>>
           r == RootOf(s, value)
           w == LastOf(s, value)
           t == Joined(s, i, k, value)
<1>0. /\ Relinked(ops, sealed, s.ops) /\ Len(ops) \in Nat /\ i \in Nat /\ k \in Nat
      /\ Acts(ops[i]) /\ k \in DOMAIN ops[i].wires
  <2>1. Relinked(ops, sealed, s.ops)
    BY Zenon DEF ChainInv
  <2>2. Len(ops) \in Nat /\ IsList(ops[i].args) /\ (Acts(ops[i]) => DOMAIN ops[i].wires = DOMAIN ops[i].args)
    BY <2>1 DEF Relinked, SameOp, IsList
  <2>3. Acts(ops[i])
    BY DEF Acts
  <2> QED BY <2>1, <2>2, <2>3 DEF IsList
<1>1. here[1] = i /\ here[2] = k
  OBVIOUS
<1>2. /\ IsResult(ops, value) /\ Matches(ops, sealed, value, here)
      /\ sealed => ops[value[1]].region = ops[ops[i].args[k][1]].region
  BY <1>0, Zenon DEF Suits
<1> HIDE DEF here
<1>3. Matches(ops, sealed, r, value) /\ (value \in DOMAIN s.root => r \in DOMAIN s.last)
  <2>1. CASE value \in DOMAIN s.root
    BY <2>1, Zenon DEF ChainInv, RootOf
  <2>2. CASE value \notin DOMAIN s.root
    BY <2>2, Zenon DEF RootOf, Matches
  <2> QED BY <2>1, <2>2, Zenon
<1>4. Suits(ops, sealed, i, k, w)
  <2>1. CASE value \notin DOMAIN s.root
    BY <2>1, Zenon DEF LastOf
  <2>2. CASE value \in DOMAIN s.root
    <3>1. w = s.last[r] /\ IsLast(ops, sealed, i, k, r, w)
      BY <2>2, <1>3, Zenon DEF LastOf, RootOf, ChainInv
    <3> HIDE DEF w, r
    <3>2. Matches(ops, sealed, w, here) /\ IsResult(ops, w) /\ w \in Nat \X Nat
          /\ (sealed => ops[w[1]].region = ops[value[1]].region)
      BY <3>1, <1>2, <1>3, Zenon DEF IsLast, Matches
    <3>3. ~ (w[1] = i /\ w[2] < k)
      <4> SUFFICES ASSUME w[1] = i, w[2] < k PROVE FALSE
        BY Zenon
      <4>1. w[2] \in DOMAIN ops[i].wires
        BY <3>2, Zenon DEF IsResult
      <4>2. DOMAIN ops[i].wires = 1 .. Len(ops[i].args)
        BY <1>0 DEF Relinked, SameOp, IsList
      <4>3. w[2] \in 1 .. k - 1
        BY <4>1, <4>2, <3>2, <1>0
      <4>4. ops[i].wires[w[2]] = ops[i].wires[k]
        BY <3>2, <1>1 DEF Matches
      <4> QED BY <4>3, <4>4, Zenon
    <3>4. w \in (1 .. i - 1) \X Nat
      <4>1. w[1] \in 1 .. Len(ops) /\ w[1] < i
        BY <3>1, <3>3, Zenon DEF IsLast, IsResult
      <4> QED BY <4>1, <3>2, <1>0
    <3> QED BY <3>2, <3>4, <1>2, Zenon DEF Suits, here
  <2> QED BY <2>1, <2>2, Zenon
<1> DEFINE root == Assigned(Assigned(s.root, value, r), here, r)
           last == Assigned(s.last, r, here)
<1>5. t.ops = [s.ops EXCEPT ![i].args[k] = w] /\ t.root = root /\ t.last = last
  BY DEF Joined, here
<1> HIDE DEF r, w, t
<1>6. Relinked(ops, sealed, t.ops)
  <2>1. Relinked(ops, sealed, [s.ops EXCEPT ![i].args[k] = w])
    BY <1>0, <1>4, ReplacingAnOperand
  <2> QED BY <2>1, <1>5
<1>7. DOMAIN last = DOMAIN s.last \cup {r} /\ last[r] = here
      /\ \A x \in DOMAIN s.last : x # r => last[x] = s.last[x]
  BY DEF Assigned
<1>8. DOMAIN root = DOMAIN s.root \cup {value, here} /\ root[here] = r
      /\ (value # here => root[value] = r)
      /\ \A v \in DOMAIN s.root : v # value /\ v # here => root[v] = s.root[v]
  BY DEF Assigned
<1> HIDE DEF root, last
<1>9. Matches(ops, sealed, r, here)
  BY <1>2, <1>3, Zenon DEF Matches
<1>10. ASSUME NEW v \in DOMAIN root
       PROVE  root[v] \in DOMAIN last /\ Matches(ops, sealed, root[v], v)
  <2>1. CASE v = here
    BY <2>1, <1>7, <1>8, <1>9, Zenon
  <2>2. CASE v = value
    BY <2>2, <1>3, <1>7, <1>8, <1>9, Zenon
  <2>3. CASE v # here /\ v # value
    <3>1. v \in DOMAIN s.root /\ root[v] = s.root[v]
      BY <2>3, <1>8, Zenon
    <3>2. s.root[v] \in DOMAIN s.last /\ Matches(ops, sealed, s.root[v], v)
      BY <3>1, Zenon DEF ChainInv
    <3> QED BY <3>1, <3>2, <1>7, Zenon
  <2> QED BY <2>1, <2>2, <2>3, Zenon
<1>11. ASSUME NEW x \in DOMAIN last
       PROVE  IsLast(ops, sealed, i, k + 1, x, last[x])
  <2>1. CASE x = r
    <3>1. IsResult(ops, here) /\ Matches(ops, sealed, here, r)
      BY <1>0, <1>1, <1>9, Zenon DEF IsResult, Matches
    <3>2. here \in Nat \X Nat /\ here[1] = i /\ here[2] < k + 1
      BY <1>0, <1>1 DEF here
    <3> QED BY <2>1, <3>1, <3>2, <1>7, Zenon DEF IsLast
  <2>2. CASE x # r
    <3>1. x \in DOMAIN s.last /\ last[x] = s.last[x]
      BY <2>2, <1>7, Zenon
    <3>2. IsLast(ops, sealed, i, k, x, s.last[x])
      BY <3>1, Zenon DEF ChainInv
    <3>3. s.last[x] \in Nat \X Nat /\ (s.last[x][2] < k => s.last[x][2] < k + 1)
      <4>1. s.last[x] \in Nat \X Nat
        BY <3>2, Zenon DEF IsLast
      <4> QED BY <4>1, <1>0
    <3> QED BY <3>1, <3>2, <3>3, Zenon DEF IsLast
  <2> QED BY <2>1, <2>2, Zenon
<1> QED BY <1>5, <1>6, <1>10, <1>11, Zenon DEF ChainInv, t

(* One operation after the other joins its operands to their chains.       *)
LEMMA VisitGateKeeps ==
  ASSUME NEW ops, NEW sealed, NEW s, NEW i \in 1 .. Len(ops), ChainInv(ops, sealed, s, i, 1)
  PROVE  ChainInv(ops, sealed, VisitGate(s, i), i + 1, 1)
<1> DEFINE args == s.ops[i].args
<1>0. Relinked(ops, sealed, s.ops)
  BY Zenon DEF ChainInv
<1>1. /\ i \in Nat /\ s.ops[i].kind = ops[i].kind
      /\ Len(args) = Len(ops[i].args) /\ Len(args) \in Nat
      /\ \A k \in 1 .. Len(ops[i].args) : Suits(ops, sealed, i, k, args[k])
      /\ ops[i].kind = "gate" /\ Len(args) = 2 => ops[i].wires[1] # ops[i].wires[2]
  <2>1. SameOp(ops[i], s.ops[i]) /\ Len(ops) \in Nat
    BY <1>0 DEF Relinked, IsList
  <2>2. Len(args) = Len(ops[i].args) /\ Len(args) \in Nat /\ s.ops[i].kind = ops[i].kind
    BY <2>1, Zenon DEF SameOp, IsList
  <2>3. i \in Nat
    BY <2>1
  <2> QED BY <1>0, <2>2, <2>3, Zenon DEF Relinked
<1>2. ASSUME NEW t, NEW k \in 1 .. 3, ChainInv(ops, sealed, t, i, k)
      PROVE  ChainInv(ops, sealed, t, i + 1, 1)
  <2>1. ASSUME NEW r, NEW w, IsLast(ops, sealed, i, k, r, w)
        PROVE  IsLast(ops, sealed, i + 1, 1, r, w)
    <3>1. w \in Nat \X Nat /\ (w[1] < i \/ w[1] = i)
      BY <2>1, Zenon DEF IsLast
    <3>2. w[1] < i + 1
      BY <3>1, <1>1
    <3> QED BY <2>1, <3>2, Zenon DEF IsLast
  <2> QED BY <1>2, <2>1, Zenon DEF ChainInv
<1>3. CASE ops[i].kind = "gate" /\ Len(args) = 1
  <2>1. VisitGate(s, i) = Joined(s, i, 1, args[1])
    BY <1>1, <1>3 DEF VisitGate
  <2>2. 1 \in 1 .. Len(ops[i].args) /\ \A l \in 1 .. 1 - 1 : ops[i].wires[l] # ops[i].wires[1]
    BY <1>1, <1>3
  <2>3. ChainInv(ops, sealed, Joined(s, i, 1, args[1]), i, 1 + 1)
    <3> HIDE DEF args
    <3> QED BY <1>1, <1>3, <2>2, JoiningKeepsChains
  <2> QED BY <2>1, <2>3, <1>2
<1>4. CASE ops[i].kind = "gate" /\ Len(args) = 2
  <2> DEFINE t == Joined(s, i, 1, args[1])
  <2>1. VisitGate(s, i) = Joined(t, i, 2, args[2])
    BY <1>1, <1>4 DEF VisitGate
  <2>2. /\ 1 \in 1 .. Len(ops[i].args) /\ 2 \in 1 .. Len(ops[i].args)
        /\ \A l \in 1 .. 1 - 1 : ops[i].wires[l] # ops[i].wires[1]
        /\ \A l \in 1 .. 2 - 1 : ops[i].wires[l] # ops[i].wires[2]
    BY <1>1, <1>4
  <2> HIDE DEF args
  <2>3. ChainInv(ops, sealed, t, i, 1 + 1)
    BY <1>1, <1>4, <2>2, JoiningKeepsChains
  <2> HIDE DEF t
  <2>4. ChainInv(ops, sealed, t, i, 2)
    BY <2>3
  <2>5. ChainInv(ops, sealed, Joined(t, i, 2, args[2]), i, 2 + 1)
    BY <1>1, <1>4, <2>2, <2>4, JoiningKeepsChains
  <2> QED BY <2>1, <2>5, <1>2
<1>5. CASE ops[i].kind # "gate" \/ Len(args) \notin {1, 2}
  <2>1. VisitGate(s, i) = s
    BY <1>1, <1>5 DEF VisitGate
  <2> QED BY <2>1, <1>2
<1> QED BY <1>3, <1>4, <1>5

(* Linked operations are the same operations, on operands that suit them.  *)
LEMMA LinkingKeepsLinks ==
  ASSUME NEW ops, NEW sealed, NEW out, Relinked(ops, sealed, out)
  PROVE  Relinked(ops, sealed, Linked(out))
<1> DEFINE T == {n \in 0 .. Len(ops) : ChainInv(ops, sealed, Linking(out)[n], n + 1, 1)}
<1>0. Len(ops) \in Nat /\ Len(out) = Len(ops)
  BY DEF Relinked, IsList
<1>1. 0 \in T
  <2>1. Linking(out)[0].ops = out /\ Linking(out)[0].root = <<>> /\ Linking(out)[0].last = <<>>
    <3>1. Linking(out)[0] = [ops |-> out, root |-> <<>>, last |-> <<>>]
      BY <1>0, LinkingSteps, Zenon
    <3> QED BY <3>1
  <2>2. DOMAIN Linking(out)[0].root = {} /\ DOMAIN Linking(out)[0].last = {}
    BY <2>1
  <2>3. ChainInv(ops, sealed, Linking(out)[0], 0 + 1, 1)
    BY <2>1, <2>2, Zenon DEF ChainInv
  <2> QED BY <2>3, <1>0
<1>2. ASSUME NEW n \in 1 .. Len(ops), n - 1 \in T PROVE n \in T
  <2>1. ChainInv(ops, sealed, Linking(out)[n - 1], (n - 1) + 1, 1)
    BY <1>2
  <2>2. (n - 1) + 1 = n /\ n \in 0 .. Len(ops)
    OBVIOUS
  <2>3. ChainInv(ops, sealed, Linking(out)[n - 1], n, 1)
    BY <2>1, <2>2
  <2>4. Linking(out)[n] = VisitGate(Linking(out)[n - 1], n)
    BY <1>0, LinkingSteps
  <2>5. ChainInv(ops, sealed, Linking(out)[n], n + 1, 1)
    BY <2>3, <2>4, VisitGateKeeps
  <2> QED BY <2>2, <2>5
<1>3. \A n \in 0 .. Len(ops) : n \in T
  <2> HIDE DEF T
  <2> QED BY <1>0, <1>1, <1>2, CountingUp
<1>4. ChainInv(ops, sealed, Linking(out)[Len(ops)], Len(ops) + 1, 1)
  BY <1>0, <1>3
<1> QED BY <1>0, <1>4, Zenon DEF ChainInv, Linked

(* The simplification of a program is a program: SimplifyQubitExtract      *)
(* changes nothing but operands; they are still values defined before, on  *)
(* the qubits the gates are on; and where no gate reads a value of another *)
(* region, none does afterwards, so that values still dominate their uses. *)
THEOREM SimplificationKeepsQubits ==
  ASSUME NEW Op, NEW ops \in Seq(Op), IsProgram(ops)
  PROVE  LET out == SimplifyQubitExtract(ops)
         IN  /\ Len(out) = Len(ops)
             /\ \A i \in 1 .. Len(ops) : \A f \in Fields \ {"args"} : out[i][f] = ops[i][f]
             /\ IsProgram(out)
             /\ IsSealed(ops) => IsSealed(out) /\ (IsDominated(ops) => IsDominated(out))
<1> DEFINE out == SimplifyQubitExtract(ops)
           sealed == IsSealed(ops)
<1>1. Relinked(ops, sealed, out)
  BY ProgramsAreLinked, RenamingKeepsLinks, LinkingKeepsLinks, Zenon DEF SimplifyQubitExtract
<1> HIDE DEF out, sealed
<1>2. Len(out) = Len(ops) /\ Len(ops) \in Nat /\ DOMAIN out = 1 .. Len(ops) /\ DOMAIN ops = 1 .. Len(ops)
  BY <1>1 DEF Relinked, IsList
<1>3. ASSUME NEW i \in 1 .. Len(ops)
      PROVE  /\ SameOp(ops[i], out[i])
             /\ Acts(out[i]) = Acts(ops[i])
             /\ out[i].wires = ops[i].wires /\ out[i].region = ops[i].region
             /\ DOMAIN out[i].args = 1 .. Len(ops[i].args)
             /\ DOMAIN ops[i].args = 1 .. Len(ops[i].args)
             /\ \A k \in 1 .. Len(ops[i].args) : Suits(ops, sealed, i, k, out[i].args[k])
  BY <1>1 DEF Relinked, SameOp, IsList, Acts
<1>4. ASSUME NEW i \in 1 .. Len(ops), NEW f \in Fields \ {"args"}
      PROVE  out[i][f] = ops[i][f]
  BY <1>3 DEF SameOp, Fields
<1>5. ASSUME NEW i \in 1 .. Len(ops), NEW k \in 1 .. Len(ops[i].args)
      PROVE  /\ out[i].args[k][1] \in 1 .. Len(ops) /\ out[i].args[k][1] \in 1 .. i - 1
             /\ out[i].args[k] \in (1 .. i - 1) \X Nat
             /\ Acts(ops[i]) => /\ out[i].args[k][2] \in DOMAIN out[out[i].args[k][1]].wires
                                /\ out[i].wires[k] = out[out[i].args[k][1]].wires[out[i].args[k][2]]
             /\ sealed => out[out[i].args[k][1]].region = ops[ops[i].args[k][1]].region
  <2> DEFINE v == out[i].args[k]
  <2>1. Suits(ops, sealed, i, k, v)
    BY <1>3, Zenon
  <2> HIDE DEF v
  <2>2. v \in (1 .. i - 1) \X Nat
    BY <2>1, Zenon DEF Suits
  <2>3. v[1] \in 1 .. Len(ops) /\ v[1] \in 1 .. i - 1
    BY <2>2, <1>2
  <2>4. out[v[1]].wires = ops[v[1]].wires /\ out[v[1]].region = ops[v[1]].region
        /\ out[i].wires = ops[i].wires
    BY <2>3, <1>3, Zenon
  <2>5. <<i, k>>[1] = i /\ <<i, k>>[2] = k
    OBVIOUS
  <2>6. /\ Acts(ops[i]) => /\ v[2] \in DOMAIN out[v[1]].wires
                           /\ out[i].wires[k] = out[v[1]].wires[v[2]]
        /\ sealed => out[v[1]].region = ops[ops[i].args[k][1]].region
    BY <2>1, <2>4, <2>5, Zenon DEF Suits, IsResult, Matches
  <2> QED BY <2>2, <2>3, <2>6, Zenon DEF v
<1>6. IsOnItsQubits(out)
  <2> SUFFICES ASSUME NEW i \in 1 .. Len(ops), Acts(out[i]), NEW k \in DOMAIN out[i].args
               PROVE  /\ out[i].args[k][2] \in DOMAIN out[out[i].args[k][1]].wires
                      /\ out[i].wires[k] = out[out[i].args[k][1]].wires[out[i].args[k][2]]
    BY <1>2, Zenon DEF IsOnItsQubits
  <2> QED BY <1>3, <1>5, Zenon
<1>7. ASSUME NEW i \in 1 .. Len(ops)
      PROVE  /\ DOMAIN out[i] = Fields
             /\ out[i].args \in Seq((1 .. i - 1) \X Nat)
             /\ Acts(out[i]) => DOMAIN out[i].wires = DOMAIN out[i].args
             /\ out[i].kind = "extract" => DOMAIN out[i].wires = {1}
             /\ out[i].kind = "gate" /\ Len(out[i].args) = 2 => out[i].wires[1] # out[i].wires[2]
  <2>1. out[i].args \in Seq((1 .. i - 1) \X Nat)
    <3>1. IsList(out[i].args) /\ Len(out[i].args) = Len(ops[i].args)
      BY <1>3, Zenon DEF SameOp
    <3>2. \A k \in 1 .. Len(ops[i].args) : out[i].args[k] \in (1 .. i - 1) \X Nat
      BY <1>5, Zenon
    <3> QED BY <3>1, <3>2 DEF IsList
  <2>2. /\ Acts(ops[i]) => DOMAIN ops[i].wires = DOMAIN ops[i].args
        /\ ops[i].kind = "extract" => DOMAIN ops[i].wires = {1}
        /\ ops[i].kind = "gate" /\ Len(ops[i].args) = 2 => ops[i].wires[1] # ops[i].wires[2]
    BY <1>1, Zenon DEF Relinked
  <2>3. DOMAIN out[i] = Fields /\ out[i].kind = ops[i].kind /\ Len(out[i].args) = Len(ops[i].args)
    BY <1>3, Zenon DEF SameOp
  <2> QED BY <2>1, <2>2, <2>3, <1>3, Zenon
<1>8. IsProgram(out)
  BY <1>2, <1>6, <1>7, Zenon DEF IsProgram, Fields
<1>9. ASSUME IsSealed(ops)
      PROVE  IsSealed(out) /\ (IsDominated(ops) => IsDominated(out))
  <2>1. ASSUME NEW i \in 1 .. Len(ops), NEW k \in DOMAIN out[i].args
        PROVE  /\ k \in DOMAIN ops[i].args
               /\ out[out[i].args[k][1]].region = ops[ops[i].args[k][1]].region
    <3>1. k \in 1 .. Len(ops[i].args)
      BY <1>3, Zenon
    <3> QED BY <3>1, <1>3, <1>5, <1>9, Zenon DEF sealed
  <2>2. IsSealed(out)
    <3> SUFFICES ASSUME NEW i \in 1 .. Len(ops), Acts(out[i]), NEW k \in DOMAIN out[i].args
                 PROVE  out[out[i].args[k][1]].region = out[i].region
      BY <1>2, Zenon DEF IsSealed
    <3>1. i \in {j \in DOMAIN ops : Acts(ops[j])}
      BY <1>2, <1>3
    <3>2. ops[ops[i].args[k][1]].region = ops[i].region
      BY <1>9, <2>1, <3>1, Zenon DEF IsSealed
    <3> QED BY <1>3, <2>1, <3>2, Zenon
  <2>3. ASSUME IsDominated(ops) PROVE IsDominated(out)
    <3> SUFFICES ASSUME NEW i \in 1 .. Len(ops), NEW k \in DOMAIN out[i].args
                 PROVE  IsPrefix(out[out[i].args[k][1]].region, out[i].region)
      BY <1>2, Zenon DEF IsDominated
    <3>1. IsPrefix(ops[ops[i].args[k][1]].region, ops[i].region)
      BY <1>2, <2>1, <2>3, Zenon DEF IsDominated
    <3>2. out[out[i].args[k][1]].region = ops[ops[i].args[k][1]].region /\ out[i].region = ops[i].region
      BY <1>3, <2>1, Zenon
    <3> QED BY <3>1, <3>2, Zenon
  <2> QED BY <2>2, <2>3, Zenon
<1> QED BY <1>2, <1>4, <1>8, <1>9, Zenon DEF out
=============================================================================
