-------------------------- MODULE CouplingBfsProofs --------------------------
(***************************************************************************)
(* Proofs about CouplingBfs for every edge list.  The inductive invariant  *)
(* says of the search in progress that what it has written is right, that  *)
(* its queue is layered, and that the neighbours of every qubit it has     *)
(* left behind have been visited.                                          *)
(***************************************************************************)
EXTENDS CouplingBfs, CouplingMapProofs, SequenceTheorems

(* The state of the search from src.                                       *)
Row      == dist[src]
Visited  == { q \in Phys(Device) : Row[q] # Unreachable }
Queued   == { queue[i] : i \in DOMAIN queue }
Left     == { todo[i] : i \in DOMAIN todo }

(* Every variable has its type, and between two sources nothing is open.   *)
TypeInv ==
  /\ edges \in EdgeLists
  /\ dist \in [Phys(Device) -> [Phys(Device) -> Nat \cup {Unreachable}]]
  /\ src \in 0 .. Device.size
  /\ queue \in Seq(Phys(Device))
  /\ u \in Phys(Device) \cup {-1}
  /\ todo \in Seq(Phys(Device))
  /\ src = Device.size => queue = <<>> /\ u = -1
  /\ u = -1 => todo = <<>>

(* Rows of finished searches are right, those of searches to come are as   *)
(* they were made.                                                         *)
RowsInv ==
  \A p, q \in Phys(Device) :
    /\ p < src => dist[p][q] = Distance(Device, p, q)
    /\ p > src => dist[p][q] = IF p = q THEN 0 ELSE Unreachable

(* What the current search has written is right.                           *)
VisitedInv ==
  src < Device.size =>
    /\ Row[src] = 0
    /\ \A q \in Visited : Row[q] = Distance(Device, src, q)

(* What is queued or being expanded has been visited; the queue lies at    *)
(* most one hop behind the qubit being expanded.                           *)
LayersInv ==
  /\ Queued \subseteq Visited
  /\ QueueIsLayered
  /\ u # -1 => /\ u \in Visited
               /\ \A q \in Queued : Row[u] <= Row[q] /\ Row[q] <= Row[u] + 1

(* The neighbours of a qubit that has left the queue have been visited, or *)
(* are still to be looked at in the inner loop.                            *)
ClosedInv ==
  /\ \A q \in Visited \ (Queued \cup {u}) : Neighbors(Device, q) \subseteq Visited
  /\ u # -1 => /\ Left \subseteq Neighbors(Device, u)
               /\ Neighbors(Device, u) \subseteq Visited \cup Left

SearchInv == src < Device.size => LayersInv /\ ClosedInv

BfsInv == TypeInv /\ RowsInv /\ VisitedInv /\ SearchInv

----------------------------------------------------------------------------

(* The elements of a sequence.                                             *)
Members(s) == { s[i] : i \in DOMAIN s }

(* What a concatenation holds.                                             *)
LEMMA MembersOfConcat ==
  ASSUME NEW S, NEW s \in Seq(S), NEW t \in Seq(S)
  PROVE  s \o t \in Seq(S) /\ Members(s \o t) = Members(s) \cup Members(t)
<1>1. s \o t \in Seq(S) /\ Len(s \o t) = Len(s) + Len(t)
      /\ \A i \in 1 .. Len(s) + Len(t) :
           (s \o t)[i] = IF i <= Len(s) THEN s[i] ELSE t[i - Len(s)]
  BY ConcatProperties
<1>2. /\ Len(s) \in Nat /\ Len(t) \in Nat
      /\ DOMAIN s = 1 .. Len(s) /\ DOMAIN t = 1 .. Len(t)
      /\ DOMAIN (s \o t) = 1 .. Len(s) + Len(t)
  BY <1>1, LenProperties
<1> DEFINE st == s \o t
<1> HIDE DEF st
<1>3. \A i \in DOMAIN s : i \in DOMAIN st /\ st[i] = s[i]
  BY <1>1, <1>2 DEF st
<1>4. \A i \in DOMAIN t : Len(s) + i \in DOMAIN st /\ st[Len(s) + i] = t[i]
  BY <1>1, <1>2 DEF st
<1>5. \A i \in DOMAIN st : (i \in DOMAIN s /\ st[i] = s[i]) \/ (i - Len(s) \in DOMAIN t /\ st[i] = t[i - Len(s)])
  BY <1>1, <1>2 DEF st
<1>6. Members(st) = Members(s) \cup Members(t)
  BY <1>3, <1>4, <1>5 DEF Members
<1> QED BY <1>1, <1>6 DEF st

(* The empty sequence and a sequence of one element.                       *)
LEMMA MembersOfShort ==
  /\ Members(<<>>) = {}
  /\ \A x : Members(<<x>>) = {x}
  BY DEF Members

(* Taking the head off a sequence.                                         *)
LEMMA MembersOfTail ==
  ASSUME NEW S, NEW s \in Seq(S), s # <<>>
  PROVE  /\ Head(s) \in S /\ Tail(s) \in Seq(S)
         /\ Head(s) = s[1] /\ 1 \in DOMAIN s
         /\ \A i \in DOMAIN Tail(s) : i + 1 \in DOMAIN s /\ Tail(s)[i] = s[i + 1]
         /\ Members(s) = {Head(s)} \cup Members(Tail(s))
<1>1. /\ Head(s) \in S /\ Tail(s) \in Seq(S) /\ Len(Tail(s)) = Len(s) - 1
      /\ \A i \in 1 .. Len(Tail(s)) : Tail(s)[i] = s[i + 1]
  BY HeadTailProperties
<1>2. /\ Len(s) \in Nat \ {0} /\ DOMAIN s = 1 .. Len(s)
      /\ DOMAIN Tail(s) = 1 .. Len(Tail(s))
  BY <1>1, LenProperties, EmptySeq
<1>3. Head(s) = s[1]
  OBVIOUS
<1> DEFINE t == Tail(s)
<1> HIDE DEF t
<1>4. 1 \in DOMAIN s /\ \A i \in DOMAIN t : i + 1 \in DOMAIN s /\ t[i] = s[i + 1]
  BY <1>1, <1>2 DEF t
<1>5. \A i \in DOMAIN s : i = 1 \/ (i - 1 \in DOMAIN t /\ t[i - 1] = s[i])
  BY <1>1, <1>2 DEF t
<1>6. Members(s) = {s[1]} \cup Members(t)
  BY <1>4, <1>5 DEF Members
<1> QED BY <1>1, <1>3, <1>4, <1>6 DEF t

----------------------------------------------------------------------------

(* The device is wide enough for every edge of the list.                   *)
LEMMA EdgesInDevice ==
  ASSUME edges \in Seq(Nat \X Nat)
  PROVE  /\ Device.size \in Nat
         /\ Device.edges = EdgeSet
         /\ \A i \in DOMAIN edges : edges[i][1] \in Phys(Device) /\ edges[i][2] \in Phys(Device)
<1>1. Len(edges) \in Nat /\ DOMAIN edges = 1 .. Len(edges) /\ \A i \in DOMAIN edges : edges[i] \in Nat \X Nat
  BY LenProperties, ElementOfSeq
<1> DEFINE n == Len(edges)
           T == { k \in 0 .. n : \E b \in Nat : \A i \in 1 .. k : edges[i][1] <= b /\ edges[i][2] <= b }
<1>2. 0 \in T
  BY <1>1
<1>3. \A k \in 1 .. n : k - 1 \in T => k \in T
  <2> SUFFICES ASSUME NEW k \in 1 .. n, k - 1 \in T PROVE k \in T
    OBVIOUS
  <2>1. PICK b \in Nat : \A i \in 1 .. (k - 1) : edges[i][1] <= b /\ edges[i][2] <= b
    OBVIOUS
  <2>2. edges[k][1] \in Nat /\ edges[k][2] \in Nat
    BY <1>1
  <2> DEFINE c == b + edges[k][1] + edges[k][2]
  <2>3. c \in Nat /\ b <= c /\ edges[k][1] <= c /\ edges[k][2] <= c
    BY <2>2
  <2>4. \A i \in 1 .. k : edges[i] \in Nat \X Nat
    BY <1>1
  <2> HIDE DEF c
  <2>5. \A i \in 1 .. k : edges[i][1] <= c /\ edges[i][2] <= c
    <3> TAKE i \in 1 .. k
    <3>1. CASE i = k
      BY <3>1, <2>3
    <3>2. CASE i # k
      <4>1. i \in 1 .. (k - 1) /\ edges[i][1] \in Nat /\ edges[i][2] \in Nat
        BY <3>2, <2>4
      <4> QED BY <4>1, <2>1, <2>3
    <3> QED BY <3>1, <3>2
  <2>6. k \in 0 .. n
    BY <1>1
  <2> QED BY <2>3, <2>5, <2>6
<1>4. n \in T
  <2>1. n \in Nat /\ n \in 0 .. n
    BY <1>1
  <2> HIDE DEF T, n
  <2> QED BY <2>1, <1>2, <1>3, CountingUp
<1>5. PICK b \in Nat : \A i \in 1 .. n : edges[i][1] <= b /\ edges[i][2] <= b
  BY <1>4
<1>6. EdgeSet \in SUBSET (Nat \X Nat)
  BY <1>1 DEF EdgeSet
<1>7. \A e \in EdgeSet : e[1] <= b /\ e[2] <= b
  BY <1>1, <1>5 DEF EdgeSet
<1>8. /\ Device.size \in Nat
      /\ Device.edges = EdgeSet
      /\ \A e \in EdgeSet : e[1] \in Phys(Device) /\ e[2] \in Phys(Device)
  BY <1>6, <1>7, GraphHoldsEndpoints DEF Device
<1>9. \A i \in DOMAIN edges : edges[i] \in EdgeSet
  BY DEF EdgeSet
<1> QED BY <1>8, <1>9

(* adj_[p] holds the neighbours of p, some of them more than once.         *)
LEMMA AdjacencyListHoldsNeighbors ==
  ASSUME edges \in Seq(Nat \X Nat), NEW p \in Phys(Device)
  PROVE  /\ AdjacencyList(p) \in Seq(Phys(Device))
         /\ Members(AdjacencyList(p)) = Neighbors(Device, p)
<1> DEFINE n == Len(edges)
           S == Seq(Phys(Device))
           Second(i) == IF edges[i][1] = p THEN <<edges[i][2]>> ELSE <<>>
           First(i) == IF edges[i][2] = p THEN <<edges[i][1]>> ELSE <<>>
           step == [i \in 1 .. n |-> [s \in S |-> s \o Second(i) \o First(i)]]
           IsList(L) == L = [i \in 0 .. n |-> IF i = 0 THEN <<>> ELSE L[i - 1] \o Second(i) \o First(i)]
<1>1. n \in Nat /\ DOMAIN edges = 1 .. n /\ \A i \in 1 .. n : edges[i] \in Nat \X Nat
  BY LenProperties, ElementOfSeq
<1>2. /\ Device.edges = EdgeSet
      /\ \A i \in 1 .. n : edges[i][1] \in Phys(Device) /\ edges[i][2] \in Phys(Device)
  BY <1>1, EdgesInDevice
<1>3. \A i \in 1 .. n : Second(i) \in S /\ First(i) \in S
  BY <1>2
<1> DEFINE Found(i) == { q \in Phys(Device) : \E j \in 1 .. i : edges[j] = <<p, q>> \/ edges[j] = <<q, p>> }
<1>4. \A i \in 1 .. n : Found(i) = Found(i - 1) \cup Members(Second(i)) \cup Members(First(i))
  <2> TAKE i \in 1 .. n
  <2> DEFINE a == edges[i][1]
             b == edges[i][2]
             Here == { q \in Phys(Device) : edges[i] = <<p, q>> \/ edges[i] = <<q, p>> }
  <2>1. edges[i] = <<a, b>> /\ a \in Phys(Device) /\ b \in Phys(Device)
    BY <1>1, <1>2
  <2>2. Members(Second(i)) = IF a = p THEN {b} ELSE {}
    BY MembersOfShort
  <2>3. Members(First(i)) = IF b = p THEN {a} ELSE {}
    BY MembersOfShort
  <2> HIDE DEF a, b
  <2>4. Here = (IF a = p THEN {b} ELSE {}) \cup (IF b = p THEN {a} ELSE {})
    BY <2>1
  <2>5. Found(i) = Found(i - 1) \cup Here
    <3>1. \A j \in 1 .. i : j = i \/ j \in 1 .. (i - 1)
      OBVIOUS
    <3>2. i \in 1 .. i /\ \A j \in 1 .. (i - 1) : j \in 1 .. i
      OBVIOUS
    <3> QED BY <3>1, <3>2
  <2> HIDE DEF Found, Here, Second, First
  <2> QED BY <2>2, <2>3, <2>4, <2>5
<1> HIDE DEF Second, First
<1>5. step \in [1 .. n -> [S -> S]]
  <2>1. \A i \in 1 .. n : \A s \in S : s \o Second(i) \o First(i) \in S
    BY <1>3, MembersOfConcat
  <2> HIDE DEF S
  <2> QED BY <2>1
<1>6. PICK g \in [0 .. n -> S] : Iterates(n, <<>>, step, g)
  <2>1. <<>> \in S
    OBVIOUS
  <2> HIDE DEF step, n, S
  <2> QED BY <1>1, <1>5, <2>1, IterationExists, Zenon
<1>7. IsList(g)
  <2> HIDE DEF S
  <2>1. g[0] = <<>> /\ \A i \in 1 .. n : g[i] = g[i - 1] \o Second(i) \o First(i)
    <3>1. g[0] = <<>> /\ \A i \in 1 .. n : g[i] = step[i][g[i - 1]]
      BY <1>6 DEF Iterates
    <3>2. ASSUME NEW i \in 1 .. n PROVE g[i] = g[i - 1] \o Second(i) \o First(i)
      <4>1. i - 1 \in 0 .. n
        BY <1>1
      <4>3. g[i - 1] \in S
        BY <4>1
      <4>2. step[i][g[i - 1]] = g[i - 1] \o Second(i) \o First(i)
        BY <4>3
      <4> QED BY <3>1, <4>2
    <3> QED BY <3>1, <3>2
  <2>2. \A i \in 0 .. n : g[i] = IF i = 0 THEN <<>> ELSE g[i - 1] \o Second(i) \o First(i)
    <3> TAKE i \in 0 .. n
    <3>1. CASE i = 0
      BY <2>1, <3>1
    <3>2. CASE i # 0
      <4>1. i \in 1 .. n
        BY <3>2, <1>1
      <4> QED BY <2>1, <3>2, <4>1
    <3> QED BY <3>1, <3>2
  <2> HIDE DEF n
  <2>3. g = [i \in 0 .. n |-> g[i]]
    OBVIOUS
  <2> QED BY <2>2, <2>3
<1> DEFINE L == CHOOSE f : IsList(f)
<1>8. AdjacencyList(p) = L[n]
  BY DEF AdjacencyList, Second, First
<1>9. IsList(L)
  <2> HIDE DEF IsList
  <2> QED BY <1>7, Zenon
<1> HIDE DEF L
<1>10. L[0] = <<>> /\ \A i \in 1 .. n : L[i] = L[i - 1] \o Second(i) \o First(i)
  <2>1. \A i \in 0 .. n : L[i] = IF i = 0 THEN <<>> ELSE L[i - 1] \o Second(i) \o First(i)
    BY <1>9, Zenon
  <2>2. 0 \in 0 .. n /\ \A i \in 1 .. n : i \in 0 .. n /\ i # 0
    BY <1>1
  <2> QED BY <2>1, <2>2
<1> DEFINE T == { i \in 0 .. n : L[i] \in S /\ Members(L[i]) = Found(i) }
<1>11. 0 \in T
  <2>1. Found(0) = {}
    OBVIOUS
  <2>2. <<>> \in S /\ 0 \in 0 .. n
    BY <1>1
  <2> QED BY <1>10, <2>1, <2>2, MembersOfShort
<1>12. \A i \in 1 .. n : i - 1 \in T => i \in T
  <2> SUFFICES ASSUME NEW i \in 1 .. n, i - 1 \in T PROVE i \in T
    OBVIOUS
  <2>1. L[i - 1] \in S /\ Members(L[i - 1]) = Found(i - 1)
    OBVIOUS
  <2> DEFINE a == L[i - 1]
             b == Second(i)
             c == First(i)
  <2>2. a \in S /\ b \in S /\ c \in S
    BY <1>3, <2>1
  <2>3. L[i] = (a \o b) \o c
    BY <1>10
  <2> HIDE DEF a, b, c
  <2>5. a \o b \in S /\ Members(a \o b) = Members(a) \cup Members(b)
    BY <2>2, MembersOfConcat
  <2> DEFINE ab == a \o b
  <2> HIDE DEF ab
  <2>8. ab \in S /\ c \in S
    BY <2>2, <2>5 DEF ab
  <2>9. ab \o c \in S /\ Members(ab \o c) = Members(ab) \cup Members(c)
    BY <2>8, MembersOfConcat
  <2>6. L[i] \in S /\ Members(L[i]) = Members(a) \cup Members(b) \cup Members(c)
    BY <2>3, <2>5, <2>9 DEF ab
  <2>4. i \in 0 .. n
    BY <1>1
  <2> HIDE DEF Found
  <2>7. Members(L[i]) = Found(i)
    BY <1>4, <2>1, <2>6 DEF a, b, c
  <2> QED BY <2>4, <2>6, <2>7
<1>13. n \in T
  <2>1. n \in 0 .. n
    BY <1>1
  <2> HIDE DEF T, n
  <2> QED BY <1>1, <1>11, <1>12, <2>1, CountingUp
<1>14. Neighbors(Device, p) = Found(n)
  <2>1. \A q : <<p, q>> \in EdgeSet <=> \E j \in 1 .. n : edges[j] = <<p, q>>
    BY <1>1 DEF EdgeSet
  <2>2. \A q : <<q, p>> \in EdgeSet <=> \E j \in 1 .. n : edges[j] = <<q, p>>
    BY <1>1 DEF EdgeSet
  <2> QED BY <1>2, <2>1, <2>2 DEF Neighbors, Adjacent
<1> QED BY <1>8, <1>13, <1>14

----------------------------------------------------------------------------

(* Writing an entry of a matrix.                                           *)
LEMMA MatrixUpdate ==
  ASSUME NEW S, NEW T, NEW m \in [S -> [S -> T]], NEW i \in S, NEW j \in S, NEW c \in T,
         NEW m2, m2 = [m EXCEPT ![i][j] = c]
  PROVE  /\ m2 \in [S -> [S -> T]]
         /\ \A p, q \in S : m2[p][q] = IF p = i /\ q = j THEN c ELSE m[p][q]
  OBVIOUS

(* What the types say of the device.                                       *)
LEMMA DeviceFacts ==
  ASSUME edges \in EdgeLists
  PROVE  /\ edges \in Seq(Nat \X Nat)
         /\ Device.size \in Nat
         /\ Phys(Device) = 0 .. (Device.size - 1)
         /\ \A p \in Phys(Device) : Neighbors(Device, p) \subseteq Phys(Device)
<1>1. edges \in Seq(Nat \X Nat)
  BY EdgeListsAssumption
<1> QED BY <1>1, EdgesInDevice DEF Phys, Neighbors

(* The edge list, hence the device, is never written to.                   *)
LEMMA DeviceIsFixed ==
  ASSUME edges' = edges
  PROVE  Device' = Device
  BY DEF Device, EdgeSet

(* The constructor starts the first search.                                *)
LEMMA InitBfs == Init => BfsInv
<1> SUFFICES ASSUME Init PROVE BfsInv
  OBVIOUS
<1> DEFINE P == Phys(Device)
<1>1. /\ edges \in EdgeLists /\ src = 0 /\ queue = SourceQueue(0) /\ u = -1 /\ todo = <<>>
      /\ dist = [p \in P |-> [q \in P |-> IF p = q THEN 0 ELSE Unreachable]]
  BY DEF Init
<1>2. Device.size \in Nat /\ P = 0 .. (Device.size - 1)
  BY <1>1, DeviceFacts
<1>3. \A p, q \in P : dist[p][q] = IF p = q THEN 0 ELSE Unreachable
  BY <1>1
<1> HIDE DEF P
<1>4. queue \in Seq(P) /\ (src = Device.size => queue = <<>>) /\ (src < Device.size => queue = <<src>> /\ src \in P)
  <2>1. CASE 0 < Device.size
    <3>1. queue = <<0>> /\ 0 \in P
      BY <1>1, <1>2, <2>1 DEF SourceQueue
    <3>2. <<0>> \in Seq(P)
      BY <3>1
    <3>3. src # Device.size /\ <<0>> = <<src>>
      BY <1>1, <2>1
    <3> QED BY <1>1, <3>1, <3>2, <3>3
  <2>2. CASE ~(0 < Device.size)
    <3>1. queue = <<>> /\ Device.size = 0
      BY <1>1, <1>2, <2>2 DEF SourceQueue
    <3>2. <<>> \in Seq(P) /\ ~(src < Device.size)
      BY <1>1, <2>2
    <3> QED BY <3>1, <3>2
  <2> QED BY <2>1, <2>2
<1>5. TypeInv
  BY <1>1, <1>2, <1>4 DEF TypeInv, P
<1>6. RowsInv
  BY <1>1, <1>2, <1>3 DEF RowsInv, P
<1>7. ASSUME src < Device.size
      PROVE  Visited = {src} /\ Queued = {src} /\ Row[src] = 0
  BY <1>3, <1>4, <1>7 DEF Visited, Queued, Row, P, Unreachable
<1>8. VisitedInv
  BY <1>2, <1>4, <1>7, DistanceToItself DEF VisitedInv, P
<1>9. ASSUME src < Device.size PROVE LayersInv
  <2>1. DOMAIN queue = {1}
    BY <1>4, <1>9
  <2> QED BY <1>1, <1>7, <1>9, <2>1 DEF LayersInv, QueueIsLayered
<1>10. ASSUME src < Device.size PROVE ClosedInv
  BY <1>1, <1>7, <1>10 DEF ClosedInv
<1> QED BY <1>5, <1>6, <1>8, <1>9, <1>10 DEF BfsInv, SearchInv

(* The front of the queue is taken for expansion.                          *)
LEMMA PopBfs ==
  ASSUME BfsInv, Pop
  PROVE  BfsInv'
<1> DEFINE P == Phys(Device)
<1>1. /\ edges' = edges /\ dist' = dist /\ src' = src
      /\ src < Device.size /\ u = -1 /\ queue # <<>>
      /\ u' = Head(queue) /\ queue' = Tail(queue)
      /\ todo' = AdjacencyList(Head(queue))
  BY DEF Pop
<1>2. Device' = Device /\ P' = P
  BY <1>1, DeviceIsFixed
<1>3. /\ edges \in EdgeLists /\ queue \in Seq(P) /\ src \in 0 .. Device.size
      /\ dist \in [P -> [P -> Nat \cup {Unreachable}]]
  BY DEF BfsInv, TypeInv
<1>4. Device.size \in Nat /\ P = 0 .. (Device.size - 1) /\ edges \in Seq(Nat \X Nat)
  BY <1>3, DeviceFacts
<1> HIDE DEF P
<1> DEFINE h == Head(queue)
           t == Tail(queue)
<1>5. /\ h \in P /\ t \in Seq(P)
      /\ h = queue[1] /\ 1 \in DOMAIN queue
      /\ \A i \in DOMAIN t : i + 1 \in DOMAIN queue /\ t[i] = queue[i + 1]
      /\ Members(queue) = {h} \cup Members(t)
  BY <1>1, <1>3, MembersOfTail
<1>6. DOMAIN t \subseteq Nat \ {0}
  BY <1>5, LenProperties
<1>7. AdjacencyList(h) \in Seq(P) /\ Members(AdjacencyList(h)) = Neighbors(Device, h)
  BY <1>4, <1>5, AdjacencyListHoldsNeighbors DEF P
<1>8. h # -1
  BY <1>4, <1>5
<1> HIDE DEF h, t
<1>9. u' = h /\ queue' = t /\ todo' = AdjacencyList(h)
  BY <1>1 DEF h, t
<1>10. TypeInv'
  BY <1>1, <1>2, <1>3, <1>4, <1>5, <1>7, <1>8, <1>9 DEF TypeInv, P
<1>11. RowsInv' /\ VisitedInv'
  <2>1. Visited' = Visited /\ Row' = Row
    BY <1>1, <1>2 DEF Visited, Row, P
  <2> QED BY <1>1, <1>2, <2>1 DEF BfsInv, RowsInv, VisitedInv, P, Row
<1>12. LayersInv /\ ClosedInv
  BY <1>1 DEF BfsInv, SearchInv
<1>13. Visited' = Visited /\ Queued' = Members(t) /\ Left' = Neighbors(Device, h) /\ Queued = {h} \cup Members(t)
  <2>1. Visited' = Visited
    BY <1>1, <1>2 DEF Visited, Row, P
  <2>2. Queued' = Members(t) /\ Left' = Members(AdjacencyList(h)) /\ Queued = Members(queue)
    BY <1>9, Zenon DEF Queued, Left, Members
  <2> QED BY <1>5, <1>7, <2>1, <2>2
<1>14. LayersInv'
  <2>1. \A i, j \in DOMAIN queue :
          i < j => /\ Row[queue[i]] <= Row[queue[j]]
                   /\ Row[queue[j]] <= Row[queue[i]] + 1
    BY <1>12 DEF LayersInv, QueueIsLayered, Row
  <2>2. \A i, j \in DOMAIN t :
          i < j => /\ Row[t[i]] <= Row[t[j]]
                   /\ Row[t[j]] <= Row[t[i]] + 1
    BY <1>5, <1>6, <2>1
  <2>3. \A i \in DOMAIN t : Row[h] <= Row[t[i]] /\ Row[t[i]] <= Row[h] + 1
    BY <1>5, <1>6, <2>1
  <2>4. QueueIsLayered'
    BY <1>1, <1>9, <2>2 DEF QueueIsLayered, Row
  <2>5. \A q \in Members(t) : Row[h] <= Row[q] /\ Row[q] <= Row[h] + 1
    BY <2>3 DEF Members
  <2>6. h \in Visited /\ Members(t) \subseteq Visited
    BY <1>12, <1>13 DEF LayersInv
  <2>7. Row' = Row
    BY <1>1 DEF Row
  <2> QED BY <1>9, <1>13, <2>4, <2>5, <2>6, <2>7 DEF LayersInv
<1>15. ClosedInv'
  <2>1. \A q \in Visited \ (Members(t) \cup {h}) : Neighbors(Device, q) \subseteq Visited
    <3>1. u \notin P
      BY <1>1, <1>4
    <3>2. Visited \subseteq P
      BY DEF Visited, P
    <3> QED BY <1>12, <1>13, <3>1, <3>2 DEF ClosedInv
  <2> QED BY <1>2, <1>9, <1>13, <2>1 DEF ClosedInv
<1> QED BY <1>10, <1>11, <1>14, <1>15 DEF BfsInv, SearchInv

(* The inner loop is over.                                                 *)
LEMMA ExpandedBfs ==
  ASSUME BfsInv, Expanded
  PROVE  BfsInv'
<1>1. /\ edges' = edges /\ dist' = dist /\ src' = src /\ queue' = queue /\ todo' = todo
      /\ u # -1 /\ todo = <<>> /\ u' = -1
  BY DEF Expanded
<1>2. Device' = Device
  BY <1>1, DeviceIsFixed
<1>3. TypeInv'
  BY <1>1, <1>2 DEF BfsInv, TypeInv
<1>4. /\ Visited' = Visited /\ Queued' = Queued /\ Left' = Left
      /\ Row' = Row
      /\ QueueIsLayered' <=> QueueIsLayered
  BY <1>1, <1>2 DEF Visited, Row, Queued, Left, QueueIsLayered
<1>5. RowsInv' /\ VisitedInv'
  BY <1>1, <1>2, <1>4 DEF BfsInv, RowsInv, VisitedInv
<1>6. Left = {}
  BY <1>1 DEF Left
<1>7. ASSUME LayersInv, ClosedInv PROVE LayersInv' /\ ClosedInv'
  <2>1. \A q \in Visited \ Queued : Neighbors(Device, q) \subseteq Visited
    BY <1>1, <1>6, <1>7 DEF ClosedInv
  <2> QED BY <1>1, <1>2, <1>4, <1>7, <2>1 DEF LayersInv, ClosedInv
<1> QED BY <1>1, <1>2, <1>3, <1>5, <1>7 DEF BfsInv, SearchInv

(* With an empty queue and no qubit being expanded, every qubit that a     *)
(* path joins to the source has been visited.                              *)
LEMMA SearchIsComplete ==
  ASSUME BfsInv, src < Device.size, queue = <<>>, u = -1
  PROVE  \A q \in Phys(Device) : dist[src][q] = Distance(Device, src, q)
<1>1. /\ edges \in EdgeLists /\ src \in 0 .. Device.size
      /\ dist \in [Phys(Device) -> [Phys(Device) -> Nat \cup {Unreachable}]]
  BY DEF BfsInv, TypeInv
<1>2. Device.size \in Nat /\ src \in Phys(Device) /\ -1 \notin Phys(Device)
  BY <1>1, DeviceFacts
<1>3. Queued = {}
  BY DEF Queued
<1>4. src \in Visited /\ \A q \in Visited : Row[q] = Distance(Device, src, q)
  BY <1>2 DEF BfsInv, VisitedInv, Visited, Unreachable
<1>5. \A r \in Visited : Neighbors(Device, r) \subseteq Visited
  BY <1>2, <1>3 DEF BfsInv, SearchInv, ClosedInv, Visited
<1>6. \A q \in Phys(Device) : Distance(Device, src, q) \in 0 .. Device.size => q \in Visited
  BY <1>2, <1>4, <1>5, ClosedSetHoldsBall
<1>7. \A q \in Phys(Device) : Distance(Device, src, q) \in 0 .. Device.size \cup {Unreachable}
  BY <1>2, DistanceIsLeast
<1> QED BY <1>4, <1>6, <1>7 DEF Visited, Row

(* A search is over and the next one starts.                               *)
LEMMA NextSourceBfs ==
  ASSUME BfsInv, NextSource
  PROVE  BfsInv'
<1> DEFINE P == Phys(Device)
           n == src + 1
<1>1. /\ edges' = edges /\ dist' = dist /\ u' = u /\ todo' = todo
      /\ src < Device.size /\ u = -1 /\ queue = <<>>
      /\ src' = n /\ queue' = IF n < Device.size THEN <<n>> ELSE <<>>
  BY DEF NextSource, SourceQueue
<1>2. Device' = Device /\ P' = P
  BY <1>1, DeviceIsFixed
<1>3. /\ edges \in EdgeLists /\ src \in 0 .. Device.size /\ u = -1 /\ todo = <<>>
      /\ dist \in [P -> [P -> Nat \cup {Unreachable}]]
  BY <1>1 DEF BfsInv, TypeInv
<1>4. Device.size \in Nat /\ P = 0 .. (Device.size - 1)
  BY <1>3, DeviceFacts
<1>5. n \in 1 .. Device.size /\ n - 1 = src /\ (n < Device.size => n \in P)
  BY <1>1, <1>3, <1>4
<1>6. \A q \in P : dist[src][q] = Distance(Device, src, q)
  BY <1>1, <1>3, SearchIsComplete
<1>7. \A p, q \in P :
        /\ p < src => dist[p][q] = Distance(Device, p, q)
        /\ p > src => dist[p][q] = IF p = q THEN 0 ELSE Unreachable
  BY DEF BfsInv, RowsInv
<1> HIDE DEF P, n
<1>8. TypeInv'
  <2>1. queue' \in Seq(P) /\ (n = Device.size => queue' = <<>>)
    <3>1. CASE n < Device.size
      BY <1>1, <1>4, <1>5, <3>1
    <3>2. CASE ~(n < Device.size)
      <4>1. queue' = <<>>
        BY <1>1, <3>2
      <4> QED BY <4>1
    <3> QED BY <3>1, <3>2
  <2>2. n \in 0 .. Device.size
    BY <1>4, <1>5
  <2> QED BY <1>1, <1>2, <1>3, <2>1, <2>2 DEF TypeInv, P
<1>9. RowsInv'
  <2>1. \A p, q \in P :
          /\ p < n => dist[p][q] = Distance(Device, p, q)
          /\ p > n => dist[p][q] = IF p = q THEN 0 ELSE Unreachable
    <3> TAKE p, q \in P
    <3>1. p \in Nat /\ src \in Nat /\ n \in Nat /\ n = src + 1
      BY <1>3, <1>4 DEF n
    <3>2. (p < n => p < src \/ p = src) /\ (p > n => p > src)
      BY <3>1
    <3> QED BY <1>6, <1>7, <3>2
  <2> QED BY <1>1, <1>2, <2>1 DEF RowsInv, P
<1>10. ASSUME n < Device.size
       PROVE  VisitedInv' /\ LayersInv' /\ ClosedInv'
  <2>1. n \in P /\ queue' = <<n>>
    BY <1>1, <1>5, <1>10
  <2>2. \A q \in P : dist[n][q] = IF n = q THEN 0 ELSE Unreachable
    <3>1. n > src
      BY <1>3, <1>5 DEF n
    <3> QED BY <1>7, <2>1, <3>1
  <2>3. Visited' = {n} /\ Row'[n] = 0
    BY <1>1, <1>2, <2>1, <2>2 DEF Visited, Row, P, Unreachable
  <2>4. Queued' = {n}
    BY <2>1 DEF Queued
  <2>5. Distance(Device, n, n) = 0
    BY <1>4, <2>1, DistanceToItself DEF P
  <2>6. VisitedInv'
    BY <1>1, <1>2, <2>3, <2>5 DEF VisitedInv, Row
  <2>7. QueueIsLayered'
    <3>1. DOMAIN queue' = {1}
      BY <2>1
    <3> QED BY <3>1 DEF QueueIsLayered
  <2>8. u' = -1
    BY <1>1
  <2>9. LayersInv'
    BY <2>3, <2>4, <2>7, <2>8 DEF LayersInv
  <2>10. ClosedInv'
    BY <2>3, <2>4, <2>8 DEF ClosedInv
  <2> QED BY <2>6, <2>9, <2>10
<1>11. VisitedInv' /\ SearchInv'
  BY <1>1, <1>2, <1>10 DEF VisitedInv, SearchInv
<1> QED BY <1>8, <1>9, <1>11 DEF BfsInv

(* While u is expanded, every qubit no farther from the source than u has  *)
(* been visited: an unvisited neighbour of u is one hop behind it.         *)
LEMMA LevelsAreComplete ==
  ASSUME BfsInv, src < Device.size, u # -1
  PROVE  \A q \in Phys(Device) \ Visited : q \in Neighbors(Device, u) =>
           Distance(Device, src, q) = Row[u] + 1
<1>1. /\ edges \in EdgeLists /\ src \in 0 .. Device.size /\ u \in Phys(Device)
      /\ dist \in [Phys(Device) -> [Phys(Device) -> Nat \cup {Unreachable}]]
  BY DEF BfsInv, TypeInv
<1>2. Device.size \in Nat /\ src \in Phys(Device)
  BY <1>1, DeviceFacts
<1>3. src \in Visited /\ \A q \in Visited : Row[q] = Distance(Device, src, q)
  BY <1>2 DEF BfsInv, VisitedInv, Visited, Unreachable
<1>4. LayersInv /\ ClosedInv
  BY DEF BfsInv, SearchInv
<1> DEFINE k == Row[u]
           D(x) == Distance(Device, src, x)
<1>5. u \in Visited /\ k = D(u) /\ k \in Nat
  <2>1. u \in Visited
    BY <1>4 DEF LayersInv
  <2>2. k \in Nat
    BY <1>1, <1>2, <2>1 DEF Visited, Row
  <2> QED BY <1>3, <2>1, <2>2
<1>6. \A q \in Queued : k <= Row[q] /\ q \in Visited
  BY <1>4 DEF LayersInv
<1>7. \A r \in Visited : D(r) \in 0 .. (k - 1) => Neighbors(Device, r) \subseteq Visited
  <2> SUFFICES ASSUME NEW r \in Visited, D(r) \in 0 .. (k - 1)
               PROVE  Neighbors(Device, r) \subseteq Visited
    OBVIOUS
  <2>1. Row[r] = D(r)
    BY <1>3
  <2> HIDE DEF D, k
  <2>2. Row[r] < k /\ Row[r] \in Int
    BY <1>5, <2>1
  <2>3. r \notin Queued
    BY <1>5, <1>6, <2>2
  <2>4. r # u
    BY <1>5, <2>2 DEF k
  <2> QED BY <1>4, <2>3, <2>4 DEF ClosedInv
<1> HIDE DEF k
<1>8. \A q \in Phys(Device) : D(q) \in 0 .. k => q \in Visited
  BY <1>2, <1>3, <1>5, <1>7, ClosedSetHoldsBall
<1> SUFFICES ASSUME NEW q \in Phys(Device) \ Visited, q \in Neighbors(Device, u)
             PROVE  D(q) = k + 1
  BY DEF k
<1>9. D(u) # Unreachable
  BY <1>5 DEF Unreachable
<1>10. D(q) \in 0 .. (D(u) + 1)
  BY <1>1, <1>2, <1>9, DistanceBeyond
<1>11. D(q) \notin 0 .. k
  BY <1>8
<1> HIDE DEF D
<1> QED BY <1>5, <1>10, <1>11

(* A neighbour is looked at: an unvisited one gets its distance and joins  *)
(* the queue.                                                              *)
LEMMA VisitBfs ==
  ASSUME BfsInv, Visit
  PROVE  BfsInv'
<1> DEFINE P == Phys(Device)
           v == Head(todo)
           rest == Tail(todo)
<1>1. /\ edges' = edges /\ src' = src /\ u' = u /\ u # -1 /\ todo # <<>> /\ todo' = rest
      /\ IF dist[src][v] < 0
         THEN /\ dist' = [dist EXCEPT ![src][v] = dist[src][u] + 1]
              /\ queue' = Append(queue, v)
         ELSE dist' = dist /\ queue' = queue
  BY DEF Visit
<1>2. Device' = Device /\ P' = P
  BY <1>1, DeviceIsFixed
<1>3. /\ edges \in EdgeLists /\ queue \in Seq(P) /\ todo \in Seq(P) /\ src \in 0 .. Device.size
      /\ dist \in [P -> [P -> Nat \cup {Unreachable}]]
      /\ u \in P /\ src # Device.size
  BY <1>1 DEF BfsInv, TypeInv
<1>4. Device.size \in Nat /\ P = 0 .. (Device.size - 1) /\ src \in P /\ src < Device.size
  BY <1>3, DeviceFacts
<1>5. v \in P /\ rest \in Seq(P) /\ Members(todo) = {v} \cup Members(rest)
  BY <1>1, <1>3, MembersOfTail
<1> HIDE DEF P, v, rest
<1>10. \A p, q \in P : dist[p][q] \in Nat \cup {Unreachable}
  BY <1>3
<1>6. VisitedInv /\ LayersInv /\ ClosedInv /\ RowsInv
  BY <1>4 DEF BfsInv, SearchInv
<1>7. Left = {v} \cup Members(rest) /\ Left' = Members(rest) /\ Left \subseteq Neighbors(Device, u)
  <2>1. Left = Members(todo) /\ Left' = Members(todo')
    BY DEF Left, Members
  <2>2. Left \subseteq Neighbors(Device, u)
    BY <1>1, <1>6 DEF ClosedInv
  <2>3. Members(todo') = Members(rest)
    BY <1>1
  <2> QED BY <1>5, <2>1, <2>2, <2>3
<1>8. CASE ~(dist[src][v] < 0)
  <2>1. dist' = dist /\ queue' = queue
    BY <1>1, <1>8
  <2>2. v \in Visited
    BY <1>3, <1>4, <1>5, <1>8 DEF Visited, Row, P, Unreachable
  <2>3. /\ Visited' = Visited /\ Queued' = Queued /\ Row' = Row
        /\ QueueIsLayered' <=> QueueIsLayered
    BY <1>1, <1>2, <2>1 DEF Visited, Queued, Row, QueueIsLayered
  <2>4. TypeInv'
    BY <1>1, <1>2, <1>3, <1>5, <2>1 DEF TypeInv, P
  <2>5. RowsInv' /\ VisitedInv'
    BY <1>1, <1>2, <1>6, <2>1, <2>3 DEF RowsInv, VisitedInv
  <2>6. LayersInv'
    BY <1>1, <1>6, <2>3 DEF LayersInv
  <2>7. ClosedInv'
    BY <1>1, <1>2, <1>6, <1>7, <2>2, <2>3 DEF ClosedInv
  <2> QED BY <2>4, <2>5, <2>6, <2>7 DEF BfsInv, SearchInv
<1>9. CASE dist[src][v] < 0
  <2> DEFINE k == dist[src][u]
  <2>1. dist' = [dist EXCEPT ![src][v] = k + 1] /\ queue' = Append(queue, v)
    BY <1>1, <1>9
  <2>2. v \notin Visited /\ dist[src][v] = Unreachable
    <3>1. dist[src][v] \in Nat \cup {Unreachable}
      BY <1>4, <1>5, <1>10
    <3>2. dist[src][v] = Unreachable
      BY <1>9, <3>1 DEF Unreachable
    <3> QED BY <3>2 DEF Visited, Row
  <2>3. u \in Visited /\ k \in Nat /\ k = Row[u]
    <3>1. u \in Visited
      BY <1>1, <1>6 DEF LayersInv
    <3> QED BY <1>3, <1>4, <3>1 DEF Visited, Row, P
  <2>4. Distance(Device, src, v) = k + 1
    BY <1>1, <1>4, <1>5, <1>7, <2>2, <2>3, LevelsAreComplete DEF P
  <2> HIDE DEF k
  <2>5. /\ dist' \in [P -> [P -> Nat \cup {Unreachable}]]
        /\ \A p, q \in P : dist'[p][q] = IF p = src /\ q = v THEN k + 1 ELSE dist[p][q]
    <3>1. k + 1 \in Nat \cup {Unreachable}
      BY <2>3
    <3> QED BY <1>3, <1>4, <1>5, <2>1, <3>1, MatrixUpdate
  <2>6. /\ queue' \in Seq(P)
        /\ DOMAIN queue' = 1 .. Len(queue) + 1 /\ DOMAIN queue = 1 .. Len(queue) /\ Len(queue) \in Nat
        /\ \A i \in 1 .. Len(queue) : queue'[i] = queue[i]
        /\ queue'[Len(queue) + 1] = v
    BY <1>3, <1>5, <2>1, AppendProperties, LenProperties
  <2>7. TypeInv'
    BY <1>1, <1>2, <1>3, <1>5, <2>5, <2>6 DEF TypeInv, P
  <2>8. RowsInv'
    <3>1. \A p, q \in P :
            /\ p < src => dist'[p][q] = Distance(Device, p, q)
            /\ p > src => dist'[p][q] = IF p = q THEN 0 ELSE Unreachable
      <4> TAKE p, q \in P
      <4>1. p # src => dist'[p][q] = dist[p][q]
        BY <2>5
      <4>2. p < src \/ p > src => p # src
        BY <1>4
      <4> QED BY <1>6, <4>1, <4>2 DEF RowsInv, P
    <3> QED BY <1>1, <1>2, <3>1 DEF RowsInv, P
  <2>9. \A q \in P : Row'[q] = IF q = v THEN k + 1 ELSE Row[q]
    BY <1>1, <1>4, <2>5 DEF Row
  <2>10. Visited' = Visited \cup {v}
    BY <1>2, <1>5, <2>3, <2>9 DEF Visited, P, Unreachable
  <2>11. Queued' = Queued \cup {v}
    <3>1. \A i \in DOMAIN queue : i \in DOMAIN queue' /\ queue'[i] = queue[i]
      BY <2>6
    <3>2. \A i \in DOMAIN queue' : (i \in DOMAIN queue /\ queue'[i] = queue[i]) \/ queue'[i] = v
      BY <2>6
    <3>3. Len(queue) + 1 \in DOMAIN queue' /\ queue'[Len(queue) + 1] = v
      BY <2>6
    <3> QED BY <3>1, <3>2, <3>3 DEF Queued
  <2>12. Visited \subseteq P /\ Queued \subseteq P
    BY <1>6 DEF Visited, P, LayersInv
  <2>13. VisitedInv'
    <3>1. Row[src] = 0 /\ src \in Visited /\ src # v
      BY <1>4, <1>6, <2>2 DEF VisitedInv, Visited, P, Unreachable
    <3>2. \A q \in Visited : Row'[q] = Distance(Device, src, q)
      BY <1>4, <1>6, <2>2, <2>9, <2>12 DEF VisitedInv
    <3>3. Row'[v] = Distance(Device, src, v)
      BY <1>5, <2>4, <2>9
    <3>4. Row'[src] = 0
      BY <1>4, <2>9, <3>1
    <3>5. \A q \in Visited' : Row'[q] = Distance(Device, src, q)
      BY <2>10, <3>2, <3>3
    <3> QED BY <1>1, <1>2, <3>4, <3>5 DEF VisitedInv, Row
  <2>14. LayersInv'
    <3>1. \A q \in Queued : q \in Visited /\ q # v /\ k <= Row[q] /\ Row[q] <= k + 1 /\ Row'[q] = Row[q]
      BY <1>1, <1>6, <2>2, <2>3, <2>9, <2>12 DEF LayersInv
    <3>2. Row'[v] = k + 1 /\ Row'[u] = k
      BY <1>3, <1>5, <2>2, <2>3, <2>9
    <3>3. \A q \in Queued' : Row'[u] <= Row'[q] /\ Row'[q] <= Row'[u] + 1
      BY <2>3, <2>11, <3>1, <3>2
    <3>4. Queued' \subseteq Visited' /\ u' \in Visited'
      BY <1>1, <2>3, <2>10, <2>11, <3>1
    <3>5. \A i \in DOMAIN queue : queue[i] \in Queued
      BY DEF Queued
    <3>6. \A i, j \in DOMAIN queue :
            i < j => /\ Row[queue[i]] <= Row[queue[j]]
                     /\ Row[queue[j]] <= Row[queue[i]] + 1
      BY <1>6 DEF LayersInv, QueueIsLayered, Row
    <3>7. ASSUME NEW i \in DOMAIN queue', NEW j \in DOMAIN queue', i < j
          PROVE  /\ dist'[src][queue'[i]] <= dist'[src][queue'[j]]
                 /\ dist'[src][queue'[j]] <= dist'[src][queue'[i]] + 1
      <4>1. i \in DOMAIN queue /\ queue'[i] = queue[i] /\ queue[i] \in Queued
        BY <2>6, <3>5, <3>7
      <4>2. dist'[src][queue'[i]] = Row[queue[i]] /\ k <= Row[queue[i]] /\ Row[queue[i]] <= k + 1 /\ Row[queue[i]] \in Int
        <5>1. Row'[queue[i]] = dist'[src][queue[i]]
          BY <1>1, <4>1 DEF Row
        <5>2. queue[i] \in P
          BY <2>12, <4>1
        <5>3. Row[queue[i]] \in Int
          <6>1. dist[src][queue[i]] \in Nat \cup {Unreachable}
            BY <1>4, <1>10, <5>2
          <6> QED BY <6>1 DEF Row, Unreachable
        <5>4. dist'[src][queue[i]] = Row[queue[i]]
          BY <1>4, <2>5, <5>2, <3>1, <4>1 DEF Row
        <5> QED BY <3>1, <4>1, <5>3, <5>4
      <4>3. CASE j \in DOMAIN queue
        <5>1. queue'[j] = queue[j] /\ queue[j] \in Queued /\ queue[j] \in P
          BY <2>6, <2>12, <3>5, <4>3
        <5>2. dist'[src][queue'[j]] = Row[queue[j]]
          BY <1>4, <2>5, <5>1, <3>1 DEF Row
        <5> QED BY <3>6, <3>7, <4>1, <4>2, <4>3, <5>2
      <4>4. CASE j \notin DOMAIN queue
        <5>1. queue'[j] = v
          BY <2>6, <4>4
        <5>2. dist'[src][queue'[j]] = k + 1
          BY <1>4, <1>5, <2>5, <5>1
        <5> QED BY <2>3, <4>2, <5>2
      <4> QED BY <4>3, <4>4
    <3>8. QueueIsLayered'
      BY <1>1, <3>7 DEF QueueIsLayered
    <3> QED BY <1>1, <3>3, <3>4, <3>8 DEF LayersInv, Row
  <2>15. ClosedInv'
    BY <1>1, <1>2, <1>6, <1>7, <2>10, <2>11 DEF ClosedInv
  <2> QED BY <2>7, <2>8, <2>13, <2>14, <2>15 DEF BfsInv, SearchInv
<1> QED BY <1>8, <1>9

----------------------------------------------------------------------------

(* The searches keep their invariant.                                      *)
THEOREM BfsInvariance == Spec => []BfsInv
<1>1. BfsInv /\ [Next]_vars => BfsInv'
  <2> SUFFICES ASSUME BfsInv, [Next]_vars PROVE BfsInv'
    OBVIOUS
  <2>1. CASE UNCHANGED vars
    <3>1. /\ edges' = edges /\ dist' = dist /\ src' = src /\ queue' = queue
          /\ u' = u /\ todo' = todo
      BY <2>1 DEF vars
    <3>2. Device' = Device
      BY <3>1, DeviceIsFixed
    <3>3. /\ Row' = Row /\ Visited' = Visited /\ Queued' = Queued /\ Left' = Left
          /\ QueueIsLayered' <=> QueueIsLayered
      BY <3>1, <3>2 DEF Row, Visited, Queued, Left, QueueIsLayered
    <3>4. TypeInv' /\ RowsInv'
      BY <3>1, <3>2 DEF BfsInv, TypeInv, RowsInv
    <3>5. VisitedInv' /\ SearchInv'
      BY <3>1, <3>2, <3>3 DEF BfsInv, VisitedInv, SearchInv, LayersInv, ClosedInv
    <3> QED BY <3>4, <3>5 DEF BfsInv
  <2> QED BY <2>1, PopBfs, VisitBfs, ExpandedBfs, NextSourceBfs DEF Next
<1> QED BY <1>1, InitBfs, PTL DEF Spec

(* The queue of every search holds at most two hop counts, in ascending    *)
(* order, whatever the edge list.                                          *)
THEOREM QueuesAreLayered == Spec => []QueueIsLayered
<1>1. BfsInv => QueueIsLayered
  <2> SUFFICES ASSUME BfsInv PROVE QueueIsLayered
    OBVIOUS
  <2>1. edges \in EdgeLists /\ src \in 0 .. Device.size /\ (src = Device.size => queue = <<>>)
    BY DEF BfsInv, TypeInv
  <2>2. Device.size \in Nat
    BY <2>1, DeviceFacts
  <2>3. CASE src = Device.size
    <3>1. DOMAIN queue = {}
      BY <2>1, <2>3
    <3> QED BY <3>1 DEF QueueIsLayered
  <2>4. CASE src < Device.size
    BY <2>4 DEF BfsInv, SearchInv, LayersInv
  <2> QED BY <2>1, <2>2, <2>3, <2>4
<1> QED BY <1>1, BfsInvariance, PTL

(* Every entry of the matrix that has been written is the length of a      *)
(* shortest path, and those of finished searches have all been written.    *)
THEOREM MatrixIsShortest == Spec => []DistancesAreShortest
<1>1. BfsInv => DistancesAreShortest
  <2> SUFFICES ASSUME BfsInv, NEW p \in Phys(Device), NEW q \in Phys(Device)
               PROVE  \/ dist[p][q] = Distance(Device, p, q)
                      \/ dist[p][q] = Unreachable /\ p >= src
    BY DEF DistancesAreShortest
  <2>1. edges \in EdgeLists /\ src \in 0 .. Device.size
    BY DEF BfsInv, TypeInv
  <2>2. Device.size \in Nat /\ p \in 0 .. (Device.size - 1)
    BY <2>1, DeviceFacts
  <2>3. CASE p < src
    BY <2>3 DEF BfsInv, RowsInv
  <2>4. CASE p = src
    <3>1. src < Device.size
      BY <2>2, <2>4
    <3> QED BY <2>4, <3>1, <2>1, <2>2 DEF BfsInv, VisitedInv, Visited, Row
  <2>5. CASE p > src
    <3>1. dist[p][q] = IF p = q THEN 0 ELSE Unreachable
      BY <2>5 DEF BfsInv, RowsInv
    <3>2. p = q => Distance(Device, p, q) = 0
      BY <2>2, DistanceToItself
    <3> QED BY <2>1, <2>2, <2>5, <3>1, <3>2
  <2> QED BY <2>1, <2>2, <2>3, <2>4, <2>5
<1> QED BY <1>1, BfsInvariance, PTL

(* A graph with the same qubits and couplings has the same distances.      *)
LEMMA DistanceOfGraph ==
  ASSUME NEW d, NEW e, d.size = e.size, d.edges = e.edges
  PROVE  \A p, q : Distance(d, p, q) = Distance(e, p, q)
  BY DEF Distance, Min, Ball, Neighbors, Adjacent, Phys

(* When the constructor returns, the matrix is the one the other modules   *)
(* give a device: the assumption they make of devices (IsDevice) is what   *)
(* the searches establish.                                                 *)
THEOREM ConstructorDelivers ==
  Spec => [](src = Device.size => dist = DeviceOf(EdgeSet).dist)
<1>1. ASSUME BfsInv, src = Device.size
      PROVE  dist = DeviceOf(EdgeSet).dist
  <2> DEFINE P == Phys(Device)
  <2>1. edges \in EdgeLists /\ dist \in [P -> [P -> Nat \cup {Unreachable}]]
    BY <1>1 DEF BfsInv, TypeInv
  <2>2. \A p \in P : p < src
    BY <1>1, <2>1, DeviceFacts
  <2>3. \A p, q \in P : dist[p][q] = Distance(Device, p, q)
    BY <1>1, <2>2 DEF BfsInv, RowsInv
  <2>4. DeviceOf(EdgeSet).dist = [p \in P |-> [q \in P |-> Distance(Device, p, q)]]
    BY DEF DeviceOf, Device
  <2> HIDE DEF P
  <2>5. \A p \in P : dist[p] = [q \in P |-> Distance(Device, p, q)]
    BY <2>1, <2>3
  <2>6. dist = [p \in P |-> dist[p]]
    BY <2>1
  <2> QED BY <2>4, <2>5, <2>6
<1>2. BfsInv => (src = Device.size => dist = DeviceOf(EdgeSet).dist)
  BY <1>1
<1> QED BY <1>2, BfsInvariance, PTL

(* A list of couplings between different qubits is made into a device with *)
(* the distances that the other modules assume.                            *)
LEMMA DeviceOfIsDevice ==
  ASSUME edges \in EdgeLists, \A i \in DOMAIN edges : edges[i][1] # edges[i][2]
  PROVE  IsDevice(DeviceOf(EdgeSet))
<1> DEFINE d == DeviceOf(EdgeSet)
<1>1. /\ edges \in Seq(Nat \X Nat) /\ Device.size \in Nat /\ Device.edges = EdgeSet
      /\ \A i \in DOMAIN edges : edges[i][1] \in Phys(Device) /\ edges[i][2] \in Phys(Device)
  BY DeviceFacts, EdgesInDevice
<1>2. /\ d.size = Device.size /\ d.edges = EdgeSet
      /\ d.dist = [p \in Phys(Device) |-> [q \in Phys(Device) |-> Distance(Device, p, q)]]
  BY DEF DeviceOf, Device
<1> HIDE DEF d
<1>3. Phys(d) = Phys(Device)
  BY <1>2 DEF Phys
<1>4. \A p, q : Distance(d, p, q) = Distance(Device, p, q)
  BY <1>1, <1>2, DistanceOfGraph
<1>5. \A e \in EdgeSet : e \in Phys(Device) \X Phys(Device) /\ e[1] # e[2]
  <2> SUFFICES ASSUME NEW i \in DOMAIN edges
               PROVE  edges[i] \in Phys(Device) \X Phys(Device) /\ edges[i][1] # edges[i][2]
    BY DEF EdgeSet
  <2>1. edges[i] \in Nat \X Nat
    BY <1>1
  <2> QED BY <1>1, <2>1
<1>6. d.dist = [p \in Phys(d) |-> [q \in Phys(d) |-> Distance(d, p, q)]]
  <2> DEFINE P == Phys(Device)
  <2> HIDE DEF P
  <2>1. \A p \in P : [q \in P |-> Distance(Device, p, q)] = [q \in P |-> Distance(d, p, q)]
    BY <1>4
  <2>2. [p \in P |-> [q \in P |-> Distance(Device, p, q)]] = [p \in P |-> [q \in P |-> Distance(d, p, q)]]
    BY <2>1
  <2> QED BY <1>2, <1>3, <2>2 DEF P
<1> QED BY <1>1, <1>2, <1>3, <1>5, <1>6 DEF IsDevice, d
=============================================================================
