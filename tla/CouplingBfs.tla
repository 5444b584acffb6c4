---------------------------- MODULE CouplingBfs ----------------------------
(***************************************************************************)
(* CouplingMap::computeDistanceMatrix (passes/lib/CouplingMap.cpp): one    *)
(* breadth-first search per physical qubit over adjacency lists that hold  *)
(* a neighbour once per edge that names it (an edge list with both         *)
(* directions of a coupling lists every neighbour twice).                  *)
(***************************************************************************)
EXTENDS CouplingMap, Sequences

CONSTANT EdgeLists     \* the edge lists (sequences of pairs) to try

(* An edge names two indices of vectors, so neither is negative; nothing   *)
(* else is asked of the list of couplings a user writes.                   *)
ASSUME EdgeListsAssumption == \A e \in EdgeLists : e \in Seq(Nat \X Nat)

VARIABLES edges,       \* the edge list handed to the constructor
          dist,        \* dist_: the matrix under construction
          src,         \* the source of the current search
          queue,       \* the search's queue
          u,           \* the qubit being expanded, -1 between two
          todo         \* what is left of adj_[u] in the inner loop

vars == <<edges, dist, src, queue, u, todo>>

EdgeSet == { edges[i] : i \in DOMAIN edges }
Device  == GraphOf(EdgeSet)

(* Mutant: an edge is listed at its first end only. *)
DirectedAdjacencyList(p) ==
  LET L[i \in 0 .. Len(edges)] ==
        IF i = 0 THEN <<>>
        ELSE L[i-1] \o (IF edges[i][1] = p THEN <<edges[i][2]>> ELSE <<>>)
  IN  L[Len(edges)]

(***************************************************************************)
(* adj_[p]: each edge appends its second end to the first's list and its   *)
(* first end to the second's.                                              *)
(***************************************************************************)
AdjacencyList(p) ==
  LET L[i \in 0 .. Len(edges)] ==
        IF i = 0 THEN <<>>
        ELSE L[i-1] \o (IF edges[i][1] = p THEN <<edges[i][2]>> ELSE <<>>)
                    \o (IF edges[i][2] = p THEN <<edges[i][1]>> ELSE <<>>)
  IN  L[Len(edges)]

(* A search starts from its source alone, if there is still a source. *)
SourceQueue(s) == IF s < Device.size THEN <<s>> ELSE <<>>

Init ==
  /\ edges \in EdgeLists
  /\ dist = [p \in Phys(Device) |->
               [q \in Phys(Device) |-> IF p = q THEN 0 ELSE Unreachable]]
  /\ src = 0
  /\ queue = SourceQueue(0)
  /\ u = -1
  /\ todo = <<>>

Pop ==
  /\ src < Device.size /\ u = -1 /\ queue # <<>>
  /\ u' = Head(queue)
  /\ todo' = AdjacencyList(Head(queue))
  /\ queue' = Tail(queue)
  /\ UNCHANGED <<edges, dist, src>>

(* Mutant: the queue is used as a stack. *)
VisitDepthFirst ==
  /\ u # -1 /\ todo # <<>>
  /\ LET v == Head(todo)
     IN  IF dist[src][v] < 0
         THEN /\ dist' = [dist EXCEPT ![src][v] = dist[src][u] + 1]
              /\ queue' = <<v>> \o queue
         ELSE UNCHANGED <<dist, queue>>
  /\ todo' = Tail(todo)
  /\ UNCHANGED <<edges, src, u>>

(* Mutant: the inner loop does not move past a neighbour already seen. *)
VisitWithoutAdvance ==
  /\ u # -1 /\ todo # <<>> /\ dist[src][Head(todo)] < 0
  /\ dist' = [dist EXCEPT ![src][Head(todo)] = dist[src][u] + 1]
  /\ queue' = Append(queue, Head(todo))
  /\ todo' = Tail(todo)
  /\ UNCHANGED <<edges, src, u>>

(* One turn of the loop over adj_[u]: only an unseen neighbour is queued. *)
Visit ==
  /\ u # -1 /\ todo # <<>>
  /\ LET v == Head(todo)
     IN  IF dist[src][v] < 0
         THEN /\ dist' = [dist EXCEPT ![src][v] = dist[src][u] + 1]
              /\ queue' = Append(queue, v)
         ELSE UNCHANGED <<dist, queue>>
  /\ todo' = Tail(todo)
  /\ UNCHANGED <<edges, src, u>>

Expanded ==
  /\ u # -1 /\ todo = <<>>
  /\ u' = -1
  /\ UNCHANGED <<edges, dist, src, queue, todo>>

NextSource ==
  /\ src < Device.size /\ u = -1 /\ queue = <<>>
  /\ src' = src + 1
  /\ queue' = SourceQueue(src')
  /\ UNCHANGED <<edges, dist, u, todo>>

Next == Pop \/ Visit \/ Expanded \/ NextSource

Spec == Init /\ [][Next]_vars /\ WF_vars(Next)

----------------------------------------------------------------------------

(* The queue of a breadth-first search holds at most two hop counts, in    *)
(* ascending order: the reason why the first distance written is final.    *)
QueueIsLayered ==
  \A i, j \in DOMAIN queue :
    i < j => /\ dist[src][queue[i]] <= dist[src][queue[j]]
             /\ dist[src][queue[j]] <= dist[src][queue[i]] + 1

(* No entry is ever an overestimate that a later step must repair: each    *)
(* entry written is the length of a shortest path, and those of finished   *)
(* searches are all written.                                               *)
DistancesAreShortest ==
  \A p, q \in Phys(Device) :
    \/ dist[p][q] = Distance(Device, p, q)
    \/ dist[p][q] = Unreachable /\ p >= src

(* The constructor returns, with the whole matrix filled in. *)
MatrixFilled ==
  <>( /\ src = Device.size
      /\ \A p, q \in Phys(Device) : dist[p][q] = Distance(Device, p, q) )
=============================================================================
