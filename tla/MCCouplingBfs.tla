--------------------------- MODULE MCCouplingBfs ---------------------------
(* All topologies on up to four qubits, plus edge lists that name a        *)
(* coupling twice or in both directions and leave an index without edges.  *)
EXTENDS CouplingBfs, SequencesExt

AllPairs == { <<p, q>> \in (0..3) \X (0..3) : p < q }

MCEdgeLists ==
  { SetToSeq(E) : E \in (SUBSET AllPairs) }
  \cup { << <<0, 1>>, <<1, 0>>, <<1, 2>>, <<2, 1>> >>,
         << <<2, 3>>, <<0, 2>>, <<2, 3>> >>,
         << <<4, 3>>, <<0, 1>>, <<1, 3>>, <<3, 0>> >> }
============================================================================
