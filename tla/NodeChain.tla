------------------------------ MODULE NodeChain ------------------------------
(***************************************************************************)
(* A chain of nodes in memory: queue.c and linkedList.c keep a pointer to  *)
(* the first node, and each node one to the next.                          *)
(***************************************************************************)
EXTENDS Naturals, Sequences, FiniteSets

\* The sequence q runs from the first node along the links to a last one,
\* whose link leads to no node.
Follows(nodes, first, link, q) ==
  /\ IF q = <<>>
     THEN first \notin nodes
     ELSE q[1] = first /\ link[q[Len(q)]] \notin nodes
  /\ \A k \in 1 .. Len(q) - 1 : q[k + 1] = link[q[k]]

\* The nodes from the first one on, in order; none when they go round.
ChainOf(nodes, first, link) ==
  LET from[k \in 0 .. Cardinality(nodes)] ==
        [n \in nodes |->
           IF k = 0 THEN <<>>
           ELSE <<n>> \o (IF link[n] \in nodes THEN from[k - 1][link[n]] ELSE <<>>)]
  IN IF first \in nodes THEN from[Cardinality(nodes)][first] ELSE <<>>
=============================================================================
