-------------------------- MODULE MCGraphAnalyses --------------------------
EXTENDS GraphAnalyses

Three == {1, 2, 3}

(* All graphs of three nodes, and of four nodes those of up to seven edges *)
(* without one from a node to itself.                                      *)
MCGraphs ==
  SUBSET (Three \X Three)
    \union {E \in SUBSET (Nodes \X Nodes) :
              Cardinality(E) <= 7 /\ \A e \in E : e[1] # e[2]}

MCSearches ==
  {[seeds |-> {1, a}, goal |-> {}, avoid |-> b, upstream |-> u, limit |-> d] :
     a \in {1, 2}, b \in {{}, {3}}, u \in BOOLEAN, d \in 0..MaxDepth}
  \union
  {[seeds |-> {1}, goal |-> {g}, avoid |-> {}, upstream |-> FALSE, limit |-> d] :
     g \in {1, 4}, d \in 0..MaxDepth}

=============================================================================
