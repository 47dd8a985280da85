------------------------- MODULE CommunityAnalysis -------------------------
(***************************************************************************)
(* louvain_communities: every node in a community of its own, then pass    *)
(* after pass each node moved to the neighboring community that gains the  *)
(* most modularity.  The gain is compared in exact arithmetic, multiplied  *)
(* by the square of m2; the threshold of the code is below the smallest    *)
(* gain a graph of this size can have.                                     *)
(***************************************************************************)
EXTENDS AnalysedGraph

CONSTANTS
  Resolutions,   \* 1, and 2 for a large graph
  MaxIterations

ASSUME LouvainAssumption ==
  Resolutions \subseteq Nat \ {0} /\ MaxIterations \in Nat \ {0}

VARIABLES
  resolution,
  edgeCount,    \* total_edges
  community,    \* community of every node
  degreeSum,    \* community_degree_sum
  nextNode,     \* i, the nodes of the pass that are still to come
  improved,
  iteration     \* passes that have ended, MaxIterations when the loop is left

communityVars ==
  <<resolution, edgeCount, community, degreeSum, nextNode, improved, iteration>>

(* The graph is undirected; edge_count counts relationships, parallel and  *)
(* opposite ones too, while the sets of neighbors hold each node once.     *)
Neighbors(v) == Out(v) \union In(v)
Degree(v) == Cardinality(Neighbors(v))
M2 == 2 * edgeCount

CommunityInit ==
  /\ resolution \in Resolutions
  /\ edgeCount \in Cardinality(edges) .. (MaxParallel * Cardinality(edges))
  /\ community = [v \in Nodes |-> v]
  /\ degreeSum = [v \in Nodes |-> Degree(v)]
  /\ nextNode = Nodes
  /\ improved = FALSE
  /\ iteration = IF edges = {} THEN MaxIterations ELSE 0

Least(S) == CHOOSE x \in S : \A y \in S : x <= y

EdgesTo(v, c) == Cardinality({w \in Neighbors(v) : community[w] = c})

(* Mutant: the node still counts in the community it is taken from. *)
GainCountingSelf(v, c) ==
  M2 * (EdgesTo(v, c) - EdgesTo(v, community[v]))
    - resolution * Degree(v) * (degreeSum[c] - degreeSum[community[v]] - Degree(v))

(* total_gain, times M2 * M2. *)
Gain(v, c) ==
  M2 * (EdgesTo(v, c) - EdgesTo(v, community[v]))
    - resolution * Degree(v) * (degreeSum[c] - (degreeSum[community[v]] - Degree(v)))

(* The first of the neighboring communities with the greatest gain, if it  *)
(* is one.                                                                 *)
Better(v) ==
  LET around == {c \in {community[w] : w \in Neighbors(v)} \ {community[v]} :
                   Gain(v, c) > 0}
  IN  {c \in around : \A d \in around :
         Gain(v, d) < Gain(v, c) \/ (Gain(v, d) = Gain(v, c) /\ c <= d)}

Running == running = "louvain_communities" /\ iteration < MaxIterations

VisitNode ==
  /\ Running /\ nextNode # {}
  /\ LET v == Least(nextNode) IN
     /\ nextNode' = nextNode \ {v}
     /\ IF Better(v) = {}
        THEN UNCHANGED <<community, degreeSum, improved>>
        ELSE \E c \in Better(v) :
               /\ community' = [community EXCEPT ![v] = c]
               /\ degreeSum' = [degreeSum EXCEPT ![community[v]] = @ - Degree(v),
                                                 ![c] = @ + Degree(v)]
               /\ improved' = TRUE
  /\ UNCHANGED <<resolution, edgeCount, iteration>>

EndPass ==
  /\ Running /\ nextNode = {}
  /\ iteration' = IF improved THEN iteration + 1 ELSE MaxIterations
  /\ nextNode' = IF iteration' < MaxIterations THEN Nodes ELSE {}
  /\ improved' = FALSE
  /\ UNCHANGED <<resolution, edgeCount, community, degreeSum>>

CommunityStep == VisitNode \/ EndPass

-----------------------------------------------------------------------------
(* The modularity of a division, times M2 * M2. *)
Modularity(comm) ==
  LET members(c) == {v \in Nodes : comm[v] = c}
      inner(c)   == Cardinality({p \in members(c) \X members(c) : p[2] \in Neighbors(p[1])})
      total(c)   == FoldFunctionOnSet(+, 0, [v \in Nodes |-> Degree(v)], members(c))
  IN  FoldFunctionOnSet(+, 0,
        [c \in Nodes |-> M2 * inner(c) - resolution * total(c) * total(c)], Nodes)

(* Each move is decided by the difference it makes as seen from one node,  *)
(* with sums kept up to date by hand: it raises the modularity of the      *)
(* whole division, so the passes cannot go round in circles.               *)
ModularityGrows ==
  [][ community' # community => Modularity(community') > Modularity(community) ]_communityVars

=============================================================================
