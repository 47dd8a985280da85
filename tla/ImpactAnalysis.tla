--------------------------- MODULE ImpactAnalysis ---------------------------
(***************************************************************************)
(* The two breadth-first searches with a depth limit: bfs_impact (what a   *)
(* change of a symbol affects, from the symbol and its members on, in one  *)
(* of two directions, around the nodes that are noise) and find_path (the  *)
(* shortest path between two symbols, given up at the limit).  The edges   *)
(* of a node are in no order.                                              *)
(***************************************************************************)
EXTENDS AnalysedGraph

CONSTANTS
  MaxDepth,   \* the largest depth limit tried
  Searches    \* the searches tried: seeds, goal, avoid, upstream, limit

NoGoal == {}

(* A path goes from one node to another along the relationships.           *)
ASSUME SearchAssumption ==
  /\ MaxDepth \in Nat
  /\ Searches \subseteq [seeds : SUBSET Nodes, goal : SUBSET Nodes,
                         avoid : SUBSET Nodes, upstream : BOOLEAN,
                         limit : 0..MaxDepth]
  /\ \A s \in Searches : s.goal # NoGoal =>
       /\ \E v, w \in Nodes : s.seeds = {v} /\ s.goal = {w}
       /\ ~s.upstream /\ s.avoid = {}

VARIABLES
  search,   \* the arguments
  queue,    \* nodes with their depth, the first one is popped next
  seen,     \* visited
  depths,   \* impact: depth of every node that is reported
  parent,   \* find_path: the node a node was found from
  answer    \* find_path: the path, <<>> while there is none

impactVars == <<search, queue, seen, depths, parent, answer>>

(* collect_impact_seed_ids lists the symbol and its members, find_path has *)
(* one node to start from.                                                 *)
ImpactInit(s) ==
  /\ search = s
  /\ \E order \in SetToSeqs(s.seeds) :
       queue = [i \in 1..Len(order) |-> [node |-> order[i], depth |-> 0]]
  /\ seen = s.seeds
  /\ depths = <<>>
  /\ parent = <<>>
  /\ answer = IF s.goal # NoGoal /\ s.goal = s.seeds THEN SetToSeq(s.goal) ELSE <<>>

Adjacent(v) == IF search.upstream THEN In(v) ELSE Out(v)

(* Mutant: noise is reported and gone through. *)
NewThroughNoise(v) == Adjacent(v) \ seen

(* The neighbors a node is the first to lead to.  Noise is neither         *)
(* reported nor gone through.                                              *)
New(v) == Adjacent(v) \ (seen \union search.avoid)

Queued(order, d) == [i \in 1..Len(order) |-> [node |-> order[i], depth |-> d]]

Beyond == Head(queue).depth >= search.limit

PopBeyond ==
  /\ queue # <<>> /\ answer = <<>> /\ Beyond
  /\ queue' = Tail(queue)
  /\ UNCHANGED <<search, seen, depths, parent, answer>>

PopImpact ==
  /\ running = "bfs_impact" /\ queue # <<>> /\ ~Beyond
  /\ LET v == Head(queue).node
         d == Head(queue).depth + 1
     IN  /\ \E order \in SetToSeqs(New(v)) : queue' = Tail(queue) \o Queued(order, d)
         /\ seen' = seen \union New(v)
         /\ depths' = [w \in DOMAIN depths \union New(v) |-> IF w \in New(v) THEN d ELSE depths[w]]
  /\ UNCHANGED <<search, parent, answer>>

(* From the goal back over the parents. *)
Walk(par, v) ==
  LET Longer(path) == IF path[1] \in DOMAIN par THEN <<par[path[1]]>> \o path ELSE path
      W[n \in Nat] == IF n = 0 THEN <<v>> ELSE Longer(W[n-1])
  IN  W[Cardinality(Nodes)]

(* The scan of a node's edges ends at the goal; what was queued by then    *)
(* makes no difference any more.                                           *)
PopPath ==
  /\ running = "find_path" /\ queue # <<>> /\ answer = <<>> /\ ~Beyond
  /\ LET v == Head(queue).node
         d == Head(queue).depth + 1
     IN  /\ \E order \in SetToSeqs(New(v)) : queue' = Tail(queue) \o Queued(order, d)
         /\ seen' = seen \union New(v)
         /\ parent' = [w \in DOMAIN parent \union New(v) |-> IF w \in New(v) THEN v ELSE parent[w]]
         /\ answer' = IF search.goal \subseteq New(v)
                      THEN Walk(parent', CHOOSE g \in search.goal : TRUE) ELSE <<>>
  /\ UNCHANGED <<search, depths>>

SearchDone == queue = <<>> \/ answer # <<>>

ImpactStep ==
  \/ running \in {"bfs_impact", "find_path"} /\ PopBeyond
  \/ PopImpact \/ PopPath

-----------------------------------------------------------------------------
Arrows == IF search.upstream THEN {<<e[2], e[1]>> : e \in edges} ELSE edges

(* A node is affected at the length of the shortest chain of relationships *)
(* that leads to it around the noise, and not at all if that is longer     *)
(* than the limit; a path is found if there is one within the limit, and   *)
(* it is a shortest one.                                                   *)
NearestFirst ==
  (running \in {"bfs_impact", "find_path"} /\ SearchDone) =>
    LET near(d) == Within(search.seeds, Arrows, search.avoid, d) IN
    IF running = "bfs_impact"
    THEN /\ DOMAIN depths = near(search.limit) \ search.seeds
         /\ \A w \in DOMAIN depths : w \in near(depths[w]) \ near(depths[w] - 1)
    ELSE IF search.goal \subseteq near(search.limit)
         THEN /\ answer # <<>>
              /\ {answer[1]} = search.seeds /\ {Last(answer)} = search.goal
              /\ \A i \in 1..(Len(answer) - 1) : answer[i+1] \in Out(answer[i])
              /\ \A d \in 0..(Len(answer) - 2) : ~(search.goal \subseteq near(d))
         ELSE answer = <<>>

=============================================================================
