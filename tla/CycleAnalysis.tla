--------------------------- MODULE CycleAnalysis ---------------------------
(***************************************************************************)
(* The two searches for cycles: find_cycles, an iterative form of Tarjan's *)
(* algorithm with a work list in the place of the call stack, and          *)
(* detect_circular_dependencies, a recursive depth-first search.           *)
(***************************************************************************)
EXTENDS AnalysedGraph

VARIABLES
  work,      \* find_cycles: the work items, the last one is popped next
  counter,   \* index_counter
  indices,   \* index of every node that was entered
  lowlinks,
  stack,
  onStack,   \* on_stack
  sccs,      \* the components found, as the lists that were popped
  frames,    \* dfs_find_cycles: the calls in progress, node and neighbors left
  visited,
  circular   \* the cycles found, as paths

tarjanVars == <<work, counter, indices, lowlinks, stack, onStack, sccs>>
dfsVars    == <<frames, visited, circular>>
cycleVars  == <<tarjanVars, dfsVars>>

Lowest(S) == CHOOSE x \in S : \A y \in S : x <= y

CycleInit ==
  /\ work = <<>> /\ counter = 0 /\ indices = <<>> /\ lowlinks = <<>>
  /\ stack = <<>> /\ onStack = {} /\ sccs = <<>>
  /\ frames = <<>> /\ visited = {} /\ circular = {}

Entered == DOMAIN indices

With(f, v, x) == [w \in DOMAIN f \union {v} |-> IF w = v THEN x ELSE f[w]]

Enter(v)  == [item |-> "Enter", node |-> v]
Resume(v) == [item |-> "Resume", node |-> v]

(* The next node in the order of the ids that was not entered. *)
NextRoot ==
  /\ running = "find_cycles" /\ work = <<>> /\ Entered # Nodes
  /\ work' = <<Enter(Lowest(Nodes \ Entered))>>
  /\ UNCHANGED <<counter, indices, lowlinks, stack, onStack, sccs, dfsVars>>

(* The nodes of S from the last to the first, each as often as there are   *)
(* relationships to it.                                                    *)
Schedules(S) ==
  {s \in BoundedSeq(S, MaxParallel * Cardinality(S)) :
     /\ ToSet(s) = S
     /\ \A i, j \in 1..Len(s) : i < j => s[i] >= s[j]
     /\ \A w \in S : Cardinality({i \in 1..Len(s) : s[i] = w}) <= MaxParallel}

(* A node is scheduled by every relationship to it from a node that is     *)
(* entered before it, and entered again, with a new index, when a later    *)
(* item of it is popped.                                                   *)
EnterNode ==
  /\ running = "find_cycles" /\ work # <<>> /\ Last(work).item = "Enter"
  /\ LET v         == Last(work).node
         unvisited == Out(v) \ (Entered \union {v})
     IN  /\ indices' = With(indices, v, counter)
         /\ counter' = counter + 1
         /\ stack' = Append(stack, v)
         /\ onStack' = onStack \union {v}
         /\ lowlinks' = With(lowlinks, v, Lowest({indices'[w] : w \in (Out(v) \intersect onStack')
                                                                      \union {v}}))
         /\ \E scheduled \in Schedules(unvisited) :
              work' = Append(Front(work), Resume(v))
                        \o [i \in 1..Len(scheduled) |-> Enter(scheduled[i])]
  /\ UNCHANGED <<sccs, dfsVars>>

(* Where the topmost v is in the stack. *)
TopOf(v) == CHOOSE i \in 1..Len(stack) :
              stack[i] = v /\ \A j \in (i+1)..Len(stack) : stack[j] # v

(* Mutant: the lowlinks of the children are not taken over. *)
OwnLow(v) == lowlinks[v]

LowOf(v) == Lowest({lowlinks[w] : w \in (Out(v) \intersect onStack) \union {v}})

ResumeNode ==
  /\ running = "find_cycles" /\ work # <<>> /\ Last(work).item = "Resume"
  /\ LET v   == Last(work).node
         low == LowOf(v)
     IN  /\ lowlinks' = With(lowlinks, v, low)
         /\ work' = Front(work)
         /\ IF low = indices[v]
            THEN LET popped == SubSeq(stack, TopOf(v), Len(stack)) IN
                 /\ sccs' = Append(sccs, Reverse(popped))
                 /\ stack' = SubSeq(stack, 1, TopOf(v) - 1)
                 /\ onStack' = onStack \ ToSet(popped)
            ELSE UNCHANGED <<sccs, stack, onStack>>
  /\ UNCHANGED <<counter, indices, dfsVars>>

CyclesFound == running = "find_cycles" /\ work = <<>> /\ Entered = Nodes

IsCycle(scc) == Len(scc) >= 2 \/ scc[1] \in Out(scc[1])

(* What find_cycles returns, but for the order. *)
Cycles == {scc \in ToSet(sccs) : IsCycle(scc)}

-----------------------------------------------------------------------------
(* The maps and sets of detect_circular_dependencies are iterated in any   *)
(* order.  A call is a frame; the path and rec_stack are the nodes of the  *)
(* frames.  MAX_DFS_DEPTH, a hundred calls, is left out.                   *)

StartFile(v) ==
  /\ running = "detect_circular_dependencies" /\ frames = <<>>
  /\ v \notin visited /\ Out(v) # {}
  /\ visited' = visited \union {v}
  /\ frames' = <<[node |-> v, left |-> Out(v)]>>
  /\ UNCHANGED <<circular, tarjanVars>>

Path == [i \in 1..Len(frames) |-> frames[i].node]

(* Mutant: the path is cut after w, not at it. *)
BackEdgeAfter(w) ==
  {SubSeq(Path, i + 1, Len(Path)) : i \in {j \in 1..(Len(Path) - 1) : Path[j] = w}}

(* The part of the path from w on, if w is on it and another node is. *)
BackEdge(w) ==
  {SubSeq(Path, i, Len(Path)) : i \in {j \in 1..(Len(Path) - 1) : Path[j] = w}}

Neighbor(w) ==
  /\ running = "detect_circular_dependencies" /\ frames # <<>>
  /\ w \in Last(frames).left
  /\ LET rest == [frames EXCEPT ![Len(frames)].left = @ \ {w}] IN
     IF w \notin visited
     THEN /\ visited' = visited \union {w}
          /\ frames' = Append(rest, [node |-> w, left |-> Out(w)])
          /\ UNCHANGED circular
     ELSE /\ frames' = rest
          /\ circular' = circular \union BackEdge(w)
          /\ UNCHANGED visited
  /\ UNCHANGED tarjanVars

Return ==
  /\ running = "detect_circular_dependencies" /\ frames # <<>>
  /\ Last(frames).left = {}
  /\ frames' = Front(frames)
  /\ UNCHANGED <<visited, circular, tarjanVars>>

CircularDone ==
  /\ running = "detect_circular_dependencies" /\ frames = <<>>
  /\ \A v \in Nodes : Out(v) # {} => v \in visited

CycleStep ==
  \/ NextRoot \/ EnterNode \/ ResumeNode
  \/ \E v \in Nodes : StartFile(v) \/ Neighbor(v)
  \/ Return

-----------------------------------------------------------------------------
(* find_cycles finds the cycles its module comment defines, the strongly   *)
(* connected components of two nodes or more and the nodes with an edge to *)
(* themselves, whatever was entered how often: each of them is reported,   *)
(* and nothing that is not part of one.                                    *)
CyclesAreComponents ==
  CyclesFound =>
    LET reported   == {ToSet(scc) : scc \in Cycles}
        components == {Component(v) : v \in {u \in Nodes : u \in Reached(u)}}
    IN  /\ components \subseteq reported
        /\ \A c \in reported : \E d \in components : c \subseteq d

(* A cycle is a list of the nodes in it and its length their number, from  *)
(* which its severity follows: no node is listed twice.                    *)
CycleNodesOnce ==
  CyclesFound => \A scc \in Cycles : Len(scc) = Cardinality(ToSet(scc))

(* The depth-first search looks at every file once and prunes at the files *)
(* it saw, and yet finds a cycle wherever there is one of two files or     *)
(* more, and none that is not one.                                         *)
CircularFound ==
  CircularDone =>
    /\ \A v \in Nodes : Cardinality(Component(v)) >= 2 =>
         \E c \in circular : ToSet(c) \subseteq Component(v)
    /\ \A c \in circular : \A i \in 1..Len(c) : c[(i % Len(c)) + 1] \in Out(c[i])

=============================================================================
