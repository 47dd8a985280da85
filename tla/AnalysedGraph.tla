--------------------------- MODULE AnalysedGraph ---------------------------
(***************************************************************************)
(* What the analyses of the knowledge graph work on: the nodes and the     *)
(* relationships of the kinds an analysis follows, borrowed for as long as *)
(* it runs, so that nothing changes them meanwhile.  Nodes are numbered in *)
(* the order of their ids.  The analyses are sequential functions; each is *)
(* a module with the function's locals as its variables, and running says  *)
(* which of them has been called.                                          *)
(***************************************************************************)
EXTENDS Integers, Sequences, FiniteSets, SequencesExt, TLC

CONSTANTS
  Nodes,        \* node ids, as numbers
  Graphs,       \* the pairs of nodes with a relationship, to be tried
  MaxParallel   \* most relationships of one pair: a call found in two ways is two

ASSUME GraphAssumption ==
  /\ Nodes \subseteq Nat /\ IsFiniteSet(Nodes) /\ Nodes # {}
  /\ Graphs \subseteq SUBSET (Nodes \X Nodes)
  /\ MaxParallel \in Nat \ {0}

VARIABLES edges, running

graphVars == <<edges, running>>

Out(v) == {w \in Nodes : <<v, w>> \in edges}
In(v)  == {u \in Nodes : <<u, v>> \in edges}

-----------------------------------------------------------------------------
(* Reference definitions. *)

(* Nodes reached from the nodes of S in at most d steps, over the arrows   *)
(* and around the nodes of avoid.                                          *)
After(S, arrows) == {e[2] : e \in {f \in arrows : f[1] \in S}}

Within(S, arrows, avoid, d) ==
  LET W[i \in Nat] == IF i = 0 THEN S ELSE W[i-1] \union (After(W[i-1], arrows) \ avoid)
  IN  W[d]

(* Nodes reached from v in one step or more: what every set has that has   *)
(* all v leads to, and with a node all that one leads to.                  *)
Closed(S) == \A v \in S : Out(v) \subseteq S

Reached(v) ==
  {w \in Nodes : \A S \in SUBSET Nodes : Out(v) \subseteq S /\ Closed(S) => w \in S}

(* The strongly connected component of v. *)
Component(v) == {v} \union {w \in Reached(v) : v \in Reached(w)}

=============================================================================
