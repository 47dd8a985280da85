--------------------------- MODULE GraphAnalyses ---------------------------
(***************************************************************************)
(* The analyses together: one of them is called on one of the graphs and   *)
(* runs to its end.                                                        *)
(***************************************************************************)
EXTENDS CycleAnalysis, ImpactAnalysis, CommunityAnalysis

allVars == <<graphVars, cycleVars, impactVars, communityVars>>

Impacts == {s \in Searches : s.goal = NoGoal}
Paths   == {s \in Searches : s.goal # NoGoal}

(* The arguments the analysis that runs is not interested in are fixed. *)
Init ==
  /\ edges \in Graphs
  /\ running \in {"find_cycles", "detect_circular_dependencies", "bfs_impact",
                  "find_path", "louvain_communities"}
  /\ CycleInit /\ CommunityInit
  /\ \E s \in Searches :
       /\ running = "bfs_impact" => s \in Impacts
       /\ running = "find_path" => s \in Paths
       /\ running \notin {"bfs_impact", "find_path"} => s = CHOOSE t \in Impacts : TRUE
       /\ ImpactInit(s)
  /\ running # "louvain_communities" => resolution = 1 /\ edgeCount = Cardinality(edges)

Next ==
  /\ UNCHANGED graphVars
  /\ \/ CycleStep     /\ UNCHANGED <<impactVars, communityVars>>
     \/ ImpactStep    /\ UNCHANGED <<cycleVars, communityVars>>
     \/ CommunityStep /\ UNCHANGED <<cycleVars, impactVars>>

Spec == Init /\ [][Next]_allVars

=============================================================================
