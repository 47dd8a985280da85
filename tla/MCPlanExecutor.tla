--------------------------- MODULE MCPlanExecutor ---------------------------
EXTENDS PlanExecutor, TLC

(* As the planner makes them, a step on the search; and one that refers to *)
(* a step the plan does not have, as in a test of the executor.            *)
MCShapes == {[s \in Steps |-> IF s = "search" THEN {} ELSE {"search"}],
             [s \in Steps |-> IF s = "search" THEN {} ELSE {"nonexistent"}]}

(* The plans of one instance have the same shape. *)
MCInit == Init /\ \A q, r \in Runs : depends_on[q] = depends_on[r]
MCSpec == MCInit /\ [][Next]_vars

Symmetry == Permutations(Runs) \union Permutations(Calls)

=============================================================================
