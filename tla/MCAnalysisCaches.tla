-------------------------- MODULE MCAnalysisCaches --------------------------
EXTENDS AnalysisCaches, TLC

(* Two files that may declare the same route; one content refers to z. *)
MCFileOrder == <<"a", "z">>
MCContents == {"linked", "route"}
MCRefers == [linked |-> {"z"}, route |-> {}]
MCRoutes == [linked |-> {"/shared"}, route |-> {"/shared"}]

(* Two versions of the program that parse and scan otherwise. *)
MCExecutables == {[parser |-> 1, scanner |-> 1], [parser |-> 2, scanner |-> 2]}

(* It does not matter which version is installed first. *)
MCInit == Init /\ tree = [a |-> "linked", z |-> "route"] /\ installed.parser = 1
MCSpec == MCInit /\ [][Next]_vars

Symmetry == Permutations(Runs)

=============================================================================
