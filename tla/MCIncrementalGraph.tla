------------------------- MODULE MCIncrementalGraph -------------------------
EXTENDS IncrementalGraph

MCPaths == Files \union Dirs \union {Root}

(* "src" holds a file and a directory of its own, which holds the rest. *)
MCParent == [x \in {"src", "main", "deep", "lib", "guide"} |->
               CASE x = "src" -> Root
                 [] x = "deep" -> "src"
                 [] x = "main" -> "src"
                 [] OTHER -> "deep"]

(* "either" is a suffix of both code files, of which the walk meets main   *)
(* first.                                                                  *)
MCCandidates == [n \in {"either", "lib", "guide"} |->
                   CASE n = "either" -> <<"main", "lib">>
                     [] n = "lib" -> <<"lib">>
                     [] n = "guide" -> <<"guide", "main">>]

MCPathOrder == <<"lib", "main">>

(* The caller in the first is named by what is no symbol.                  *)
MCMains ==
  {[parts |-> {}, refers |-> {"either"}, calls |-> {[by |-> "p", of |-> "p"]}, marks |-> {}],
   [parts |-> {"p"}, refers |-> {}, calls |-> {}, marks |-> {"todo"}],
   [parts |-> {"p"}, refers |-> {"lib", "guide"}, calls |-> {[by |-> NoPart, of |-> "p"]},
    marks |-> {}]}

MCLibs ==
  {[parts |-> {}, refers |-> {"either"}, calls |-> {[by |-> "p", of |-> "p"]}, marks |-> {}],
   [parts |-> {"p"}, refers |-> {"guide"}, calls |-> {}, marks |-> {"todo"}]}

MCGuides ==
  {[parts |-> {"p"}, refers |-> {"guide"}], [parts |-> {}, refers |-> {"either"}]}

MCContents ==
  [f \in {"main", "lib", "guide"} |->
     CASE f = "main" -> MCMains [] f = "lib" -> MCLibs [] OTHER -> MCGuides]

=============================================================================
