---------------------------- MODULE MCEnrichment ----------------------------
EXTENDS Enrichment

(* The page of a module that shrinks, and the overview, which is enriched  *)
(* last and reviewed, and of which hardly anything is left.                *)
MCPages == <<"module", "overview">>
MCSize == [module |-> <<"large", "normal">>, overview |-> <<"normal", "tiny">>]
MCSections == <<"lead", "flow">>

=============================================================================
