---------------------------- MODULE AnalyzeIndex ----------------------------
(***************************************************************************)
(* The analyze command (and the desktop's analyze_repo, which takes the    *)
(* same steps): a full pipeline over one walk of the repository, then the  *)
(* files of .codeexplorer one after the other - meta.json, the snapshot,   *)
(* and a manifest built from a second walk.  Every write that fails ends   *)
(* the command where it is.                                                *)
(***************************************************************************)
EXTENDS IndexStore

VARIABLES
  apc,      \* where the analyze process is
  meta,     \* meta.json exists, which is all has_index looks at
  atodo,    \* files the current walk has still to read
  awalked,  \* contents the current walk has read
  graph,    \* the graph the pipeline built
  touched   \* files edited since the analysis started

analyzeVars == <<apc, meta, atodo, awalked, graph, touched>>

AnalyzeInit ==
  /\ apc = "off"
  /\ meta = snapExists
  /\ atodo = {}
  /\ awalked = NothingRead
  /\ graph = EmptyGraph
  /\ touched = {}

has_index == meta

(* Without --force or --incremental an indexed repository is left alone. *)
StartAnalysis(forced) ==
  /\ apc = "off"
  /\ forced \/ ~has_index
  /\ apc' = "parse"
  /\ atodo' = Files
  /\ touched' = {}
  /\ UNCHANGED <<storeVars, meta, awalked, graph>>

AnalyzeReadFile(f) ==
  /\ apc \in {"parse", "rewalk"}
  /\ f \in atodo
  /\ awalked' = [awalked EXCEPT ![f] = tree[f]]
  /\ atodo' = atodo \ {f}
  /\ UNCHANGED <<storeVars, apc, meta, graph, touched>>

(* Mutant: the pipeline starts from the nodes of the previous snapshot. *)
RunPipelineOver ==
  /\ apc = "parse"
  /\ atodo = {}
  /\ graph' = [f \in Files |-> snap[f] \union Symbols(awalked[f])]
  /\ apc' = "saveMeta"
  /\ UNCHANGED <<storeVars, meta, atodo, awalked, touched>>

RunPipeline ==
  /\ apc = "parse"
  /\ atodo = {}
  /\ graph' = GraphOf(awalked)
  /\ apc' = "saveMeta"
  /\ UNCHANGED <<storeVars, meta, atodo, awalked, touched>>

SaveMeta ==
  /\ apc = "saveMeta"
  /\ meta' = TRUE
  /\ apc' = "saveSnapshot"
  /\ UNCHANGED <<storeVars, atodo, awalked, graph, touched>>

(* Mutant: a snapshot that exists already is left alone. *)
SaveFirstAnalyzedSnapshot ==
  /\ apc = "saveSnapshot"
  /\ StoreSnapshot(IF snapExists THEN snap ELSE graph)
  /\ atodo' = Files
  /\ apc' = "rewalk"
  /\ UNCHANGED <<tree, edits, reverted, manifest, raced, faults,
                 meta, awalked, graph, touched>>

SaveAnalyzedSnapshot ==
  /\ apc = "saveSnapshot"
  /\ StoreSnapshot(graph)
  /\ atodo' = Files
  /\ apc' = "rewalk"
  /\ UNCHANGED <<tree, edits, reverted, manifest, raced, faults,
                 meta, awalked, graph, touched>>

SaveAnalyzedManifest ==
  /\ apc = "rewalk"
  /\ atodo = {}
  /\ StoreManifest(awalked)
  /\ raced' = ClaimedUnparsed(graph, awalked)
  /\ apc' = "off"
  /\ UNCHANGED <<tree, edits, reverted, snapExists, snap, faults,
                 meta, atodo, awalked, graph, touched>>

(* A failed walk or write, or the process killed. *)
AnalysisDies ==
  /\ apc # "off"
  /\ Fault
  /\ apc' = "off"
  /\ UNCHANGED <<tree, edits, reverted, snapExists, snap, manifest, raced,
                 meta, atodo, awalked, graph, touched>>

AnalyzeStep ==
  \/ \E forced \in BOOLEAN : StartAnalysis(forced)
  \/ \E f \in Files : AnalyzeReadFile(f)
  \/ RunPipeline
  \/ SaveMeta
  \/ SaveAnalyzedSnapshot
  \/ SaveAnalyzedManifest
  \/ AnalysisDies

(* What the analysis learns of the user's edits: nothing.  touched is a    *)
(* history of them for the properties.                                     *)
NoteEdits == touched' = touched \union {f \in Files : tree'[f] # tree[f]}

=============================================================================
