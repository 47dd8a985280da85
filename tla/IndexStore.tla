----------------------------- MODULE IndexStore -----------------------------
(***************************************************************************)
(* What the indexers of Code Explorer share: the working tree a user edits *)
(* and the files of the .codeexplorer directory (graph.bin, the snapshot,  *)
(* and manifest.json).  WatchIndex and AnalyzeIndex add the two programs   *)
(* that read the one and write the others.                                 *)
(*                                                                         *)
(* A file's content is the number of the edit that produced it; Absent is  *)
(* the content of a file that does not exist.  A graph is abstracted to    *)
(* what the properties tell apart: for each file, the contents whose       *)
(* symbols it holds.  An exact graph holds one content at most per file;   *)
(* a second one is what the sources call a node surviving its file.        *)
(***************************************************************************)
EXTENDS Naturals, FiniteSets

CONSTANTS
  Files,      \* paths the walker accepts
  MaxEdits,   \* bound on the user's edits
  MaxFaults   \* bound on crashes and failed writes

ASSUME StoreAssumption ==
  /\ IsFiniteSet(Files)
  /\ MaxEdits \in Nat
  /\ MaxFaults \in Nat

VARIABLES
  tree,       \* content of every file of the working tree
  edits,      \* number of edits so far: the newest content there is
  reverted,   \* a file went back to a content that existed before
  snapExists, \* graph.bin exists
  snap,       \* the graph in graph.bin
  manifest,   \* manifest.json, Absent where it has no entry
  raced,      \* files claimed by a full analysis that did not parse them so
  faults      \* crashes and failed writes so far

storeVars == <<tree, edits, reverted, snapExists, snap, manifest, raced, faults>>

Absent  == 0
Content == Nat
Trees   == [Files -> Content]
Graphs  == [Files -> SUBSET (Content \ {Absent})]

(* The symbols parsing a content yields. *)
Symbols(c) == IF c = Absent THEN {} ELSE {c}

(* The graph a full parse of contents t builds. *)
GraphOf(t) == [f \in Files |-> Symbols(t[f])]

NothingRead == [f \in Files |-> Absent]
EmptyGraph  == [f \in Files |-> {}]

StoreTypeOK ==
  /\ tree \in Trees
  /\ edits \in Nat
  /\ reverted \in BOOLEAN
  /\ snapExists \in BOOLEAN
  /\ snap \in Graphs
  /\ manifest \in Trees
  /\ raced \in SUBSET Files
  /\ faults \in Nat

(* A repository with some initial files, never indexed or indexed by a run *)
(* that completed while nobody was editing.                                *)
StoreInit ==
  /\ tree \in [Files -> {Absent, 1}]
  /\ edits = 1
  /\ reverted = FALSE
  /\ raced = {}
  /\ faults = 0
  /\ \/ /\ snapExists = FALSE
        /\ snap = EmptyGraph
        /\ manifest = NothingRead
     \/ /\ snapExists = TRUE
        /\ snap = GraphOf(tree)
        /\ manifest = tree

-----------------------------------------------------------------------------
(* The user: new content, a deletion, or an older content come back (an    *)
(* undo, a git checkout).                                                  *)

SetContent(f, c) ==
  /\ edits < MaxEdits
  /\ edits' = edits + 1
  /\ tree' = [tree EXCEPT ![f] = c]
  /\ UNCHANGED <<snapExists, snap, manifest, raced, faults>>

Write(f) ==
  /\ SetContent(f, edits + 1)
  /\ UNCHANGED reverted

Delete(f) ==
  /\ tree[f] # Absent
  /\ SetContent(f, Absent)
  /\ UNCHANGED reverted

Revert(f) ==
  /\ \E c \in (1..edits) \ {tree[f]} : SetContent(f, c)
  /\ reverted' = TRUE

Edit == \E f \in Files : Write(f) \/ Delete(f) \/ Revert(f)

(* A write or a process dies: one of the bounded number of faults. *)
Fault ==
  /\ faults < MaxFaults
  /\ faults' = faults + 1

(* save_snapshot and save_manifest write a temporary file and rename it:   *)
(* the file changes as a whole or not at all.                              *)
StoreSnapshot(g) ==
  /\ snapExists' = TRUE
  /\ snap' = g

(* Mutant: a manifest without the entries of the files that are absent. *)
StorePresentOnly(t) ==
  manifest' = [f \in {g \in Files : t[g] # Absent} |-> t[f]]

StoreManifest(t) == manifest' = t

(* A full analysis walks the repository a second time to build its         *)
(* manifest: the files it claims with a content it did not parse.          *)
ClaimedUnparsed(g, t) == {f \in Files : g[f] # Symbols(t[f])}

=============================================================================
