-------------------------- MODULE IncrementalGraph --------------------------
(***************************************************************************)
(* What incremental_update does to the nodes and relationships of a graph, *)
(* one call after another, and how the result compares with the graph a    *)
(* full analysis builds of the same tree.  One update is one action here;  *)
(* edits, crashes and saves in the middle of it are WatchIndex's subject.  *)
(*                                                                         *)
(* A file's content is abstracted to the parts it defines (symbols of a    *)
(* code file, sections of a document), the names it refers to (imports of  *)
(* a code file, links of a document), the calls in it, and the marks that  *)
(* later phases of run_pipeline make nodes of (to-do comments, endpoints,  *)
(* tables, variables of the environment).  Every symbol is exported.       *)
(* Inheritance is left out: it is resolved as calls are, at both ends.     *)
(***************************************************************************)
EXTENDS KnowledgeGraph, Sequences

CONSTANTS
  Code,       \* paths of source files
  Docs,       \* paths of prose documents
  Dirs,       \* paths of directories
  Root,       \* the repository itself, which has no node; the path ""
  Parent,     \* the directory of every file and directory
  PartNames,  \* names of symbols and sections
  RefNames,   \* what imports and links say
  MarkNames,
  Candidates, \* for each name, the files it may mean, the preferred one first
  PathOrder,  \* the code files in the order of their paths
  Contents,   \* for each file, the contents it may have
  NoPart,     \* the caller of a call outside of all symbols
  NoFile

Files == Code \union Docs

(* Ids as generate_id makes them: a label and a path, or a path and a name. *)
FileId(f)    == <<"File", f>>
FolderId(d)  == <<"Folder", d>>
PartId(f, s) == <<"Part", f, s>>
MarkId(f, m) == <<"Mark", f, m>>
CommunityId  == <<"Community", Root>>

AllIds == {FileId(f) : f \in Files} \union {FolderId(d) : d \in Dirs}
            \union {PartId(f, s) : f \in Files, s \in PartNames}
            \union {MarkId(f, m) : f \in Code, m \in MarkNames} \union {CommunityId}

NodeOf(id) == [label |-> id[1], file_path |-> id[2]]

IdOf(x) == IF x \in Dirs THEN FolderId(x) ELSE FileId(x)

ContainsRel(x)      == <<"contains", FolderId(Parent[x]), IdOf(x)>>
DefinesRel(f, s)    == <<"defines", FileId(f), PartId(f, s)>>
RefersRel(f, g)     == <<"refers", FileId(f), FileId(g)>>
CallsRel(src, g, s) == <<"calls", src, PartId(g, s)>>
BelongsRel(f, m)    == <<"belongs", MarkId(f, m), FileId(f)>>
MemberRel(f, s)     == <<"member", PartId(f, s), CommunityId>>

(* Whatever a call may be attributed to. *)
Callers == {FileId(f) : f \in Code} \union {PartId(f, s) : f \in Code, s \in PartNames}

AllRels == {ContainsRel(x) : x \in {y \in Files \union Dirs : Parent[y] # Root}}
             \union {DefinesRel(f, s) : f \in Files, s \in PartNames}
             \union {RefersRel(f, g) : f \in Files, g \in Files}
             \union {CallsRel(src, g, s) : src \in Callers, g \in Code, s \in PartNames}
             \union {BelongsRel(f, m) : f \in Code, m \in MarkNames}
             \union {MemberRel(f, s) : f \in Code, s \in PartNames}

RelOf(r) == [source_id |-> r[2], target_id |-> r[3], contains |-> r[1] = "contains"]

Calls == [by : PartNames \union {NoPart}, of : PartNames]

(* A path is a file's or a directory's, and longer than its parent's.      *)
ASSUME IncrementalAssumption ==
  /\ Code \intersect Docs = {} /\ Files \intersect Dirs = {}
  /\ IsFiniteSet(Dirs) /\ Root \notin Files \union Dirs
  /\ Parent \in [Files \union Dirs -> Dirs \union {Root}]
  /\ \E depth \in [Files \union Dirs -> 0 .. Cardinality(Dirs)] :
       \A x \in Files \union Dirs : Parent[x] # Root => depth[Parent[x]] < depth[x]
  /\ NoPart \notin PartNames
  /\ \A f \in Code : Contents[f] \subseteq
       [parts : SUBSET PartNames, refers : SUBSET RefNames,
        calls : SUBSET Calls, marks : SUBSET MarkNames]
  /\ \A f \in Docs : Contents[f] \subseteq [parts : SUBSET PartNames, refers : SUBSET RefNames]
  /\ \A f \in Files : NoFile \notin Contents[f]
  /\ Ids = AllIds /\ RelIds = AllRels
  /\ Paths = Files \union Dirs \union {Root}
  /\ Labels = {"File", "Folder", "Part", "Mark", "Community"}

ASSUME OrderAssumption ==
  /\ \A n \in RefNames : Candidates[n] \in Seq(Files)
  /\ PathOrder \in Seq(Code)

VARIABLES
  tree,      \* the working tree
  manifest,  \* the manifest: contents at the last update, NoFile if not listed
  synced,    \* nothing was edited since the graph was built or updated
  analyzed,  \* documents as analyzed, as long as no manifest lists documents
  missed,    \* documents that changed before a manifest listed them
  changed,   \* files the last update found added or modified, until an edit
  touched,   \* files some update found changed since the last analysis
  orphans    \* calls that some update left without a caller

vars == <<nodes, relationships, file_index, tree, manifest, synced, analyzed,
          missed, changed, touched, orphans>>

Trees == {t \in [Files -> (UNION {Contents[f] : f \in Files}) \union {NoFile}] :
            \A f \in Files : t[f] \in Contents[f] \union {NoFile}}

-----------------------------------------------------------------------------
(* What create_structure_nodes, parse_files and create_document_nodes add  *)
(* for a set of files: the folder chain, the file, and its parts.          *)

Above[x \in Files \union Dirs] ==
  IF Parent[x] = Root THEN {} ELSE {Parent[x]} \union Above[Parent[x]]

Chain(f) == {f} \union Above[f]

NewIds(t, S) ==
  UNION {{IdOf(x) : x \in Chain(f)} \union {PartId(f, s) : s \in t[f].parts} : f \in S}

StructureRels(t, S) ==
  UNION {{ContainsRel(x) : x \in {y \in Chain(f) : Parent[y] # Root}}
           \union {DefinesRel(f, s) : s \in t[f].parts} : f \in S}

(* Resolution takes the first candidate that is in S: the exact path or    *)
(* the first file with that suffix, extension by extension.                *)
FirstOf(order, S) ==
  {g \in S : \E i \in DOMAIN order :
     order[i] = g /\ \A j \in 1 .. i - 1 : order[j] \notin S}

(* resolve_imports and the links of documents: the files that f refers to  *)
(* when they are looked for among known.  A document's link to itself is   *)
(* none.                                                                   *)
LinkedTo(t, f, known) ==
  (UNION {FirstOf(Candidates[n], known) : n \in t[f].refers})
    \ (IF f \in Docs THEN {f} ELSE {})

ReferenceRels(t, S, known) ==
  UNION {{RefersRel(f, g) : g \in LinkedTo(t, f, known)} : f \in S}

Symbols(ids) == {p \in Code \X PartNames : PartId(p[1], p[2]) \in ids}

(* A call leads to the symbol of that name in the same file, else in the   *)
(* first of the imported files that have one, else of all that do.         *)
CallTargets(f, s, imported, symbols) ==
  LET having == {g \in Code : <<g, s>> \in symbols}
      near   == having \intersect imported
  IN  IF f \in having THEN {f}
      ELSE FirstOf(PathOrder, IF near # {} THEN near ELSE having)

(* find_enclosing_method_id names the caller without a look at the nodes:  *)
(* the id may be no node's.                                                *)
CallSource(f, c) == IF c.by = NoPart THEN FileId(f) ELSE PartId(f, c.by)

(* resolve_calls for the code files of S, whose imports were looked for    *)
(* among each other.                                                       *)
CallRels(t, S, symbols) ==
  UNION {UNION {{CallsRel(CallSource(f, c), g, c.of) :
                   g \in CallTargets(f, c.of, LinkedTo(t, f, S), symbols)} :
                c \in t[f].calls} : f \in S}

-----------------------------------------------------------------------------
(* A full analysis: run_pipeline. *)

Present(t) == {f \in Files : t[f] # NoFile}

Indexed(t, docs) == Present(t) \intersect (IF docs THEN Files ELSE Code)

Lost(rels, ids) == {r \in rels : r[1] = "calls" /\ r[2] \notin ids}

(* Mutant: what has no caller is left as it is. *)
NotRepointed(rels, ids) == rels

(* repoint_orphan_call_sources: a call without its caller becomes one of   *)
(* the file, or goes.                                                      *)
Repointed(rels, ids) ==
  (rels \ Lost(rels, ids))
    \union {<<"calls", FileId(r[2][2]), r[3]>> :
              r \in {q \in Lost(rels, ids) : FileId(q[2][2]) \in ids}}

MarksOf(t) == {p \in Code \X MarkNames : t[p[1]] # NoFile /\ p[2] \in t[p[1]].marks}

FullIds(t, docs) ==
  NewIds(t, Indexed(t, docs)) \union {MarkId(p[1], p[2]) : p \in MarksOf(t)}

FullRels(t, docs) ==
  LET code == Present(t) \intersect Code
      ids  == NewIds(t, Indexed(t, docs))
  IN  Repointed(StructureRels(t, Indexed(t, docs))
                  \union ReferenceRels(t, code, code)
                  \union ReferenceRels(t, Indexed(t, docs) \intersect Docs, Present(t))
                  \union CallRels(t, code, Symbols(ids)), ids)
        \union {BelongsRel(p[1], p[2]) : p \in MarksOf(t)}

SetGraph(ids, rels) ==
  /\ nodes' = [id \in AllIds |-> IF id \in ids THEN NodeOf(id) ELSE NoNode]
  /\ relationships' = [r \in AllRels |-> IF r \in rels THEN RelOf(r) ELSE NoRel]
  /\ file_index' = [p \in Paths |-> {id \in ids : id[2] = p}]

(* The manifest analyze, watch and the desktop save: code files only. *)
CodeOnly(t) == [f \in Files |-> IF f \in Code THEN t[f] ELSE NoFile]

DocsOnly(t) == [f \in Files |-> IF f \in Docs THEN t[f] ELSE NoFile]
NothingListed == [f \in Files |-> NoFile]

(* The graph of an empty repository, which the tree has grown in since. *)
IncInit ==
  /\ nodes = [id \in AllIds |-> NoNode]
  /\ relationships = [r \in AllRels |-> NoRel]
  /\ file_index = [p \in Paths |-> {}]
  /\ tree \in Trees
  /\ manifest = NothingListed
  /\ synced = FALSE
  /\ analyzed = NothingListed
  /\ missed = {}
  /\ changed = {}
  /\ touched = {}
  /\ orphans = {}

Edit(f, c) ==
  /\ tree[f] # c
  /\ tree' = [tree EXCEPT ![f] = c]
  /\ synced' = FALSE
  /\ changed' = {}
  /\ UNCHANGED <<nodes, relationships, file_index, manifest, analyzed, missed,
                 touched, orphans>>

(* detect_communities groups some symbols, at least two if any; one        *)
(* community stands for all, and for the processes.                        *)
Analyze(docs) ==
  /\ LET ids  == FullIds(tree, docs)
         rels == FullRels(tree, docs)
     IN  \E grouped \in SUBSET Symbols(ids) :
           /\ Cardinality(grouped) # 1
           /\ SetGraph(ids \union (IF grouped = {} THEN {} ELSE {CommunityId}),
                       rels \union {MemberRel(p[1], p[2]) : p \in grouped})
  /\ manifest' = CodeOnly(tree)
  /\ synced' = TRUE
  /\ analyzed' = IF docs THEN DocsOnly(tree) ELSE NothingListed
  /\ missed' = {}
  /\ changed' = {}
  /\ touched' = {}
  /\ orphans' = {}
  /\ UNCHANGED tree

-----------------------------------------------------------------------------
(* incremental_update *)

graph_has_documents ==
  \E id \in NodeIds(nodes) : id[1] \in {"File", "Part"} /\ id[2] \in Docs

NewManifest == IF graph_has_documents THEN tree ELSE CodeOnly(tree)

(* Mutants: the nodes of a modified file stay; it is not parsed again. *)
RemovedAlone(new) == {f \in Files : manifest[f] # NoFile /\ new[f] = NoFile}
AddedAlone(new)   == {f \in Files : new[f] # NoFile /\ manifest[f] = NoFile}

RemovedOrModified(new) == {f \in Files : manifest[f] # NoFile /\ manifest[f] # new[f]}
AddedOrModified(new)   == {f \in Files : new[f] # NoFile /\ manifest[f] # new[f]}

(* Mutants: imports are resolved without a look at the files there are, or *)
(* among the files that did not change.                                    *)
FoundAnywhere(t, S) == ReferenceRels(t, S, Files)

FoundUnchanged(t, S) ==
  ReferenceRels(t, S \intersect Code, (Present(t) \intersect Code) \ S)
    \union ReferenceRels(t, S \intersect Docs, Present(t))

(* The references of the files in S that an update makes.  The imports of  *)
(* code are looked for among the files that are parsed; the links of       *)
(* documents among all files.                                              *)
FoundAgain(t, S) ==
  ReferenceRels(t, S \intersect Code, S \intersect Code)
    \union ReferenceRels(t, S \intersect Docs, Present(t))

(* Steps 6 and 6b: the graph (ns, rs, fx) with the files of S indexed.     *)
(* Calls are resolved with the symbols of the whole graph.                 *)
NodesWith(ns, t, S) ==
  LET new == NewIds(t, S)
  IN  [id \in AllIds |-> IF id \in new THEN NodeOf(id) ELSE ns[id]]

RelsWith(rs, ns, t, S) ==
  LET new == StructureRels(t, S) \union FoundAgain(t, S)
               \union CallRels(t, S \intersect Code, Symbols(NodeIds(ns)))
  IN  [r \in AllRels |-> IF r \in new THEN RelOf(r) ELSE rs[r]]

(* Mutant: an added file is taken to have no ids yet. *)
IndexReplaced(fx, t, S) ==
  LET new == NewIds(t, S)
  IN  [p \in Paths |->
         IF \E id \in new : id[2] = p THEN {id \in new : id[2] = p} ELSE fx[p]]

IndexWith(fx, t, S) ==
  LET new == NewIds(t, S)
  IN  [p \in Paths |-> fx[p] \union {id \in new : id[2] = p}]

(* Documents that an analysis indexed and that changed since: the first    *)
(* update after it has no manifest entry to notice it by.                  *)
MissedNow == {d \in Docs : analyzed[d] # NoFile /\ analyzed[d] # tree[d]}

(* Step 5, steps 6 and 6b, step 6c. *)
Update ==
  LET new     == NewManifest
      dropped == RemovedOrModified(new)
      parsed  == AddedOrModified(new)
      gone    == UNION {file_index[f] : f \in dropped}
      kept    == [p \in Paths |-> IF p \in dropped THEN {} ELSE file_index[p]]
      ns      == NodesWith(WithoutNodes(nodes, gone), new, parsed)
      rs      == RelsWith(Retained(relationships, gone), ns, new, parsed)
      fx      == IndexWith(kept, new, parsed)
      empty   == Prunable(ns, rs)
  IN  /\ manifest # new
      /\ nodes' = WithoutNodes(ns, empty)
      /\ relationships' = Retained(rs, empty)
      /\ file_index' = IndexWithoutNodes(fx, ns, empty)
      /\ manifest' = new
      /\ synced' = TRUE
      /\ changed' = parsed
      /\ touched' = touched \union dropped \union parsed
      /\ missed' = (missed \ dropped) \union MissedNow
      /\ analyzed' = NothingListed
      /\ orphans' = {r \in AllRels : /\ relationships'[r] # NoRel
                                     /\ r \in orphans \/ nodes'[r[2]] = NoNode}
      /\ UNCHANGED tree

(* No change: the update returns before it touches the graph. *)
UpdateNothing ==
  /\ manifest = NewManifest
  /\ synced' = TRUE
  /\ changed' = {}
  /\ missed' = missed \union MissedNow
  /\ analyzed' = NothingListed
  /\ UNCHANGED <<nodes, relationships, file_index, tree, manifest, touched, orphans>>

IncNext ==
  \/ \E f \in Files : \E c \in Contents[f] \union {NoFile} : Edit(f, c)
  \/ \E docs \in BOOLEAN : Analyze(docs)
  \/ Update
  \/ UpdateNothing

IncSpec == IncInit /\ [][IncNext]_vars

-----------------------------------------------------------------------------
(* The graph a full analysis of the working tree would build, with         *)
(* documents if this one has any.                                          *)
Expected == FullIds(tree, graph_has_documents)
ExpectedRels == FullRels(tree, graph_has_documents)

(* The files under which a missed document may have left something. *)
Spoiled == UNION {Chain(d) : d \in missed}

(* file_index stays exact through the composition of the engine's calls.   *)
IndexStaysExact == IndexExact

(* The one relationship that may dangle is a call whose caller is no node, *)
(* in a file that an update parsed: no target is missing, and no other end *)
(* of anything, whatever mixture of removals, additions and prunings led   *)
(* here.                                                                   *)
OnlyCallersMissing ==
  \A r \in AllRels : relationships[r] # NoRel =>
    /\ nodes[r[3]] # NoNode
    /\ nodes[r[2]] = NoNode => r[1] = "calls" /\ r[2][2] \in touched

(* After an update the files, folders and parts are those of a full        *)
(* analysis: nothing of a removed, renamed or rewritten file survives, no  *)
(* folder without files is left, nothing is missing.  The nodes of the     *)
(* later phases are there for exactly the files that no update touched     *)
(* since the analysis.  Documents that changed before a manifest listed    *)
(* them are excepted, with the folders above them.                         *)
NodesAsAnalyzed ==
  synced =>
    LET expected == Expected
    IN  \A id \in AllIds \ {CommunityId} :
          id[2] \notin Spoiled =>
            (nodes[id] # NoNode <=>
               id \in expected /\ (id[1] = "Mark" => id[2] \notin touched))

(* What an import, a link or a call makes is in the file as it is now, and *)
(* a call is attributed as a full analysis does it.                        *)
AttributedTo(t, f, c) == IF c.by \in t[f].parts THEN PartId(f, c.by) ELSE FileId(f)

Written(t, r) ==
  LET f == r[2][2]
  IN  /\ t[f] # NoFile
      /\ \/ /\ r[1] = "refers"
            /\ \E n \in t[f].refers : \E i \in DOMAIN Candidates[n] : Candidates[n][i] = r[3][2]
         \/ /\ r[1] = "calls"
            /\ \E c \in t[f].calls : r[2] = AttributedTo(t, f, c) /\ r[3][3] = c.of

(* After an update the containment and definition relationships are those  *)
(* of a full analysis, those of the later phases are left of the files     *)
(* that no update touched, and every reference and call is one that its    *)
(* file makes as it is now, to something there is.  Excepted are calls     *)
(* that an update left without a caller: nothing removes them with their   *)
(* file.                                                                   *)
RelationshipsSound ==
  synced =>
    LET expected == Expected
        rels     == ExpectedRels
    IN  \A r \in AllRels :
          (r[2][2] \notin Spoiled /\ r[3][2] \notin Spoiled) =>
            /\ r[1] \in {"contains", "defines"} => (relationships[r] # NoRel <=> r \in rels)
            /\ r[1] = "belongs" =>
                 (relationships[r] # NoRel <=> r \in rels /\ r[2][2] \notin touched)
            /\ relationships[r] # NoRel =>
                 /\ r[1] = "member" => r[2] \in expected /\ r[2][2] \notin touched
                 /\ r[1] \in {"refers", "calls"} => r[3] \in expected
                 /\ r[1] \in {"refers", "calls"} /\ r \notin orphans => Written(tree, r)

(* An update loses references of files it did not parse, or to files it    *)
(* did not parse, and no others.                                           *)
ParsedTogetherKept ==
  synced =>
    LET rels == ExpectedRels
    IN  \A f, g \in changed :
          (RefersRel(f, g) \in rels /\ (f \in Code <=> g \in Code))
            => relationships[RefersRel(f, g)] # NoRel

(* The files that decide what the imports of f lead to. *)
Concerned(t, f) ==
  {f} \union {g \in Code : \E n \in t[f].refers :
                             \E i \in DOMAIN Candidates[n] : Candidates[n][i] = g}

(* A name is resolved among the files that are parsed, so an import may    *)
(* lead past the file it means; but what the files that decide were all    *)
(* read together, by the last update or by an analysis after which none    *)
(* of them changed, is exactly what a full analysis finds.                 *)
ReadTogetherExact ==
  synced =>
    LET rels == ExpectedRels
    IN  \A f \in Present(tree) \intersect Code :
          \/ Concerned(tree, f) \intersect touched = {}
          \/ Concerned(tree, f) \intersect Present(tree) \subseteq changed
          => \A g \in Files :
               relationships[RefersRel(f, g)] # NoRel <=> RefersRel(f, g) \in rels

=============================================================================
