--------------------------- MODULE KnowledgeGraph ---------------------------
(***************************************************************************)
(* The in-memory knowledge graph: nodes and relationships by id, and the   *)
(* secondary index from a file path to the ids of the nodes of that file.  *)
(* The three maps are changed by different lines of every method, and      *)
(* nothing but these methods keeps them together.                          *)
(*                                                                         *)
(* A map is a total function: NoNode and NoRel stand for a missing key,    *)
(* and the empty set for a missing entry of file_index (an entry that      *)
(* becomes empty is removed).  A node is abstracted to its label and its   *)
(* file path, a relationship to its endpoints and whether it is CONTAINS.  *)
(***************************************************************************)
EXTENDS Naturals, FiniteSets

CONSTANTS
  Ids,     \* node ids
  RelIds,  \* relationship ids
  Paths,   \* file paths
  Labels,  \* node labels, "Folder" among them
  NoNode, NoRel

Nodes == [label : Labels, file_path : Paths]
Rels  == [source_id : Ids, target_id : Ids, contains : BOOLEAN]

ASSUME GraphAssumption ==
  /\ IsFiniteSet(Ids)
  /\ NoNode \notin Nodes
  /\ NoRel \notin Rels

VARIABLES nodes, relationships, file_index

graph == <<nodes, relationships, file_index>>

TypeOK ==
  /\ nodes \in [Ids -> Nodes \union {NoNode}]
  /\ relationships \in [RelIds -> Rels \union {NoRel}]
  /\ file_index \in [Paths -> SUBSET Ids]

Init ==
  /\ nodes = [id \in Ids |-> NoNode]
  /\ relationships = [r \in RelIds |-> NoRel]
  /\ file_index = [f \in Paths |-> {}]

-----------------------------------------------------------------------------
(* What each map becomes.  ns, rs and fx are the three maps of a graph.    *)

NodeIds(ns) == {id \in Ids : ns[id] # NoNode}

InFile(ns, f) == {id \in NodeIds(ns) : ns[id].file_path = f}

WithNode(ns, id, node) == [ns EXCEPT ![id] = node]

(* Mutant: the id stays in the entry of its previous file. *)
IndexKeepingOld(fx, ns, id, node) ==
  [f \in Paths |-> IF f = node.file_path THEN fx[f] \union {id} ELSE fx[f]]

(* The id leaves the entry of its previous file and joins its new one. *)
IndexWithNode(fx, ns, id, node) ==
  [f \in Paths |->
     IF f = node.file_path THEN fx[f] \union {id}
     ELSE IF ns[id] # NoNode /\ f = ns[id].file_path THEN fx[f] \ {id}
     ELSE fx[f]]

WithoutNodes(ns, S) == [id \in Ids |-> IF id \in S THEN NoNode ELSE ns[id]]

(* Mutant: only outgoing relationships go with a node. *)
Leaves(rel, S) == rel.source_id \in S

(* Relationships that touch a removed id go with it. *)
Touches(rel, S) == rel.source_id \in S \/ rel.target_id \in S

Retained(rs, S) ==
  [r \in RelIds |-> IF rs[r] # NoRel /\ Touches(rs[r], S) THEN NoRel ELSE rs[r]]

(* remove_node and remove_nodes_by_label drop a removed id from the entry  *)
(* of the file its node named.                                             *)
IndexWithoutNodes(fx, ns, S) ==
  [f \in Paths |-> fx[f] \ (S \intersect InFile(ns, f))]

Folders(ns) == {id \in NodeIds(ns) : ns[id].label = "Folder"}

HasChild(rs) == {rs[r].source_id : r \in {q \in RelIds : rs[q] # NoRel /\ rs[q].contains}}

EmptyFolders(ns, rs) == Folders(ns) \ HasChild(rs)

(* The ids the loop of remove_empty_folders has removed after n rounds. *)
PrunedAfter(ns, rs) ==
  LET p[n \in Nat] ==
        IF n = 0 THEN {}
        ELSE LET before == p[n - 1]
             IN  before \union EmptyFolders(WithoutNodes(ns, before), Retained(rs, before))
  IN  p

(* Mutant: a single round. *)
PrunableAtOnce(ns, rs) == EmptyFolders(ns, rs)

(* The loop ends when a round finds nothing: one round per folder at most. *)
Prunable(ns, rs) == PrunedAfter(ns, rs)[Cardinality(Folders(ns))]

-----------------------------------------------------------------------------
(* The methods of KnowledgeGraph that change it. *)

add_node(id, node) ==
  /\ nodes' = WithNode(nodes, id, node)
  /\ file_index' = IndexWithNode(file_index, nodes, id, node)
  /\ UNCHANGED relationships

remove_node(id) ==
  /\ nodes[id] # NoNode
  /\ nodes' = WithoutNodes(nodes, {id})
  /\ file_index' = IndexWithoutNodes(file_index, nodes, {id})
  /\ relationships' = Retained(relationships, {id})

(* Works from the index alone, whose entry is taken for the file's nodes. *)
remove_nodes_by_file(f) ==
  /\ file_index[f] # {}
  /\ nodes' = WithoutNodes(nodes, file_index[f])
  /\ relationships' = Retained(relationships, file_index[f])
  /\ file_index' = [file_index EXCEPT ![f] = {}]

remove_nodes_by_label(label) ==
  LET S == {id \in NodeIds(nodes) : nodes[id].label = label}
  IN  /\ nodes' = WithoutNodes(nodes, S)
      /\ file_index' = IndexWithoutNodes(file_index, nodes, S)
      /\ relationships' = Retained(relationships, S)

remove_empty_folders ==
  LET S == Prunable(nodes, relationships)
  IN  /\ nodes' = WithoutNodes(nodes, S)
      /\ file_index' = IndexWithoutNodes(file_index, nodes, S)
      /\ relationships' = Retained(relationships, S)

(* Nothing checks that the endpoints exist. *)
add_relationship(r, rel) ==
  /\ relationships' = [relationships EXCEPT ![r] = rel]
  /\ UNCHANGED <<nodes, file_index>>

remove_relationship(r) ==
  /\ relationships' = [relationships EXCEPT ![r] = NoRel]
  /\ UNCHANGED <<nodes, file_index>>

Next ==
  \/ \E id \in Ids, node \in Nodes : add_node(id, node)
  \/ \E id \in Ids : remove_node(id)
  \/ \E f \in Paths : remove_nodes_by_file(f)
  \/ \E label \in Labels : remove_nodes_by_label(label)
  \/ remove_empty_folders
  \/ \E r \in RelIds, rel \in Rels : add_relationship(r, rel)
  \/ \E r \in RelIds : remove_relationship(r)

Spec == Init /\ [][Next]_graph

-----------------------------------------------------------------------------
(* file_index is exact: under a path, the nodes of that file, all of them  *)
(* and no others, whatever sequence of calls led here.  A missing id would *)
(* survive the removal of its file.                                        *)
IndexExact == \A f \in Paths : file_index[f] = InFile(nodes, f)

Dangling(ns, rel) == ns[rel.source_id] = NoNode \/ ns[rel.target_id] = NoNode

(* No removal leaves a relationship behind that points at a removed node:  *)
(* one that dangles was added so.                                          *)
NoneLeftDangling ==
  [][ \A r \in RelIds :
        (relationships'[r] # NoRel /\ Dangling(nodes', relationships'[r]))
          => \/ relationships'[r] # relationships[r]
             \/ Dangling(nodes, relationships[r]) ]_graph

(* A set of folders holds itself up if each of them contains something     *)
(* that is not a folder outside of the set.                                *)
HoldsUp(S) ==
  \A id \in S : \E r \in RelIds :
    /\ relationships[r] # NoRel
    /\ relationships[r].contains
    /\ relationships[r].source_id = id
    /\ relationships[r].target_id \notin Folders(nodes) \ S

Held == UNION {S \in SUBSET Folders(nodes) : HoldsUp(S)}

(* remove_empty_folders removes in one call every folder that contains     *)
(* nothing, directly or through folders that contain nothing, and no other *)
(* node.                                                                   *)
PruneExact ==
  [][ remove_empty_folders =>
        \A id \in Ids :
          nodes'[id] = IF id \in Folders(nodes) \ Held THEN NoNode ELSE nodes[id] ]_graph

=============================================================================
